-------------------------- MODULE RuntimeIdentities --------------------------
(***************************************************************************)
(* The GitHub identities of the orchestration runtime.  An operator's      *)
(* command verifies an installation, mints a short token and projects it   *)
(* into a Secret (repository_provider_identity.py,                         *)
(* repository_lifecycle_identity.py, repository_provisioning_identity.py), *)
(* into a Secret and the shared broker deployment                          *)
(* (workspace_intake_identity.py), or into both with the readiness runtime *)
(* of WGCF (prototype_workflow_identity.py).  The timer of the complete    *)
(* runtime renews the tokens of the last two groups together               *)
(* (console_workflow_credentials.py), and the verification of the operating *)
(* runtime forces their renewal, fresh tokens included, under the same      *)
(* lock; nothing excludes either from an operator's command.                *)
(***************************************************************************)
EXTENDS Naturals, Sequences

CONSTANTS Plain,      \* identities with a Secret only
          Intakes,    \* identities mounted by the broker
          Workflows,  \* identities that also need the readiness runtime
          Sessions,   \* development sessions, one after the other
          Commands,   \* operator commands the run explores
          Ticks,      \* ticks of the renewal timer
          Faults      \* failed calls, lost answers, kills

Ids == Plain \cup Intakes \cup Workflows
Group == Intakes \cup Workflows  \* the identities the timer renews

ASSUME IdentitiesAssumption ==
  /\ Plain \cap Group = {} /\ Intakes \cap Workflows = {}
  /\ Ticks \in Nat /\ Sessions \in Nat \ {0} /\ Commands \in Nat /\ Faults \in Nat

VARIABLES
  live,      \* tokens GitHub accepts
  aging,     \* tokens at or near their expiry
  secret,    \* the token in each Secret and the session it is bound to
  broker,    \* deployment of the orchestration service: template (modes, and the
             \* token whose expiry it carries), pods, mounts
  wgcf,      \* readiness runtime: the workflows of its template and of its pods
  session,   \* the session of the manifest
  op,        \* the operator's command
  renewal,   \* the tick of the timer, or the renewal a verification forces
  removed,   \* identities whose revocation succeeded and that were not delivered since
  spent

vars == <<live, aging, secret, broker, wgcf, session, op, renewal, removed, spent>>

\* A token is known by who minted it, for which identity and when: what the
\* Secrets held at the start, an operator's command or a tick of the timer.
Token == [from : {"start", "command", "tick"}, id : Ids, n : Nat]
NoToken == [from |-> "nowhere", id |-> "none", n |-> 0]
Start(i) == [from |-> "start", id |-> i, n |-> 0]
None == [token |-> NoToken, session |-> 0]
Modes == {"off", "on", "suspended"}

Idle == [cmd |-> "idle", id |-> "none", todo |-> << >>, token |-> NoToken, prior |-> NoToken,
         applied |-> FALSE, failing |-> FALSE]
Asleep == [todo |-> << >>, force |-> FALSE, seen |-> [i \in Group |-> None], due |-> {},
           fresh |-> [i \in Group |-> NoToken], done |-> {}]

\* Nothing is projected, or everything of the group is and runs.
Init ==
  /\ \E ready \in BOOLEAN :
       /\ live = IF ready THEN {Start(i) : i \in Group} ELSE {}
       /\ secret = [i \in Ids |-> IF ready /\ i \in Group
                                    THEN [token |-> Start(i), session |-> 1] ELSE None]
       /\ LET mode == [i \in Ids |-> IF ready /\ i \in Group THEN "on" ELSE "off"]
          IN broker = [want |-> mode, has |-> mode, rolled |-> TRUE,
                       stamp |-> [i \in Ids |-> secret[i].token],
                       mount |-> [i \in Ids |-> secret[i].token]]
       /\ LET serves == [i \in Workflows |-> IF ready THEN "on" ELSE "off"]
          IN wgcf = [want |-> serves, has |-> serves, rolled |-> TRUE]
  /\ aging = {}
  /\ session = 1
  /\ op = Idle
  /\ renewal = Asleep
  /\ removed = {}
  /\ spent = [commands |-> 0, ticks |-> 0, faults |-> 0]

(***************************************************************************)
(* Tokens.                                                                 *)
(***************************************************************************)
\* The token of the running command, and that of an identity in a tick.
Minted == [from |-> "command", id |-> op.id, n |-> spent.commands]
MintedFor(i) == [from |-> "tick", id |-> i, n |-> spent.ticks]

Fault == /\ spent.faults < Faults
         /\ spent' = [spent EXCEPT !.faults = @ + 1]

(***************************************************************************)
(* The operator's commands, as lists of steps.                             *)
(***************************************************************************)
PlainDelivery == <<"running", "mint", "apply", "receipt">>
IntakeDelivery == <<"running", "mint", "apply", "patch", "rollout", "receipt">>
WorkflowDelivery == <<"prior", "mint", "apply", "readiness", "settle", "patch",
                      "restart", "rollout", "retire", "receipt">>

DeliverSteps(i) == IF i \in Plain THEN PlainDelivery
                   ELSE IF i \in Intakes THEN IntakeDelivery ELSE WorkflowDelivery

\* The readiness runtime is taken away from a broker that still runs.
RemovalReversed == <<"unready", "settle", "unpatch", "rollout", "delete">>

\* The broker stops first, and only then what it depends on.
Removal == <<"unpatch", "rollout", "delete", "unready", "settle">>

PlainRevocation == <<"read", "revoke", "delete", "receipt">>
IntakeRevocation == <<"read", "revoke", "unpatch", "rollout", "delete", "receipt">>
WorkflowRevocation == <<"read", "revoke">> \o Removal \o <<"receipt">>

RevokeSteps(i) == IF i \in Plain THEN PlainRevocation
                  ELSE IF i \in Intakes THEN IntakeRevocation ELSE WorkflowRevocation

SuspendSteps == <<"read", "pause", "rollout", "pauseReadiness", "settle", "receipt">>
CommissionSteps == <<"mint", "return", "receipt">>
StatusSteps == <<"read", "probe", "receipt">>

\* What a delivery undoes after its token exists.
WorkflowCleanup == <<"discard", "discardPrior">> \o (IF op.applied THEN Removal ELSE << >>)
Cleanup == IF op.id \in Workflows THEN WorkflowCleanup
           ELSE <<"discard">> \o (IF op.applied THEN <<"delete">> ELSE << >>)

Now(step) == op.todo # << >> /\ Head(op.todo) = step
Rest == [op EXCEPT !.todo = Tail(@)]

Settled(next) == IF next.todo = << >> THEN Idle ELSE next
Proceed == op' = Settled(Rest)

\* Before a token exists, and outside a delivery, a failure only ends the command.
Failed ==
  IF op.cmd = "deliver" /\ op.token # NoToken /\ ~op.failing
    THEN [op EXCEPT !.todo = Cleanup, !.failing = TRUE]
    ELSE Idle

cluster == <<secret, broker, wgcf>>

\* The manifest names a session that runs; a revocation accepts one that is down.
Running ==
  /\ Now("running")
  /\ Proceed
  /\ UNCHANGED <<live, aging, cluster, session, renewal, removed, spent>>

Prior ==
  /\ Now("prior")
  /\ op' = [Rest EXCEPT !.prior = secret[op.id].token]
  /\ UNCHANGED <<live, aging, cluster, session, renewal, removed, spent>>

\* The Secret must be there and belong to the session of the manifest.
Read ==
  /\ Now("read")
  /\ LET bound == secret[op.id]
     IN op' = IF bound # None /\ bound.session = session
                THEN [Rest EXCEPT !.token = bound.token] ELSE Idle
  /\ UNCHANGED <<live, aging, cluster, session, renewal, removed, spent>>

Mint ==
  /\ Now("mint")
  /\ live' = live \cup {Minted}
  /\ op' = [Rest EXCEPT !.token = Minted]
  /\ UNCHANGED <<aging, cluster, session, renewal, removed, spent>>

\* Permissions, lifetime and repositories of the token are not what was asked
\* for, and it is revoked.
VerifyRefused ==
  /\ Now("mint")
  /\ Fault
  /\ op' = Idle
  /\ UNCHANGED <<live, aging, cluster, session, renewal, removed>>

Apply ==
  /\ Now("apply")
  /\ secret' = [secret EXCEPT ![op.id] = [token |-> op.token, session |-> session]]
  /\ removed' = removed \ {op.id}
  /\ op' = [Rest EXCEPT !.applied = TRUE]
  /\ UNCHANGED <<live, aging, broker, wgcf, session, renewal, spent>>

\* The Secret may have been written all the same.
ApplyFails ==
  /\ Now("apply")
  /\ Fault
  /\ \/ secret' = [secret EXCEPT ![op.id] = [token |-> op.token, session |-> session]]
        /\ removed' = removed \ {op.id}
     \/ UNCHANGED <<secret, removed>>
  /\ op' = Failed
  /\ UNCHANGED <<live, aging, broker, wgcf, session, renewal>>

\* Tokens a command has GitHub forget.
Ends(step) ==
  CASE step \in {"revoke", "return", "discard"} -> op.token
    [] step \in {"retire", "discardPrior"}      -> op.prior

Revoke ==
  /\ op.todo # << >> /\ Head(op.todo) \in {"revoke", "return", "discard", "retire", "discardPrior"}
  /\ live' = live \ {Ends(Head(op.todo))}
  /\ Proceed
  /\ UNCHANGED <<aging, cluster, session, renewal, removed, spent>>

\* GitHub refuses or its answer is lost; a cleanup goes on.
RevokeFails ==
  /\ op.todo # << >> /\ Head(op.todo) \in {"revoke", "return", "discard", "retire", "discardPrior"}
  /\ Fault
  /\ live' \in {live, live \ {Ends(Head(op.todo))}}
  /\ op' = IF op.failing THEN Settled(Rest) ELSE Failed
  /\ UNCHANGED <<aging, cluster, session, renewal, removed>>

\* The template does not carry the expiry of the token.
Unstamped(mode, stamp) ==
  [broker EXCEPT !.want[op.id] = mode, !.rolled = @ /\ broker.want[op.id] = mode]

\* A template that does not change rolls nothing out.
Patched(mode, stamp) ==
  [broker EXCEPT !.want[op.id] = mode, !.stamp[op.id] = stamp,
                 !.rolled = @ /\ broker.want[op.id] = mode /\ broker.stamp[op.id] = stamp]

SetBroker(step, new) ==
  /\ Now(step)
  /\ broker' = new
  /\ Proceed
  /\ UNCHANGED <<live, aging, secret, wgcf, session, renewal, removed, spent>>

Patch == SetBroker("patch", Patched("on", IF op.id \in Intakes THEN op.token
                                                                 ELSE broker.stamp[op.id]))
Pause == SetBroker("pause", Patched("suspended", broker.stamp[op.id]))
Unpatch == SetBroker("unpatch", Patched("off", broker.stamp[op.id]))
Restart == SetBroker("restart", [broker EXCEPT !.rolled = FALSE])

\* The command waits for the pods of the present template.
Rollout ==
  /\ Now("rollout")
  /\ broker.rolled
  /\ Proceed
  /\ UNCHANGED <<live, aging, cluster, session, renewal, removed, spent>>

SetWgcf(step, mode) ==
  /\ Now(step)
  /\ wgcf' = [wgcf EXCEPT !.want[op.id] = mode, !.rolled = @ /\ wgcf.want[op.id] = mode]
  /\ Proceed
  /\ UNCHANGED <<live, aging, secret, broker, session, renewal, removed, spent>>

Readiness == SetWgcf("readiness", "on")
PauseReadiness == SetWgcf("pauseReadiness", "suspended")
Unready == SetWgcf("unready", "off")

Settle ==
  /\ Now("settle")
  /\ wgcf.rolled
  /\ Proceed
  /\ UNCHANGED <<live, aging, cluster, session, renewal, removed, spent>>

Delete ==
  /\ Now("delete")
  /\ secret' = [secret EXCEPT ![op.id] = None]
  /\ Proceed
  /\ UNCHANGED <<live, aging, broker, wgcf, session, renewal, removed, spent>>

\* The probe runs in the pod with what it mounts.
Probe ==
  /\ Now("probe")
  /\ op' = IF broker.has[op.id] = "on" /\ broker.mount[op.id] \in live THEN Rest ELSE Idle
  /\ UNCHANGED <<live, aging, cluster, session, renewal, removed, spent>>

Receipt ==
  /\ Now("receipt")
  /\ op' = Idle
  /\ removed' = IF op.cmd = "revoke" THEN removed \cup {op.id} ELSE removed
  /\ UNCHANGED <<live, aging, cluster, session, renewal, spent>>

\* kubectl, the provider or the disk fails.  A failed removal is given up.
StepFails ==
  /\ op.todo # << >>
  /\ Head(op.todo) \in {"running", "prior", "read", "mint", "patch", "pause", "unpatch", "restart",
                        "rollout", "readiness", "pauseReadiness", "unready", "settle",
                        "delete", "probe", "receipt"}
  /\ Fault
  /\ op' = Failed
  /\ UNCHANGED <<live, aging, cluster, session, renewal, removed>>

\* Another identity's Secret is missing: the pods never come up and the wait ends.
RolloutTimesOut ==
  /\ Now("rollout")
  /\ ~broker.rolled
  /\ \E i \in Ids : broker.want[i] # "off" /\ secret[i] = None
  /\ op' = Failed
  /\ UNCHANGED <<live, aging, cluster, session, renewal, removed, spent>>

Killed ==
  /\ op.cmd # "idle"
  /\ Fault
  /\ op' = Idle
  /\ UNCHANGED <<live, aging, cluster, session, renewal, removed>>

Plan(cmd, i) ==
  CASE cmd = "deliver"    -> DeliverSteps(i)
    [] cmd = "revoke"     -> RevokeSteps(i)
    [] cmd = "suspend"    -> SuspendSteps
    [] cmd = "commission" -> CommissionSteps
    [] cmd = "status"     -> StatusSteps

Command ==
  /\ op.cmd = "idle"
  /\ spent.commands < Commands
  /\ spent' = [spent EXCEPT !.commands = @ + 1]
  /\ \E cmd \in {"deliver", "revoke", "suspend", "commission", "status"}, i \in Ids :
       /\ cmd = "suspend" => i \in Workflows
       /\ cmd = "status" => i \in Intakes
       /\ op' = [Idle EXCEPT !.cmd = cmd, !.id = i, !.todo = Plan(cmd, i)]
  /\ UNCHANGED <<live, aging, cluster, session, renewal, removed>>

(***************************************************************************)
(* The renewal of the group.                                               *)
(***************************************************************************)
Next1(step) == renewal.todo # << >> /\ Head(renewal.todo) = step
Rest1 == [renewal EXCEPT !.todo = Tail(@)]
Proceed1 == renewal' = Rest1

\* New tokens that no Secret took.  They are given back whatever happened.
Unprojected == {i \in renewal.due \ renewal.done : renewal.fresh[i] # NoToken}
Failed1 == IF Unprojected = {} THEN Asleep ELSE [renewal EXCEPT !.todo = <<"release">>]

Observed == [i \in Group |-> secret[i]]
Bound == \A i \in Group : secret[i] # None

Tick ==
  /\ renewal.todo = << >>
  /\ spent.ticks < Ticks
  /\ spent' = [spent EXCEPT !.ticks = @ + 1]
  /\ \E force \in BOOLEAN :
       renewal' = [Asleep EXCEPT !.todo = <<"gather", "decide">>, !.force = force]
  /\ UNCHANGED <<live, aging, cluster, session, op, removed>>

\* Every workflow is enabled in the pods of the broker and in the readiness runtime.
Enabled1 == /\ \A i \in Group : broker.has[i] = "on"
            /\ \A i \in Workflows : wgcf.want[i] = "on"

\* The versions that the replacement compares are read here.
Gather ==
  /\ Next1("gather")
  /\ renewal' = IF Bound /\ Enabled1
                  THEN [Rest1 EXCEPT !.seen = Observed] ELSE Asleep
  /\ UNCHANGED <<live, aging, cluster, session, op, removed, spent>>

Replacement == <<"mint", "project", "consume", "rollout", "status", "retire">>

\* A forced renewal replaces them all, also one that was delivered just now.
Due == {i \in Group : \/ renewal.force
                      \/ renewal.seen[i].token \in aging
                      \/ renewal.seen[i].session # session}

Decide ==
  /\ Next1("decide")
  /\ renewal' = IF Due = {}
                  THEN [renewal EXCEPT !.todo = <<"consume", "rollout", "observe">>]
                  ELSE [renewal EXCEPT !.todo = Replacement, !.due = Due]
  /\ UNCHANGED <<live, aging, cluster, session, op, removed, spent>>

\* A fresh Secret does not prove consumption: the mounted tokens are tried.
Consumed == \A i \in Group : secret[i] # None /\ broker.mount[i] = secret[i].token

Refused == {i \in Group : broker.mount[i] \notin live}

Observe ==
  /\ Next1("observe")
  /\ renewal' = IF ~(Enabled1 /\ Consumed) THEN Asleep
                ELSE IF Refused = {} THEN [renewal EXCEPT !.todo = <<"status">>]
                ELSE [renewal EXCEPT !.todo = Replacement, !.due = Refused]
  /\ UNCHANGED <<live, aging, cluster, session, op, removed, spent>>

\* All tokens are minted and verified before the first Secret changes.
MintAll ==
  /\ Next1("mint")
  /\ IF \A i \in renewal.due : renewal.fresh[i] # NoToken
       THEN Proceed1 /\ UNCHANGED live
       ELSE \E i \in renewal.due :
              /\ renewal.fresh[i] = NoToken
              /\ live' = live \cup {MintedFor(i)}
              /\ renewal' = [renewal EXCEPT !.fresh[i] = MintedFor(i)]
  /\ UNCHANGED <<aging, cluster, session, op, removed, spent>>

\* The Secret is replaced whatever it has become.
Overwritten(i) == TRUE

\* The Secret is replaced only if it is still the one that was read.
Unchanged1(i) == secret[i] = renewal.seen[i]

Replaced(i) ==
  secret' = [secret EXCEPT ![i] = [token |-> renewal.fresh[i], session |-> session]]

Project ==
  /\ Next1("project")
  /\ IF renewal.due = renewal.done
       THEN Proceed1 /\ UNCHANGED secret
       ELSE \E i \in renewal.due \ renewal.done :
              IF Unchanged1(i)
                THEN /\ Replaced(i)
                     /\ renewal' = [renewal EXCEPT !.done = @ \cup {i}]
                ELSE renewal' = Failed1 /\ UNCHANGED secret
  /\ UNCHANGED <<live, aging, broker, wgcf, session, op, removed, spent>>

\* The Secret may have been written all the same; its token is then given back.
ProjectFails ==
  /\ Next1("project")
  /\ Fault
  /\ \E i \in renewal.due \ renewal.done :
       \/ Unchanged1(i) /\ Replaced(i)
       \/ UNCHANGED secret
  /\ renewal' = Failed1
  /\ UNCHANGED <<live, aging, broker, wgcf, session, op, removed>>

\* The bindings are read again for the annotations of the rollout.
Consume ==
  /\ Next1("consume")
  /\ IF Bound
       THEN /\ broker' = [broker EXCEPT !.stamp = [i \in Ids |->
                                IF i \in Group THEN secret[i].token ELSE broker.stamp[i]],
                              !.rolled = @ /\ \A i \in Group : broker.stamp[i] = secret[i].token]
            /\ Proceed1
       ELSE renewal' = Failed1 /\ UNCHANGED broker
  /\ UNCHANGED <<live, aging, secret, wgcf, session, op, removed, spent>>

Await ==
  /\ Next1("rollout")
  /\ broker.rolled
  /\ Proceed1
  /\ UNCHANGED <<live, aging, cluster, session, op, removed, spent>>

\* All of the group is fresh, of this session, mounted and accepted.
Status ==
  /\ Next1("status")
  /\ LET holds == /\ Enabled1 /\ Consumed
                  /\ \A i \in Group : /\ secret[i].session = session
                                      /\ secret[i].token \notin aging
                                      /\ secret[i].token \in live
     IN renewal' = IF ~holds THEN Failed1 ELSE IF Tail(renewal.todo) = << >> THEN Asleep ELSE Rest1
  /\ UNCHANGED <<live, aging, cluster, session, op, removed, spent>>

\* Only what this renewal replaced is revoked.
Retire ==
  /\ Next1("retire")
  /\ live' = live \ {renewal.seen[i].token : i \in renewal.done}
  /\ renewal' = Asleep
  /\ UNCHANGED <<aging, cluster, session, op, removed, spent>>

RetireFails ==
  /\ Next1("retire") \/ Next1("release")
  /\ Fault
  /\ renewal' = Asleep
  /\ UNCHANGED <<live, aging, cluster, session, op, removed>>

Release ==
  /\ Next1("release")
  /\ live' = live \ {renewal.fresh[i] : i \in Unprojected}
  /\ renewal' = Asleep
  /\ UNCHANGED <<aging, cluster, session, op, removed, spent>>

RenewalFails ==
  /\ renewal.todo # << >>
  /\ Head(renewal.todo) \notin {"retire", "release", "project"}
  /\ Fault
  /\ renewal' = Failed1
  /\ UNCHANGED <<live, aging, cluster, session, op, removed>>

\* The pods do not come up within the wait.
AwaitTimesOut ==
  /\ Next1("rollout")
  /\ ~broker.rolled
  /\ \E i \in Ids : broker.want[i] # "off" /\ secret[i] = None
  /\ renewal' = Failed1
  /\ UNCHANGED <<live, aging, cluster, session, op, removed, spent>>

RenewalKilled ==
  /\ renewal.todo # << >>
  /\ Fault
  /\ renewal' = Asleep
  /\ UNCHANGED <<live, aging, cluster, session, op, removed>>

(***************************************************************************)
(* The cluster, GitHub and the session.                                    *)
(***************************************************************************)
\* New pods mount every Secret; without one of them they do not start.
Roll ==
  /\ ~broker.rolled
  /\ \A i \in Ids : broker.want[i] # "off" => secret[i] # None
  /\ broker' = [broker EXCEPT !.has = broker.want, !.rolled = TRUE,
       !.mount = [i \in Ids |-> IF broker.want[i] = "off" THEN NoToken ELSE secret[i].token]]
  /\ UNCHANGED <<live, aging, secret, wgcf, session, op, renewal, removed, spent>>

\* The kubelet refreshes the mounted Secrets.
Sync ==
  /\ LET mount == [i \in Ids |-> IF broker.has[i] # "off" /\ secret[i] # None
                                   THEN secret[i].token ELSE broker.mount[i]]
     IN mount # broker.mount /\ broker' = [broker EXCEPT !.mount = mount]
  /\ UNCHANGED <<live, aging, secret, wgcf, session, op, renewal, removed, spent>>

RollWgcf ==
  /\ ~wgcf.rolled
  /\ wgcf' = [wgcf EXCEPT !.has = wgcf.want, !.rolled = TRUE]
  /\ UNCHANGED <<live, aging, secret, broker, session, op, renewal, removed, spent>>

\* A token outlives every command that uses it.
Quiet == op = Idle /\ renewal = Asleep

Ages ==
  /\ Quiet
  /\ ~(live \subseteq aging)
  /\ aging' = aging \cup live
  /\ UNCHANGED <<live, cluster, session, op, renewal, removed, spent>>

Expires ==
  /\ Quiet
  /\ live \cap aging # {}
  /\ live' = live \ aging
  /\ UNCHANGED <<aging, cluster, session, op, renewal, removed, spent>>

SessionMoves ==
  /\ Quiet
  /\ session < Sessions
  /\ session' = session + 1
  /\ UNCHANGED <<live, aging, cluster, op, renewal, removed, spent>>

Operator ==
  \/ Running \/ Prior \/ Read \/ Mint \/ VerifyRefused \/ Apply \/ ApplyFails
  \/ Revoke \/ RevokeFails \/ Patch \/ Pause \/ Unpatch \/ Restart \/ Rollout
  \/ Readiness \/ PauseReadiness \/ Unready \/ Settle \/ Delete \/ Probe \/ Receipt
  \/ StepFails \/ RolloutTimesOut \/ Killed \/ Command

RenewalSteps ==
  \/ Gather \/ Decide \/ Observe \/ MintAll \/ Project
  \/ Consume \/ Await \/ Status \/ Retire \/ Release \/ AwaitTimesOut

Next ==
  \/ Operator \/ Tick \/ RenewalSteps \/ ProjectFails \/ RetireFails \/ RenewalFails
  \/ RenewalKilled \/ Roll \/ Sync \/ RollWgcf \/ Ages \/ Expires \/ SessionMoves

Spec == Init /\ [][Next]_vars

(***************************************************************************)
(* Properties.                                                             *)
(***************************************************************************)
\* The type invariant; a Secret holds a token of its own identity.
TypeOK ==
  /\ live \subseteq Token /\ aging \subseteq Token
  /\ secret \in [Ids -> [token : Token \cup {NoToken}, session : 0 .. session]]
  /\ \A i \in Ids : secret[i] = None \/ (secret[i].token \in Token /\ secret[i].token.id = i)
  /\ broker.want \in [Ids -> Modes] /\ broker.has \in [Ids -> Modes]
  /\ wgcf.want \in [Workflows -> Modes] /\ wgcf.has \in [Workflows -> Modes]
  /\ session \in 1 .. Sessions
  /\ removed \subseteq Ids
  /\ op.cmd = "idle" <=> op.todo = << >>

\* The broker accepts requests of a workflow only while the readiness runtime
\* serves that workflow, through deliveries, suspensions, removals, their
\* failures and kills at any step (prototype_workflow_identity.py:1121).
ReadinessCovers ==
  \A i \in Workflows : broker.has[i] = "on" => wgcf.has[i] = "on"

\* What was revoked stays away: a renewal that read the Secret before does not
\* bring it back (console_workflow_credentials.py:367).
RevokedStaysAway ==
  \A i \in removed : secret[i] = None /\ broker.want[i] = "off" /\ broker.has[i] = "off"

\* A delivery to the broker is reported only when its pods mount the token that
\* was minted for it and GitHub accepts it (workspace-intake-identity.md,
\* "Success therefore proves"), unless a renewal replaced that token meanwhile:
\* then they mount it or the renewal's, never the one it replaced, and unless a
\* call failed GitHub accepts what they mount.
DeliveredIsMounted ==
  [][Receipt /\ op.cmd = "deliver" /\ op.id \in Group =>
       LET mounted == broker.mount[op.id]
           current == secret[op.id].token
       IN /\ current = op.token => mounted = op.token /\ op.token \in live
          /\ current # op.token => current.from = "tick"
          /\ mounted = op.token \/ mounted.from = "tick"
          /\ mounted # op.prior
          /\ spent.faults = 0 => mounted \in live]_vars

\* Unless a call failed, a Secret never holds a token that was revoked: in no
\* interleaving of a delivery or a revocation with a renewal does one end the
\* token the other projected (console_workflow_credentials.py:389).
NoRevokedToken ==
  Quiet /\ spent.faults = 0 =>
    \A i \in Ids : secret[i] # None /\ secret[i].token \notin aging => secret[i].token \in live

\* What is revoked is in no Secret, and what is in a Secret was not revoked.
RevocationHolds == TypeOK /\ RevokedStaysAway /\ NoRevokedToken
=============================================================================
