-------------------------- MODULE ArtifactRecovery --------------------------
(***************************************************************************)
(* The repair of corrupt image caches by the complete Console runtime.     *)
(*                                                                         *)
(*   adapter  an activation or a tick of the maintenance timer, one at a   *)
(*            time under the lifecycle lock; it keeps the recovery journal *)
(*            and holds the owner guard while it repairs;                  *)
(*   helper   a root process started by the adapter, which compares the    *)
(*            images with their trusted bytes and replaces them; it keeps  *)
(*            one incident file for each image and outlives its caller;    *)
(*   owner    a worker of the operation provider, which shares the guard   *)
(*            and is refused by a journal that blocks, unless exempt.      *)
(*                                                                         *)
(* The adapter may be killed at any point, the helper may fail or be       *)
(* killed at any point, and the host may restart.                          *)
(***************************************************************************)
EXTENDS Integers, FiniteSets

CONSTANTS
  Image,      \* the admitted images
  MaxFaults,  \* bound: corruptions of a cached image
  MaxKills,   \* bound: kills of the adapter and restarts of the host
  NoReplacement  \* no replacement

ASSUME RecoveryAssumption ==
  /\ IsFiniteSet(Image)
  /\ MaxFaults \in Nat
  /\ MaxKills \in Nat

VARIABLES
  recovery,  \* artifact-recovery.json
  adapter,   \* [run, at, corrupt]: which run, its next step, what its check found
  helper,    \* [action, todo, corrupt, at, ready]: images left, found corrupt,
             \* replaced now, and whether the consumers it listed were ready
  incident,  \* the incident file of each image
  cache,     \* the cached bytes of each image
  consumers, \* the consumers of each image
  owner,     \* the provider's owner work
  removals,  \* history: removals of each image since its incident was closed
  faults, kills

durable == <<recovery, incident, cache>>
bounds == <<faults, kills>>
recoveryVars == <<durable, adapter, helper, consumers, owner, removals, bounds>>

-----------------------------------------------------------------------------
Latched == {"operator-required", "repairing", "restored-awaiting-readiness",
            "resume-requested"}
Blocking == Latched \cup {"quiescing"}
Journal == Blocking \cup {"healthy", "deferred", "unresolved-runtime-fault"}

\* The steps of the adapter; a call waits for the helper.
Step == {"begin", "call check", "check", "checked", "quiesce", "quiesced",
         "call repair", "repair", "repaired", "up", "call confirm", "confirm"}

\* The replacement of an image by the helper.
Replacement == [image : Image, step : {"remove", "pull", "verify"}]

ASSUME NoReplacementAssumption == NoReplacement \notin Replacement

Adapter ==
  [run : {"none", "activate", "maintenance"}, at : Step, corrupt : SUBSET Image]

Helper ==
  [action : {"none", "check", "repair", "confirm"}, todo : SUBSET Image,
   corrupt : SUBSET Image, at : Replacement \cup {NoReplacement}, ready : BOOLEAN]

Incident == {"none", "attempted", "restored-awaiting-readiness", "closed"}
Cache == {"intact", "corrupt", "absent"}
Consumer == {"none", "unready", "ready"}
Owner == {"none", "queued", "ordinary", "exempt"}

RecoveryTypes ==
  /\ recovery \in Journal
  /\ adapter \in Adapter
  /\ helper \in Helper
  /\ incident \in [Image -> Incident]
  /\ cache \in [Image -> Cache]
  /\ consumers \in [Image -> Consumer]
  /\ owner \in Owner
  /\ removals \in [Image -> Nat]
  /\ faults \in Nat /\ kills \in Nat

NoRun == [run |-> "none", at |-> "begin", corrupt |-> {}]
NoHelper ==
  [action |-> "none", todo |-> {}, corrupt |-> {}, at |-> NoReplacement, ready |-> TRUE]

RecoveryInit ==
  /\ recovery = "healthy"
  /\ adapter = NoRun
  /\ helper = NoHelper
  /\ incident = [i \in Image |-> "none"]
  /\ cache = [i \in Image |-> "intact"]
  /\ consumers \in [Image -> Consumer]
  /\ owner = "none"
  /\ removals = [i \in Image |-> 0]
  /\ faults = 0 /\ kills = 0

-----------------------------------------------------------------------------
(* The adapter.                                                            *)

At(run, step) == adapter.run = run /\ adapter.at = step
Goes(step) == adapter' = [adapter EXCEPT !.at = step]
Ends == adapter' = NoRun
EndsWith(state) == recovery' = state /\ Ends

\* assert_idle: no active operation is recorded.
OwnerIdle == owner = "none"

\* The owner guard, exclusive for the adapter and shared for a worker.
GuardHeld ==
  /\ adapter.run # "none"
  /\ adapter.at \in {"quiesce", "quiesced", "call repair", "repair", "repaired"}
GuardIsFree == owner \in {"none", "queued"}

\* A journal that latches an earlier attempt forbids another.
AttemptLatched == recovery \in Latched

Activate ==
  /\ adapter.run = "none"
  /\ adapter' = [NoRun EXCEPT !.run = "activate"]
  /\ UNCHANGED <<durable, helper, consumers, owner, removals, bounds>>

\* The frontend's own incident may require the operator, too.
Startup ==
  /\ At("activate", "begin")
  /\ \/ recovery = "operator-required" /\ EndsWith("operator-required")
     \/ recovery = "deferred" /\ ~OwnerIdle /\ EndsWith("deferred")
     \/ /\ recovery # "operator-required"
        /\ recovery = "deferred" => OwnerIdle
        /\ \/ EndsWith("operator-required")
           \/ Goes("call check") /\ UNCHANGED recovery
  /\ UNCHANGED <<incident, cache, helper, consumers, owner, removals, bounds>>

\* A tick without a signal does nothing, and hashes once for every fault.
Maintenance ==
  /\ adapter.run = "none"
  /\ recovery \notin {"operator-required", "repairing", "resume-requested"}
  /\ \/ recovery = "unresolved-runtime-fault" /\ EndsWith("healthy")
     \/ /\ recovery # "unresolved-runtime-fault"
        /\ OwnerIdle
        /\ adapter' = [NoRun EXCEPT !.run = "maintenance", !.at = "call check"]
        /\ UNCHANGED recovery
  /\ UNCHANGED <<incident, cache, helper, consumers, owner, removals, bounds>>

\* The check found nothing.  A tick then knows no cause of the fault, unless it
\* is the frontend's output, which the next activation builds again.
Intact ==
  /\ adapter.run # "none" /\ adapter.at = "checked" /\ adapter.corrupt = {}
  /\ \/ /\ adapter.run = "activate"
        /\ recovery' = IF recovery = "repairing" THEN "restored-awaiting-readiness"
                      ELSE recovery
        /\ Goes("up")
     \/ /\ adapter.run = "maintenance"
        /\ \/ EndsWith("unresolved-runtime-fault")
           \/ EndsWith("resume-requested")
  /\ UNCHANGED <<incident, cache, helper, consumers, owner, removals, bounds>>

\* recover_images: owner work defers the repair, which an activation records.
Postponed ==
  /\ adapter.run # "none" /\ adapter.at = "checked" /\ adapter.corrupt # {}
  /\ ~(GuardIsFree /\ OwnerIdle)
  /\ EndsWith(IF adapter.run = "activate" THEN "deferred" ELSE recovery)
  /\ UNCHANGED <<incident, cache, helper, consumers, owner, removals, bounds>>

\* An image shared with unmanaged consumers requires the operator as well.
Refused ==
  /\ adapter.run # "none" /\ adapter.at = "checked" /\ adapter.corrupt # {}
  /\ GuardIsFree /\ OwnerIdle
  /\ EndsWith("operator-required")
  /\ UNCHANGED <<incident, cache, helper, consumers, owner, removals, bounds>>

\* A quiescence that was interrupted is continued with the consumers it had
\* planned to stop, those of whatever its own check had found.
Planned == IF recovery = "quiescing" THEN SUBSET Image ELSE {adapter.corrupt}

Quiescing ==
  /\ adapter.run # "none" /\ adapter.at = "checked" /\ adapter.corrupt # {}
  /\ GuardIsFree /\ OwnerIdle
  /\ ~AttemptLatched
  /\ recovery' = "quiescing"
  /\ \E images \in Planned : adapter' = [adapter EXCEPT !.at = "quiesce", !.corrupt = images]
  /\ UNCHANGED <<incident, cache, helper, consumers, owner, removals, bounds>>

Stopped(images) == [i \in Image |-> IF i \in images THEN "none" ELSE consumers[i]]

\* The consumers are scaled to zero one by one and waited for.  A consumer that is
\* replaced or stays requires the operator, a command that fails ends the run.
Quiesce ==
  /\ adapter.run # "none" /\ adapter.at = "quiesce"
  /\ \/ consumers' = Stopped(adapter.corrupt) /\ Goes("quiesced") /\ UNCHANGED recovery
     \/ /\ \E images \in SUBSET adapter.corrupt : consumers' = Stopped(images)
        /\ EndsWith("operator-required") \/ (Ends /\ UNCHANGED recovery)
  /\ UNCHANGED <<incident, cache, helper, owner, removals, bounds>>

Repairing ==
  /\ adapter.run # "none" /\ adapter.at = "quiesced"
  /\ recovery' = "repairing"
  /\ Goes("call repair")
  /\ UNCHANGED <<incident, cache, helper, consumers, owner, removals, bounds>>

Restored ==
  /\ adapter.run # "none" /\ adapter.at = "repaired"
  /\ recovery' = "restored-awaiting-readiness"
  /\ Goes("up")
  /\ UNCHANGED <<incident, cache, helper, consumers, owner, removals, bounds>>

\* A tick leaves the activation to the supervisor, which it restarts.
Resume ==
  /\ At("maintenance", "up")
  /\ EndsWith("resume-requested")
  /\ UNCHANGED <<incident, cache, helper, consumers, owner, removals, bounds>>

\* The composition and the frontend are started with their consumers, which need
\* not all be there or ready when that is done.
Up ==
  /\ At("activate", "up")
  /\ consumers' \in [Image -> Consumer]
  /\ Goes("call confirm") \/ Ends
  /\ UNCHANGED <<durable, helper, owner, removals, bounds>>

-----------------------------------------------------------------------------
(* The helper.  Its own lock admits one at a time; a caller that finds it      *)
(* taken gets an error.                                                        *)

\* What an error of the helper makes of the run that called it.
Fails ==
  /\ Ends
  /\ recovery' = IF adapter.at \in {"confirm", "call confirm"} THEN recovery
                ELSE "operator-required"

\* The removal of an image was interrupted before the image was back.
NothingMissing == {}
Missing == {i \in Image : cache[i] = "absent" /\ incident[i] \notin {"none", "closed"}}

CallOf == [check |-> "call check", repair |-> "call repair", confirm |-> "call confirm"]

\* No consumer that is there is unready: none need be there.
Ready == \A i \in Image : consumers[i] # "unready"

\* The consumers are listed when the helper starts.
Call(action) ==
  /\ adapter.run # "none"
  /\ adapter.at = CallOf[action]
  /\ \/ helper.action # "none" /\ Fails /\ UNCHANGED helper
     \/ helper.action = "none" /\ Missing # {} /\ Fails /\ UNCHANGED helper
     \/ /\ helper.action = "none"
        /\ Missing = {}
        /\ helper' = [NoHelper EXCEPT !.action = action,
                                      !.todo = {i \in Image : cache[i] # "absent"},
                                      !.ready = Ready]
        /\ Goes(action)
        /\ UNCHANGED recovery
  /\ UNCHANGED <<incident, cache, consumers, owner, removals, bounds>>

\* The caller, unless it was killed, waits for the step named by the action.
Waits == adapter.run # "none" /\ adapter.at = helper.action

\* The helper fails by itself, by its timeout or by a kill.
HelperFails ==
  /\ helper.action # "none"
  /\ helper' = NoHelper
  /\ IF Waits THEN Fails ELSE UNCHANGED <<adapter, recovery>>
  /\ UNCHANGED <<incident, cache, consumers, owner, removals, bounds>>

Passed(i) == [helper EXCEPT !.todo = @ \ {i}]
Found(i) == [helper EXCEPT !.todo = @ \ {i}, !.corrupt = @ \cup {i}]
Turn(action, i) == helper.action = action /\ helper.at = NoReplacement /\ i \in helper.todo

\* A check that finds the bytes whole resumes an attempt that was interrupted.
Forgotten(i) == incident
Resumed(i) == IF incident[i] = "attempted"
              THEN [incident EXCEPT ![i] = "restored-awaiting-readiness"] ELSE incident

Check(i) ==
  /\ Turn("check", i)
  /\ IF cache[i] = "corrupt" THEN helper' = Found(i) /\ UNCHANGED incident
                             ELSE helper' = Passed(i) /\ incident' = Resumed(i)
  /\ UNCHANGED <<recovery, cache, adapter, consumers, owner, removals, bounds>>

\* A healthy check of less than half an hour ago stands for the comparison.
Confirm(i) ==
  /\ Turn("confirm", i)
  /\ \/ cache[i] = "corrupt" /\ helper' = Found(i) /\ UNCHANGED <<incident, removals>>
     \/ incident[i] = "none" /\ helper' = Passed(i) /\ UNCHANGED <<incident, removals>>
     \/ /\ incident[i] # "none"
        /\ helper.ready
        /\ helper' = Passed(i)
        /\ incident' = [incident EXCEPT ![i] = "closed"]
        /\ removals' = [removals EXCEPT ![i] = 0]
  /\ UNCHANGED <<recovery, cache, adapter, consumers, owner, bounds>>

\* One attempt for each incident, none while the image has consumers.
AnyIncident(i) == TRUE
MayAttempt(i) == incident[i] \in {"none", "closed"}

Skip(i) ==
  /\ Turn("repair", i)
  /\ cache[i] = "intact"
  /\ helper' = Passed(i)
  /\ UNCHANGED <<durable, adapter, consumers, owner, removals, bounds>>

Replaces(i, step) ==
  helper.action = "repair" /\ helper.at = [image |-> i, step |-> step]

Attempt(i) ==
  /\ Turn("repair", i)
  /\ cache[i] = "corrupt"
  /\ MayAttempt(i)
  /\ consumers[i] = "none"
  /\ helper' = [helper EXCEPT !.at = [image |-> i, step |-> "remove"]]
  /\ incident' = [incident EXCEPT ![i] = "attempted"]
  /\ UNCHANGED <<recovery, cache, adapter, consumers, owner, removals, bounds>>

Remove(i) ==
  /\ Replaces(i, "remove")
  /\ cache' = [cache EXCEPT ![i] = "absent"]
  /\ removals' = [removals EXCEPT ![i] = @ + 1]
  /\ helper' = [helper EXCEPT !.at.step = "pull"]
  /\ UNCHANGED <<recovery, incident, adapter, consumers, owner, bounds>>

Pull(i) ==
  /\ Replaces(i, "pull")
  /\ cache' = [cache EXCEPT ![i] = "intact"]
  /\ helper' = [helper EXCEPT !.at.step = "verify"]
  /\ UNCHANGED <<recovery, incident, adapter, consumers, owner, removals, bounds>>

\* The new bytes are compared.
Verify(i) ==
  /\ Replaces(i, "verify")
  /\ cache[i] = "intact"
  /\ incident' = [incident EXCEPT ![i] = "restored-awaiting-readiness"]
  /\ helper' = [Passed(i) EXCEPT !.at = NoReplacement]
  /\ UNCHANGED <<recovery, cache, adapter, consumers, owner, removals, bounds>>

\* The caller of a repair or a confirmation accepts no corrupt image.
Answers ==
  /\ helper.action # "none" /\ helper.todo = {}
  /\ helper' = NoHelper
  /\ IF ~Waits THEN UNCHANGED <<adapter, recovery>>
     ELSE CASE helper.action = "check" ->
                 /\ adapter' = [adapter EXCEPT !.at = "checked", !.corrupt = helper.corrupt]
                 /\ UNCHANGED recovery
            [] helper.action = "repair" -> Goes("repaired") /\ UNCHANGED recovery
            [] helper.action = "confirm" ->
                 IF helper.corrupt = {} THEN EndsWith("healthy") ELSE Fails
  /\ UNCHANGED <<incident, cache, consumers, owner, removals, bounds>>

-----------------------------------------------------------------------------
(* Owner work, corruption, kills and restarts.                                 *)

JournalBlocks == recovery \in Blocking

\* A submission or a retry, then the worker, if the guard and the journal allow.
Queue ==
  /\ owner = "none"
  /\ owner' = "queued"
  /\ UNCHANGED <<durable, adapter, helper, consumers, removals, bounds>>

StartWork ==
  /\ owner = "queued"
  /\ ~GuardHeld
  /\ \/ owner' = "exempt"
     \/ ~JournalBlocks /\ owner' = "ordinary"
  /\ UNCHANGED <<durable, adapter, helper, consumers, removals, bounds>>

EndWork ==
  /\ owner # "none"
  /\ owner' = "none"
  /\ UNCHANGED <<durable, adapter, helper, consumers, removals, bounds>>

Corrupt(i) ==
  /\ faults < MaxFaults
  /\ faults' = faults + 1
  /\ cache[i] = "intact"
  /\ cache' = [cache EXCEPT ![i] = "corrupt"]
  /\ UNCHANGED <<recovery, incident, adapter, helper, consumers, owner, removals, kills>>

\* The cluster finds a consumer ready, or ready no more.
Probed(i) ==
  /\ consumers[i] # "none"
  /\ \E state \in {"unready", "ready"} : consumers' = [consumers EXCEPT ![i] = state]
  /\ UNCHANGED <<durable, adapter, helper, owner, removals, bounds>>

AdapterKilled ==
  /\ adapter.run # "none"
  /\ kills < MaxKills
  /\ kills' = kills + 1
  /\ Ends
  /\ UNCHANGED <<durable, helper, consumers, owner, removals, faults>>

\* The records of owner work survive, its processes do not; reading them blocks
\* the operations.
Restart ==
  /\ kills < MaxKills
  /\ kills' = kills + 1
  /\ Ends
  /\ helper' = NoHelper
  /\ owner' = IF owner = "none" THEN "none" ELSE "queued"
  /\ UNCHANGED <<durable, consumers, removals, faults>>

-----------------------------------------------------------------------------
AdapterStep ==
  \/ Activate \/ Startup \/ Maintenance \/ Intact \/ Postponed \/ Refused
  \/ Quiescing \/ Quiesce \/ Repairing \/ Restored \/ Resume \/ Up
  \/ \E action \in {"check", "repair", "confirm"} : Call(action)

HelperStep ==
  \/ HelperFails \/ Answers
  \/ \E i \in Image :
       \/ Check(i) \/ Confirm(i) \/ Skip(i)
       \/ Attempt(i) \/ Remove(i) \/ Pull(i) \/ Verify(i)

RecoveryNext ==
  \/ AdapterStep \/ HelperStep
  \/ Queue \/ StartWork \/ EndWork
  \/ AdapterKilled \/ Restart
  \/ \E i \in Image : Corrupt(i) \/ Probed(i)

RecoverySpec == RecoveryInit /\ [][RecoveryNext]_recoveryVars

-----------------------------------------------------------------------------
(* What the recovery guarantees.                                               *)

\* An image is removed at most once until readiness has closed its incident,
\* whatever was killed, deferred or started again in between.
RemovedOnce == \A i \in Image : removals[i] <= 1

\* No consumer runs while the removal of its image is unfinished.
ConsumersHaveImages == \A i \in Image : consumers[i] # "none" => cache[i] # "absent"

\* Ordinary owner work and the replacement of images never overlap, although the
\* helper goes on without the guard when its caller is killed.
OwnerWorkExcluded == owner = "ordinary" => helper.action # "repair"

\* A repair has the images for itself, and has each of them once.
RepairIsExclusive == RecoveryTypes /\ RemovedOnce /\ OwnerWorkExcluded

\* An incident is closed only after the bytes of its image were compared, with no
\* image missing and no consumer that the confirmation had listed unready.
ClosedWhenVerified ==
  [][\A i \in Image :
       incident[i] # "closed" /\ incident'[i] = "closed" =>
         /\ incident[i] = "restored-awaiting-readiness"
         /\ helper.ready
         /\ \A j \in Image : cache[j] # "absent"]_recoveryVars
=============================================================================
