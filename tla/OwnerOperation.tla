--------------------------- MODULE OwnerOperation ---------------------------
(***************************************************************************)
(* One command of the Console's Platform operation provider, from its      *)
(* submission to its receipt.                                              *)
(*                                                                         *)
(*   provider  an HTTP server with a thread per request; a request holds   *)
(*             the lock of the command's record from its first read to its *)
(*             last write, and spawns a detached worker under that lock;   *)
(*   worker    a process that marks the record running, lets the owner     *)
(*             command do its work without the lock, and records the end;  *)
(*   repair    the artifact recovery of the complete runtime, which wants  *)
(*             no owner command at work while it replaces images.          *)
(*                                                                         *)
(* A worker is recorded by pid, boot and start time.  It may be killed     *)
(* alone, which leaves its owner command to itself; with its group, by a   *)
(* cancellation; or with the host.  A dead worker keeps its identity until *)
(* the provider, its parent, next starts a process.                        *)
(***************************************************************************)
EXTENDS Integers, FiniteSets

CONSTANTS
  MaxWorkers,  \* bound: the worker processes ever spawned
  Key,         \* the idempotency keys of controls
  MaxCrashes,  \* bound: kills, provider crashes and reboots
  None         \* no record, worker or receipt

ASSUME OperationAssumption ==
  /\ MaxWorkers \in Nat
  /\ MaxCrashes \in Nat

Worker == 1 .. MaxWorkers

VARIABLES
  kind,     \* a credential action runs inside its worker; some actions are
            \* exempt from the recovery block
  record,   \* the record file of the command, or None
  process,  \* the worker processes
  child,    \* the owner command of each worker
  attempt,  \* the attempt a worker read when it started, or 0
  journal,  \* the recovery journal blocks owner work
  repair,   \* the repair: none, holding the exclusive guard, at work
  crashes

vars == <<kind, record, process, child, attempt, journal, repair, crashes>>

-----------------------------------------------------------------------------
TERMINAL_STATES == {"succeeded", "failed", "cancelled"}
Active == {"queued", "running"}

Receipt == [outcome : TERMINAL_STATES, effect : {"verified", "partial", "none"},
            attempt : Nat]

Record ==
  [state : TERMINAL_STATES \cup Active \cup {"blocked"}, attempt : Nat,
   retryable : BOOLEAN, cancel_available : BOOLEAN,
   worker : Worker \cup {None}, receipt : Receipt \cup {None},
   controls : SUBSET Key]

ASSUME NoneAssumption == None \notin Worker /\ None \notin Record

Process == {"unborn", "waiting", "deferring", "executing", "zombie", "gone"}
Child == {"none", "running", "succeeded", "failed", "lost"}

TypeOK ==
  /\ kind \in [credential : BOOLEAN, exempt : BOOLEAN]
  /\ record \in Record \cup {None}
  /\ process \in [Worker -> Process]
  /\ child \in [Worker -> Child]
  /\ attempt \in [Worker -> Nat]
  /\ journal \in {"open", "quiescing", "blocked"}
  /\ repair \in {"none", "guarded", "working"}
  /\ crashes \in Nat

Init ==
  /\ kind \in [credential : BOOLEAN, exempt : BOOLEAN]
  /\ record = None
  /\ process = [w \in Worker |-> "unborn"]
  /\ child = [w \in Worker |-> "none"]
  /\ attempt = [w \in Worker |-> 0]
  /\ journal = "open" /\ repair = "none" /\ crashes = 0

NewRecord ==
  [state |-> "queued", attempt |-> 1, retryable |-> FALSE,
   cancel_available |-> ~kind.credential, worker |-> None,
   receipt |-> None, controls |-> {}]

Alive(w) == process[w] \in {"waiting", "deferring", "executing"}

\* worker_is_current: the process table still has this pid with this start
\* time, which is so for a dead child that its parent did not wait for.
AnyRecorded(w) == w # None
WorkerIsCurrent(w) == w # None /\ (Alive(w) \/ process[w] = "zombie")

\* The block of the recovery journal, for the actions it applies to.
Blocked == journal # "open" /\ ~kind.exempt

\* The worker guard is shared, the guard of the repair exclusive.
GuardIgnored == TRUE
SharedGuard == repair = "none"
ExclusiveGuard == \A w \in Worker : process[w] # "executing"

Fresh(w) == process[w] = "unborn" /\ \A v \in 1 .. w - 1 : process[v] # "unborn"

Reaped(p) == [w \in Worker |-> IF p[w] = "zombie" THEN "gone" ELSE p[w]]

-----------------------------------------------------------------------------
(* The provider.                                                           *)

\* The record is written, the worker spawned, its identity written.  Starting
\* the process may fail, and the provider may die before or after it.
SpawnWorker(rec, w) ==
  \/ /\ record' = [rec EXCEPT !.worker = w]
     /\ process' = [Reaped(process) EXCEPT ![w] = "waiting"]
     /\ UNCHANGED crashes
  \/ /\ record' = rec
     /\ process' = Reaped(process)
     /\ UNCHANGED crashes
  \/ /\ crashes < MaxCrashes
     /\ crashes' = crashes + 1
     /\ record' = rec
     /\ process' = [Reaped(process) EXCEPT ![w] = "waiting"]

\* A replay of a known command only reads; see Read.
Submit(w) ==
  /\ record = None
  /\ ~Blocked
  /\ Fresh(w)
  /\ SpawnWorker(NewRecord, w)
  /\ UNCHANGED <<kind, child, attempt, journal, repair>>

\* reconcile_worker: an active operation without its worker is blocked.
Lost == record.state \in Active /\ ~WorkerIsCurrent(record.worker)

Reconciled ==
  IF Lost
  THEN [record EXCEPT !.state = "blocked", !.worker = None,
                      !.cancel_available = FALSE, !.retryable = TRUE]
  ELSE record

Read ==
  /\ record # None
  /\ record' = Reconciled
  /\ UNCHANGED <<kind, process, child, attempt, journal, repair, crashes>>

\* A control key that was accepted before is answered from the record.
NewKey(k) == k \notin record.controls

Retry(k, w) ==
  /\ record # None
  /\ LET now == Reconciled
     IN /\ NewKey(k)
        /\ now.state \in {"failed", "blocked"} /\ now.retryable
        /\ Fresh(w)
        /\ SpawnWorker([now EXCEPT !.state = "queued", !.attempt = @ + 1,
                          !.retryable = FALSE, !.receipt = None, !.worker = None,
                          !.cancel_available = ~kind.credential,
                          !.controls = @ \cup {k}], w)
  /\ UNCHANGED <<kind, child, attempt, journal, repair>>

\* The whole process group of the recorded worker is terminated.
OnlyLeader(w) == child
GroupKilled(w) == [child EXCEPT ![w] = IF @ = "running" THEN "lost" ELSE @]

Cancel(k) ==
  /\ record # None
  /\ NewKey(k)
  /\ record.state \in Active /\ record.cancel_available
  /\ WorkerIsCurrent(record.worker)
  /\ process' = [process EXCEPT ![record.worker] = "zombie"]
  /\ child' = GroupKilled(record.worker)
  /\ record' = [record EXCEPT !.state = "cancelled", !.cancel_available = FALSE,
                  !.retryable = FALSE, !.controls = @ \cup {k},
                  !.receipt = [outcome |-> "cancelled", effect |-> "partial",
                               attempt |-> record.attempt]]
  /\ UNCHANGED <<kind, attempt, journal, repair, crashes>>

-----------------------------------------------------------------------------
(* The worker.                                                             *)

Exit(w) == process' = [process EXCEPT ![w] = "zombie"]

\* The repair holds the guard, or its journal blocks the action.  The record is
\* locked again to say so, when others may have changed it.
Defer(w) ==
  /\ process[w] = "waiting"
  /\ \/ ~SharedGuard
     \/ record.state = "queued" /\ Blocked
  /\ process' = [process EXCEPT ![w] = "deferring"]
  /\ UNCHANGED <<kind, record, child, attempt, journal, repair, crashes>>

Deferred(w) ==
  /\ process[w] = "deferring"
  /\ record' = IF record.state = "queued"
               THEN [record EXCEPT !.state = "blocked", !.worker = None,
                       !.cancel_available = FALSE, !.retryable = TRUE]
               ELSE record
  /\ Exit(w)
  /\ UNCHANGED <<kind, child, attempt, journal, repair, crashes>>

\* Only a queued operation is started, whichever attempt queued it.
Start(w) ==
  /\ process[w] = "waiting"
  /\ SharedGuard
  /\ record.state = "queued"
  /\ ~Blocked
  /\ record' = [record EXCEPT !.state = "running",
                              !.cancel_available = ~kind.credential]
  /\ process' = [process EXCEPT ![w] = "executing"]
  /\ child' = [child EXCEPT ![w] = "running"]
  /\ attempt' = [attempt EXCEPT ![w] = record.attempt]
  /\ UNCHANGED <<kind, journal, repair, crashes>>

\* A queued credential action is checked against the current authority again.
Reject(w) ==
  /\ process[w] = "waiting"
  /\ SharedGuard
  /\ record.state = "queued"
  /\ ~Blocked
  /\ kind.credential
  /\ record' = [record EXCEPT !.state = "failed", !.cancel_available = FALSE,
                  !.retryable = FALSE,
                  !.receipt = [outcome |-> "failed", effect |-> "none",
                               attempt |-> record.attempt]]
  /\ Exit(w)
  /\ UNCHANGED <<kind, child, attempt, journal, repair, crashes>>

Leave(w) ==
  /\ process[w] = "waiting"
  /\ SharedGuard
  /\ record.state # "queued"
  /\ Exit(w)
  /\ UNCHANGED <<kind, record, child, attempt, journal, repair, crashes>>

\* The owner command ends, with its worker or without.
ChildEnds(w) ==
  /\ child[w] = "running"
  /\ \E end \in {"succeeded", "failed"} : child' = [child EXCEPT ![w] = end]
  /\ UNCHANGED <<kind, record, process, attempt, journal, repair, crashes>>

\* The end is recorded unless the operation is terminal already.  The receipt
\* is that of the attempt the record has now.
AlwaysOpen == TRUE
StillOpen == record.state \notin TERMINAL_STATES

\* The exit status of the command decides; a failed credential action may have
\* had an effect.
Outcome(w) == child[w]

Effect(w) ==
  CASE Outcome(w) = "succeeded" -> "verified"
    [] Outcome(w) = "failed" -> IF kind.credential THEN "partial" ELSE "none"

Finish(w) ==
  /\ process[w] = "executing"
  /\ child[w] \in {"succeeded", "failed"}
  /\ record' =
       IF StillOpen
       THEN [record EXCEPT !.state = Outcome(w), !.cancel_available = FALSE,
               !.worker = None, !.retryable = (Outcome(w) = "failed"),
               !.receipt = [outcome |-> Outcome(w), effect |-> Effect(w),
                            attempt |-> record.attempt]]
       ELSE record
  /\ Exit(w)
  /\ UNCHANGED <<kind, child, attempt, journal, repair, crashes>>

\* The worker alone is killed.  A credential action dies with it.
Kill(w) ==
  /\ Alive(w)
  /\ crashes < MaxCrashes
  /\ crashes' = crashes + 1
  /\ Exit(w)
  /\ child' = IF kind.credential THEN GroupKilled(w) ELSE child
  /\ UNCHANGED <<kind, record, attempt, journal, repair>>

\* The provider starts some process, which collects its dead children.
Reap ==
  /\ process' = Reaped(process)
  /\ UNCHANGED <<kind, record, child, attempt, journal, repair, crashes>>

Reboot ==
  /\ crashes < MaxCrashes
  /\ crashes' = crashes + 1
  /\ process' = [w \in Worker |-> IF process[w] = "unborn" THEN "unborn" ELSE "gone"]
  /\ child' = [w \in Worker |-> IF child[w] = "running" THEN "lost" ELSE child[w]]
  /\ repair' = "none"
  /\ UNCHANGED <<kind, record, attempt, journal>>

-----------------------------------------------------------------------------
(* The artifact repair.                                                    *)

\* assert_idle reads the records under the exclusive guard, without their locks.
Idle == record # None => record.state \notin Active

RepairGuard ==
  /\ repair = "none"
  /\ journal # "blocked"
  /\ ExclusiveGuard
  /\ Idle
  /\ repair' = "guarded"
  /\ UNCHANGED <<kind, record, process, child, attempt, journal, crashes>>

\* A repair that finds owner work leaves a journal that blocks nothing.
RepairDeferred ==
  /\ repair = "none"
  /\ ~(ExclusiveGuard /\ Idle)
  /\ journal' = "open"
  /\ UNCHANGED <<kind, record, process, child, attempt, repair, crashes>>

RepairWork ==
  /\ repair = "guarded"
  /\ journal' = "quiescing"
  /\ repair' = "working"
  /\ UNCHANGED <<kind, record, process, child, attempt, crashes>>

\* Consumers that do not quiesce, a repair done or one that failed: the journal
\* blocks owner work until readiness is confirmed.  A killed repair may be
\* continued from the quiescence.
RepairEnd ==
  /\ repair = "working"
  /\ repair' = "none"
  /\ journal' \in {"quiescing", "blocked"}
  /\ UNCHANGED <<kind, record, process, child, attempt, crashes>>

Confirmed ==
  /\ repair = "none"
  /\ journal' = "open"
  /\ UNCHANGED <<kind, record, process, child, attempt, repair, crashes>>

-----------------------------------------------------------------------------
WorkerStep(w) ==
  Defer(w) \/ Deferred(w) \/ Start(w) \/ Reject(w) \/ Leave(w) \/ Finish(w)

Next ==
  \/ Read \/ Reap \/ Reboot
  \/ \E w \in Worker :
       Submit(w) \/ WorkerStep(w) \/ ChildEnds(w) \/ Kill(w)
  \/ \E k \in Key : Cancel(k) \/ \E w \in Worker : Retry(k, w)
  \/ RepairGuard \/ RepairDeferred \/ RepairWork \/ RepairEnd \/ Confirmed

Spec == Init /\ [][Next]_vars

\* The Console polls its operations, and its catalogue makes the provider start
\* git.  Nothing bounds how long an owner command or a repair takes.
Fairness == WF_vars(Read) /\ WF_vars(Reap)

FairSpec == Spec /\ Fairness

-----------------------------------------------------------------------------
(* What the provider guarantees.                                           *)

Working == {w \in Worker : child[w] = "running"}

\* Owner commands of one operation overlap only after crashes, and every crash
\* accounts for one more at most, over all retries, cancellations, deferrals
\* and the readings between them.
OneOwnerCommand == Cardinality(Working) <= 1 + crashes

\* An operation is succeeded only if an owner command of it succeeded; without
\* a crash it is the command of the very attempt that the receipt names.
SuccessIsReal ==
  record # None /\ record.state = "succeeded" =>
    \E w \in Worker :
      /\ child[w] = "succeeded"
      /\ crashes = 0 => attempt[w] = record.receipt.attempt

\* Success and cancellation are final: no late worker, reading, retry or
\* repair changes the state or the receipt of such an operation.
FinalStates ==
  [][record # None /\ record.state \in {"succeeded", "cancelled"} =>
       /\ record'.state = record.state
       /\ record'.receipt = record.receipt]_vars

\* No more workers are ever spawned than the submission and the accepted control
\* keys allow: replayed commands and controls start nothing.
WorkerPerControl ==
  Cardinality({w \in Worker : process[w] # "unborn"}) <=
    (IF record = None THEN 0 ELSE 1 + Cardinality(record.controls))

\* A cancelled operation leaves an owner command at work only if crashes had
\* separated it from the record before, one at most for each.
CancelStopsWork ==
  record # None /\ record.state = "cancelled" => Cardinality(Working) <= crashes

\* While the repair replaces images no worker runs an owner command, although
\* submissions, retries and worker starts go on.
RepairExcludesWorkers ==
  repair = "working" => \A w \in Worker : process[w] # "executing"

\* Everything that excludes one worker from another, and workers from the repair.
WorkersExclude ==
  TypeOK /\ OneOwnerCommand /\ WorkerPerControl /\ RepairExcludesWorkers

\* What a record says of its work is true of the work.
OutcomeIsReal == SuccessIsReal /\ CancelStopsWork

\* An active operation whose worker is gone is reported, not left active.
WithoutWorker ==
  /\ record # None
  /\ record.state \in Active
  /\ record.worker # None => ~Alive(record.worker)

LostWorkerIsReported == WithoutWorker ~> ~WithoutWorker
=============================================================================
