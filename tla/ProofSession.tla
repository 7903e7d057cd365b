---------------------------- MODULE ProofSession ----------------------------
(***************************************************************************)
(* One controlled commissioning proof, from its claim to its terminal      *)
(* evidence.  PermitLedger shows that one process at a time holds the      *)
(* operator scope; this module is about what that process, and the three   *)
(* commands that may follow it, leave behind.                              *)
(*                                                                         *)
(*   execute               prepares the runtime, runs the scenarios in     *)
(*                         order, restores the baseline, always cleans up, *)
(*                         and writes a result or a stopped draft;         *)
(*   controlled-cleanup    retries the removal for a stopped draft;        *)
(*   controlled-exception  records the governed exception of the draft;    *)
(*   controlled-finalize   turns both into the stopped result.             *)
(*                                                                         *)
(* Every evidence file is created once and never replaced.  run.yaml is    *)
(* not: a command reads it at its start and rewrites it whole at its end,  *)
(* and no lock covers the time between.                                    *)
(***************************************************************************)
EXTENDS Integers, Sequences

CONSTANTS
  Proofs,      \* the number of scenarios before the exact-baseline restore
  Expires,     \* window.expires_at
  Reserve,     \* TERMINAL_CLEANUP_START_RESERVE_SECONDS
  MaxTime,     \* bound: the clock stops here
  MaxCrashes,  \* bound: how many commands are killed
  None         \* an absent file, no failure

ASSUME SessionAssumption ==
  /\ Proofs \in Nat \ {0}
  /\ Expires \in Nat
  /\ Reserve \in Nat
  /\ MaxTime \in Nat
  /\ MaxCrashes \in Nat
  /\ None \notin {"timely", "late", "passed", "failed", "stopped",
                  "preparation-failed", "earlier-scenario-failed"}

VARIABLES
  now,        \* the wall clock
  crashes,    \* how many commands were killed
  lease,      \* the scope lease of the claim: free (no claim yet), held, released
  checkout,   \* the permit-bound executor checkout exists
  runtime,    \* the scoped runtime is installed
  evidence,   \* the terminal evidence files that exist, each of one scenario
  draft,      \* the stopped draft: every outcome in the window, or a late one
  exception,  \* the governed exception exists
  retry,      \* terminal-cleanup-retry.json exists
  result,     \* the outcome of the controlled proof result
  run,        \* what run.yaml says of exception, cleanup and result
  surfaces,   \* restore.yaml and evidence.yaml carry the exception
  exec,       \* the execute command: its step and its memory
  cmd         \* the closing commands: step, and run.yaml as each read it

scopeVars == <<lease, checkout, runtime>>
fileVars == <<evidence, draft, exception, retry, result>>
runVars == <<run, surfaces>>
vars == <<now, crashes, scopeVars, fileVars, runVars, exec, cmd>>

-----------------------------------------------------------------------------
Restore == Proofs + 1

Reason == {"preparation-failed", "earlier-scenario-failed",
           "scenario-executor-failed", "exact-baseline-restore-failed",
           "terminal-cleanup-failed", "exact-baseline-restored"}

Outcome == [status : {"passed", "failed", "not-run"}, late : BOOLEAN]

Run == [exception : BOOLEAN, cleanup : BOOLEAN, result : BOOLEAN]

Execution ==
  [at : {"idle", "preparing", "installing", "proving", "cleaning", "closing"},
   failure : {None, "preparation-failed", "earlier-scenario-failed"},
   outcomes : Seq(Outcome), restored : BOOLEAN, aborted : BOOLEAN]

NoExecution == [at |-> "idle", failure |-> None, outcomes |-> <<>>,
                restored |-> FALSE, aborted |-> FALSE]

Command == {"exception", "cleanup", "finalize"}
CommandStep == {"idle", "loaded", "locked", "restored", "recorded", "saved", "refused"}

TypeOK ==
  /\ now \in Nat /\ crashes \in Nat
  /\ lease \in {"free", "held", "released"}
  /\ checkout \in BOOLEAN /\ runtime \in BOOLEAN
  /\ evidence \subseteq (1 .. Restore) \X Reason
  /\ draft \in {None, "timely", "late"}
  /\ exception \in BOOLEAN /\ retry \in BOOLEAN
  /\ result \in {None, "passed", "failed", "stopped"}
  /\ run \in Run /\ surfaces \in BOOLEAN
  /\ exec \in Execution /\ Len(exec.outcomes) <= Restore
  /\ cmd \in [Command -> [at : CommandStep, run : Run]]

NewRun == [exception |-> FALSE, cleanup |-> FALSE, result |-> FALSE]

\* The permit is consumed and the snapshot has committed run.yaml.
Init ==
  /\ now = 0 /\ crashes = 0
  /\ lease = "free"
  /\ checkout = FALSE /\ runtime = FALSE
  /\ evidence = {}
  /\ draft = None /\ exception = FALSE /\ retry = FALSE /\ result = None
  /\ run = NewRun /\ surfaces = FALSE
  /\ exec = NoExecution
  /\ cmd = [c \in Command |-> [at |-> "idle", run |-> NewRun]]

Late == now >= Expires
LeavesReserve == Expires - now > Reserve

Tick ==
  /\ now < MaxTime
  /\ now' = now + 1
  /\ UNCHANGED <<crashes, scopeVars, fileVars, runVars, exec, cmd>>

\* execute and controlled-cleanup exclude each other.
LockFree == exec.at = "idle" /\ cmd["cleanup"].at # "locked"

-----------------------------------------------------------------------------
(* controlled_proof.py execute                                             *)

Becomes(outcome) == Append(exec.outcomes, outcome)

\* _record_terminal_outcome: the evidence file of a scenario and a reason is
\* created exclusively.  A file that exists is an error that no handler of
\* the run catches: the rest of the run is skipped, except its cleanup.
EvidenceName(k, reason) == <<k, reason>>

RecordOutcome(k, status, reason, next) ==
  \/ /\ EvidenceName(k, reason) \notin evidence
     /\ evidence' = evidence \cup {EvidenceName(k, reason)}
     /\ exec' = [next EXCEPT !.outcomes = Becomes([status |-> status, late |-> Late])]
  \/ /\ EvidenceName(k, reason) \in evidence
     /\ exec' = [exec EXCEPT !.at = "cleaning", !.aborted = TRUE]
     /\ UNCHANGED evidence

\* The permit is valid and the claim new, or its exact lease is still held.
\* Nothing looks for the draft or the result of an earlier execution.
Claims == lease \in {"free", "held"}

Execute ==
  /\ LockFree
  /\ LeavesReserve
  /\ Claims
  /\ lease' = "held"
  /\ exec' = [NoExecution EXCEPT !.at = "preparing"]
  /\ UNCHANGED <<now, crashes, checkout, runtime, fileVars, runVars, cmd>>

PreparationFails ==
  exec' = [exec EXCEPT !.at = "proving", !.failure = "preparation-failed"]

\* The checkout must not exist; tools, sources and window are checked first.
Prepare ==
  /\ exec.at = "preparing"
  /\ \/ /\ LeavesReserve /\ ~checkout
        /\ checkout' = TRUE
        /\ exec' = [exec EXCEPT !.at = "installing"]
     \/ PreparationFails /\ UNCHANGED checkout
  /\ UNCHANGED <<now, crashes, lease, runtime, fileVars, runVars, cmd>>

\* The runtime script and the owner manifests need an empty scope, and may
\* stop after a part of it is installed.
Install ==
  /\ exec.at = "installing"
  /\ \/ /\ LeavesReserve /\ ~runtime
        /\ runtime' = TRUE
        /\ exec' = [exec EXCEPT !.at = "proving"]
     \/ /\ LeavesReserve /\ ~runtime
        /\ runtime' = TRUE
        /\ PreparationFails
     \/ PreparationFails /\ UNCHANGED runtime
  /\ UNCHANGED <<now, crashes, lease, checkout, fileVars, runVars, cmd>>

Scenario == Len(exec.outcomes) + 1

\* A scenario passes inside the window or it fails; either way it is recorded.
RunScenario ==
  /\ exec.at = "proving"
  /\ exec.failure = None
  /\ Scenario < Restore
  /\ \/ /\ LeavesReserve
        /\ exec' = [exec EXCEPT !.outcomes = Becomes([status |-> "passed", late |-> FALSE])]
        /\ UNCHANGED evidence
     \/ RecordOutcome(Scenario, "failed", "scenario-executor-failed",
                      [exec EXCEPT !.failure = "earlier-scenario-failed"])
  /\ UNCHANGED <<now, crashes, scopeVars, draft, exception, retry, result, runVars, cmd>>

\* After the first failure the remaining scenarios are recorded as not run.
SkipScenario ==
  /\ exec.at = "proving"
  /\ exec.failure # None
  /\ Scenario < Restore
  /\ RecordOutcome(Scenario, "not-run", exec.failure, exec)
  /\ UNCHANGED <<now, crashes, scopeVars, draft, exception, retry, result, runVars, cmd>>

\* The runtime script removes the scoped runtime, or stops before it has; it
\* runs only where the checkout and the lease still are.
RemovalRuns == checkout /\ lease = "held"
ScriptMayRemove == runtime' \in {runtime} \cup (IF RemovalRuns THEN {FALSE} ELSE {})

\* The baseline was captured with no runtime in the scope.
BaselineAssumed == TRUE
BaselineVerified == ~runtime'

\* restore_baseline: remove, verify, and create the restore record.  A verified
\* restore whose record exists already is a failed restore.
RestoreBaseline ==
  /\ exec.at = "proving"
  /\ Scenario = Restore
  /\ ScriptMayRemove
  /\ \/ /\ BaselineVerified
        /\ <<Restore, "exact-baseline-restored">> \notin evidence
        /\ evidence' = evidence \cup {<<Restore, "exact-baseline-restored">>}
        /\ exec' = [exec EXCEPT !.at = "cleaning", !.restored = TRUE,
                      !.outcomes = Becomes([status |-> "passed", late |-> Late])]
     \/ RecordOutcome(Restore, "failed", "exact-baseline-restore-failed",
          [exec EXCEPT !.at = "cleaning",
             !.failure = IF @ = None THEN "earlier-scenario-failed" ELSE @])
  /\ UNCHANGED <<now, crashes, lease, checkout, draft, exception, retry, result, runVars, cmd>>

\* LocalK3sRuntimeControl.cleanup: remove unless this process restored, verify,
\* release the lease, drop the source snapshots.
CleanUp(restored) ==
  /\ IF restored THEN UNCHANGED runtime ELSE ScriptMayRemove
  /\ BaselineVerified
  /\ lease = "held"
  /\ lease' = "released"
  /\ checkout' = FALSE

CleanUpFails(restored) ==
  /\ IF restored THEN UNCHANGED runtime ELSE ScriptMayRemove
  /\ UNCHANGED <<lease, checkout>>

\* The finally clause.  An aborted run ends here, whatever the cleanup did; a
\* failed cleanup replaces the outcome of the restore.
Finally ==
  /\ exec.at = "cleaning"
  /\ \/ /\ CleanUp(exec.restored)
        /\ exec' = IF exec.aborted THEN NoExecution ELSE [exec EXCEPT !.at = "closing"]
        /\ UNCHANGED evidence
     \/ /\ CleanUpFails(exec.restored)
        /\ LET name == EvidenceName(Restore, "terminal-cleanup-failed")
           IN IF exec.aborted \/ name \in evidence
              THEN exec' = NoExecution /\ UNCHANGED evidence
              ELSE /\ evidence' = evidence \cup {name}
                   /\ exec' = [exec EXCEPT !.at = "closing",
                        !.failure = IF @ = None THEN "earlier-scenario-failed" ELSE @,
                        !.outcomes[Restore] = [status |-> "failed", late |-> Late]]
  /\ UNCHANGED <<now, crashes, draft, exception, retry, result, runVars, cmd>>

AnyLate == \E k \in 1 .. Len(exec.outcomes) : exec.outcomes[k].late
RestorePassed == exec.outcomes[Restore].status = "passed"

\* build_result and validate_result_semantics: every outcome starts inside the
\* window, and a passing result completes inside it.
FinalOutcome == IF exec.failure = None THEN "passed" ELSE "failed"
WindowIgnored == ~AnyLate
ResultIsValid == ~AnyLate /\ (FinalOutcome = "passed" => ~Late)

\* The run ends with a result or, when the restore failed, with a stopped
\* draft.  Either file, and an invalid result, ends it with an error instead.
CloseRun ==
  /\ exec.at = "closing"
  /\ exec' = NoExecution
  /\ \/ /\ RestorePassed
        /\ result' = IF ResultIsValid /\ result = None THEN FinalOutcome ELSE result
        /\ UNCHANGED draft
     \/ /\ ~RestorePassed
        /\ draft' = IF draft # None THEN draft
                    ELSE IF AnyLate THEN "late" ELSE "timely"
        /\ UNCHANGED result
  /\ UNCHANGED <<now, crashes, scopeVars, evidence, exception, retry, runVars, cmd>>

ExecuteCrash ==
  /\ exec.at # "idle"
  /\ crashes < MaxCrashes
  /\ crashes' = crashes + 1
  /\ exec' = NoExecution
  /\ UNCHANGED <<now, scopeVars, fileVars, runVars, cmd>>

-----------------------------------------------------------------------------
(* platform-drill controlled-exception, -cleanup and -finalize             *)

CommandTo(c, step) == cmd' = [cmd EXCEPT ![c].at = step]
CommandEnds(c, how) == cmd' = [cmd EXCEPT ![c] = [at |-> how, run |-> NewRun]]

\* load_run and load_controlled_proof_artifacts need the claim and the draft;
\* run.yaml says whether the cleanup was retried and the exception recorded.
Required(c) ==
  /\ c = "cleanup" => ~run.cleanup
  /\ c = "finalize" => run.exception

Load(c) ==
  /\ cmd[c].at \in {"idle", "refused"}
  /\ draft # None
  /\ Required(c)
  /\ cmd' = [cmd EXCEPT ![c] = [at |-> "loaded", run |-> run]]
  /\ UNCHANGED <<now, crashes, scopeVars, fileVars, runVars, exec>>

\* write_run rewrites run.yaml from the payload the command loaded.
SaveRun(c, field) == run' = [cmd[c].run EXCEPT ![field] = TRUE]

\* record_governed_exception: an exception with this content may exist.
RecordException ==
  /\ cmd["exception"].at = "loaded"
  /\ exception' = TRUE
  /\ CommandTo("exception", "recorded")
  /\ UNCHANGED <<now, crashes, scopeVars, evidence, draft, retry, result, runVars, exec>>

\* write_run: run.yaml first, restore.yaml and evidence.yaml after it.
SaveException ==
  /\ cmd["exception"].at = "recorded"
  /\ SaveRun("exception", "exception")
  /\ CommandTo("exception", "saved")
  /\ UNCHANGED <<now, crashes, scopeVars, fileVars, surfaces, exec>>

SaveSurfaces ==
  /\ cmd["exception"].at = "saved"
  /\ surfaces' = TRUE
  /\ CommandEnds("exception", "idle")
  /\ UNCHANGED <<now, crashes, scopeVars, fileVars, run, exec>>

\* The execution lock is held for the cleanup only.
LockCleanup ==
  /\ cmd["cleanup"].at = "loaded"
  /\ IF LockFree THEN CommandTo("cleanup", "locked") ELSE CommandEnds("cleanup", "refused")
  /\ UNCHANGED <<now, crashes, scopeVars, fileVars, runVars, exec>>

RetryCleanup ==
  /\ cmd["cleanup"].at = "locked"
  /\ \/ CleanUp(FALSE) /\ CommandTo("cleanup", "restored")
     \/ CleanUpFails(FALSE) /\ CommandEnds("cleanup", "refused")
  /\ UNCHANGED <<now, crashes, fileVars, runVars, exec>>

RecordRetry ==
  /\ cmd["cleanup"].at = "restored"
  /\ \/ ~retry /\ retry' = TRUE /\ CommandTo("cleanup", "recorded")
     \/ retry /\ UNCHANGED retry /\ CommandEnds("cleanup", "refused")
  /\ UNCHANGED <<now, crashes, scopeVars, evidence, draft, exception, result, runVars, exec>>

SaveRetry ==
  /\ cmd["cleanup"].at = "recorded"
  /\ SaveRun("cleanup", "cleanup")
  /\ CommandEnds("cleanup", "idle")
  /\ UNCHANGED <<now, crashes, scopeVars, fileVars, surfaces, exec>>

\* finalize_stopped_result: the same checks of the window as for any result; a
\* result that exists must be this one.
InsideWindow == draft = "timely" /\ result \in {None, "stopped"} /\ ~Late
MayFinalize == draft = "timely" /\ result \in {None, "stopped"}

Finalize ==
  /\ cmd["finalize"].at = "loaded"
  /\ \/ /\ MayFinalize
        /\ result' = "stopped"
        /\ CommandTo("finalize", "recorded")
     \/ /\ ~MayFinalize
        /\ CommandEnds("finalize", "refused")
        /\ UNCHANGED result
  /\ UNCHANGED <<now, crashes, scopeVars, evidence, draft, exception, retry, runVars, exec>>

SaveFinalize ==
  /\ cmd["finalize"].at = "recorded"
  /\ SaveRun("finalize", "result")
  /\ CommandEnds("finalize", "idle")
  /\ UNCHANGED <<now, crashes, scopeVars, fileVars, surfaces, exec>>

CommandCrash(c) ==
  /\ cmd[c].at \notin {"idle", "refused"}
  /\ crashes < MaxCrashes
  /\ crashes' = crashes + 1
  /\ CommandEnds(c, "idle")
  /\ UNCHANGED <<now, scopeVars, fileVars, runVars, exec>>

-----------------------------------------------------------------------------
ExecuteStep ==
  \/ Prepare \/ Install \/ RunScenario \/ SkipScenario
  \/ RestoreBaseline \/ Finally \/ CloseRun

CommandStepOf(c) ==
  \/ c = "exception" /\ (RecordException \/ SaveException \/ SaveSurfaces)
  \/ c = "cleanup" /\ (LockCleanup \/ RetryCleanup \/ RecordRetry \/ SaveRetry)
  \/ c = "finalize" /\ (Finalize \/ SaveFinalize)

Next ==
  \/ Tick
  \/ Execute \/ ExecuteStep \/ ExecuteCrash
  \/ \E c \in Command : Load(c) \/ CommandStepOf(c) \/ CommandCrash(c)

Spec == Init /\ [][Next]_vars

\* A process that runs keeps running; the operator records the exception and
\* finalizes, again if a command was killed.  Nobody has to execute or to retry
\* the cleanup.
Fairness ==
  /\ WF_vars(ExecuteStep)
  /\ \A c \in Command : WF_vars(CommandStepOf(c))
  /\ WF_vars(Load("exception")) /\ WF_vars(Load("finalize"))

FairSpec == Spec /\ Fairness

-----------------------------------------------------------------------------
(* What a session guarantees.                                              *)

\* A scope whose lease was released is empty, and stays out of reach of every
\* later execute or cleanup of this session: the next permit may use it.
ReleasedScopeIsEmpty ==
  lease = "released" => ~runtime /\ exec.at \notin {"preparing", "installing", "proving"}

\* A passed or failed result, and the record of a cleanup retry, are written
\* only about a scope that was verified and released.
ClosureIsVerified ==
  result \in {"passed", "failed"} \/ retry => lease = "released"

\* A result passes only when no scenario failed and the baseline was verified,
\* all of it inside the window.
PassesOnlyWhole ==
  [][result # result' /\ result' = "passed" =>
       /\ Len(exec.outcomes) = Restore
       /\ \A k \in 1 .. Restore : exec.outcomes[k] = [status |-> "passed", late |-> FALSE]
       /\ now < Expires]_vars

\* The result file is written once: neither a second execution nor a
\* finalization replaces what a reader may already have reviewed.
ResultIsImmutable == [][result # None => result' = result]_vars

\* run.yaml never claims more than the evidence files hold, although four
\* commands rewrite it from what they read before.
RunIsBacked ==
  /\ run.exception => exception /\ draft # None
  /\ run.cleanup => retry
  /\ run.result => result = "stopped" /\ run.exception

\* An execution that ended without a crash, inside its window, left a result
\* or a stopped draft before anyone else could use its scope.
EndsWithEvidence ==
  lease = "released" /\ exec.at = "idle" /\ crashes = 0 /\ now < Expires =>
    draft # None \/ result # None

\* A stopped draft with all its outcomes inside the window gets its result,
\* whatever is killed and however the closing commands overlap.
StoppedSessionCloses == draft = "timely" ~> result # None
=============================================================================
