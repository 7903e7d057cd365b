---------------------------- MODULE DrillsProofs ----------------------------
(***************************************************************************)
(* Proofs about module Drills, for any number of scenarios, any window and *)
(* reserve, any units and checks, and any number of crashes, kills and     *)
(* records.                                                                *)
(*                                                                         *)
(* A run directory is of one kind for good, so the invariant has two       *)
(* parts.  That of a controlled proof is about who holds the scope while   *)
(* the executor runs, and about what the first execution has left when it  *)
(* ends; that of a drill recorded by hand compares what the running        *)
(* command will write with what is in the files while it writes.           *)
(***************************************************************************)
EXTENDS Drills, TLAPS

-----------------------------------------------------------------------------
(* A controlled proof: the inductive invariant.                            *)

Running == {"preparing", "installing", "proving", "cleaning"}

\* The executor and the retried cleanup exclude each other, and what the
\* executor works on is its own.
Scope ==
  /\ exec.at # "idle" => cmd["cleanup"].at # "locked"
  /\ exec.at \in Running => lease = "held"
  /\ lease = "released" => ~runtime

\* A result follows every outcome, and a verified scope when it passed.
Closing ==
  /\ exec.at = "cleaning" /\ ~exec.aborted => Len(exec.outcomes) = Restore
  /\ exec.at = "closing" => Len(exec.outcomes) = Restore
  /\ exec.at = "closing" => lease = "released" \/ exec.outcomes[Restore].status # "passed"
  /\ cmd["cleanup"].at = "restored" => lease = "released"
  /\ ClosureIsVerified

\* An execution that noted no failure has seen none.
Unfailed ==
  exec.failure = None =>
    \A k \in 1 .. Len(exec.outcomes) : exec.outcomes[k].status = "passed"

\* Without a crash, inside the window, the first execution meets no evidence
\* but its own, so that nothing aborts it, and it leaves a result or a draft.
NotStarted == exec.at = "idle" /\ evidence = {} /\ lease = "free"

FirstExecution ==
  /\ exec.at # "idle" /\ ~exec.aborted /\ ~AnyLate
  /\ \A e \in evidence : e[1] <= Len(exec.outcomes)
  /\ exec.at # "closing" => \A e \in evidence : e[2] # "terminal-cleanup-failed"

Evident ==
  crashes = 0 /\ ~Late => (draft # None \/ result # None) \/ NotStarted \/ FirstExecution

\* What a command read of run.yaml stays true while it holds it, and what it
\* adds when it saves has been written before.
Backed(r) ==
  /\ r.exception => exception /\ draft # None
  /\ r.cleanup => retry
  /\ r.result => result = "stopped" /\ r.exception

Copies ==
  /\ Backed(run)
  /\ \A c \in Command : Backed(cmd[c].run)
  /\ cmd["exception"].at # "idle" /\ cmd["exception"].at # "refused" => draft # None
  /\ cmd["exception"].at \in {"recorded", "saved"} => exception
  /\ cmd["cleanup"].at = "recorded" => retry
  /\ cmd["finalize"].at \in {"loaded", "recorded"} => cmd["finalize"].run.exception
  /\ cmd["finalize"].at = "recorded" => result = "stopped"

SessionInv == TypeOK /\ Scope /\ Closing /\ Unfailed /\ Evident /\ Copies

-----------------------------------------------------------------------------
(* A controlled proof: the steps of its executor.                          *)

\* An executor that has not started, or has ended, has seen nothing.
LEMMA NothingSeen ==
  /\ NoExecution \in Execution /\ NoExecution.at = "idle" /\ NoExecution.outcomes = << >>
  /\ Len(NoExecution.outcomes) = 0 /\ NoExecution.failure = None
  /\ ~NoExecution.aborted /\ ~NoExecution.restored
<1>1. << >> \in Seq(Outcome) /\ Len(<< >>) = 0
  OBVIOUS
<1> QED BY <1>1 DEF NoExecution, Execution

\* The session starts with nothing claimed, nothing written and nothing read.
LEMMA SessionInit == Init => SessionInv
<1> SUFFICES ASSUME Init PROVE SessionInv
  OBVIOUS
<1> USE SessionAssumption
<1>0. NewRun \in Run /\ cmd \in [Command -> [at : CommandStep, run : Run]]
  BY DEF Init, Run, NewRun, CommandStep
<1>1. TypeOK
  <2>1. exec \in Execution /\ Len(exec.outcomes) <= Restore
    BY NothingSeen DEF Init, Restore
  <2>2. run \in Run /\ now \in Nat /\ crashes \in Nat /\ evidence \subseteq (1 .. Restore) \X Reason
    BY <1>0 DEF Init
  <2> QED BY <1>0, <2>1, <2>2 DEF Init, TypeOK
<1>2. Scope /\ Closing
  BY NothingSeen DEF Init, Scope, Closing, ClosureIsVerified, Running, Command
<1>2b. Unfailed /\ Evident
  BY NothingSeen DEF Init, Unfailed, Evident, NotStarted
<1>3. Copies
  BY DEF Init, Copies, Backed, NewRun, Command
<1> QED BY <1>1, <1>2, <1>2b, <1>3 DEF SessionInv

\* What a step that leaves the closing commands alone, and loses no file, has
\* to keep of what they read.
LEMMA CopiesStay ==
  ASSUME Copies, UNCHANGED <<run, cmd>>,
         exception => exception', draft # None => draft' # None, retry => retry',
         result = "stopped" => result' = "stopped"
  PROVE  Copies'
BY DEF Copies, Backed, Command

\* A new execution takes the scope that is free, or that its lease still covers.
LEMMA ExecuteKeeps == SessionInv /\ Execute => SessionInv'
<1> SUFFICES ASSUME SessionInv, Execute PROVE SessionInv'
  OBVIOUS
<1> USE SessionAssumption DEF SessionInv
<1>1. /\ exec.at = "idle" /\ cmd["cleanup"].at # "locked" /\ lease \in {"free", "held"} /\ lease' = "held"
      /\ UNCHANGED <<now, crashes, checkout, runtime, evidence, draft, exception, retry, result, run, surfaces, cmd>>
  BY DEF Execute, LockFree, Claims, fileVars, runVars
<1>2. /\ exec'.at = "preparing" /\ exec'.outcomes = << >> /\ exec'.failure = None
      /\ ~exec'.aborted /\ exec' \in Execution /\ Len(exec'.outcomes) = 0
  <2>1. exec' = [NoExecution EXCEPT !.at = "preparing"]
    BY DEF Execute
  <2> QED BY <2>1, NothingSeen DEF Execution
<1>3. TypeOK'
  BY <1>1, <1>2 DEF TypeOK, Restore
<1>4. Scope' /\ Closing' /\ Unfailed'
  BY <1>1, <1>2 DEF Scope, Closing, ClosureIsVerified, Unfailed, Running
<1>5. Evident'
  BY <1>1, <1>2 DEF Evident, NotStarted, FirstExecution, AnyLate, Late
<1>6. Copies'
  BY <1>1, CopiesStay
<1> QED BY <1>3, <1>4, <1>5, <1>6

\* The preparation touches the checkout, the runtime and the step of the run.
LEMMA PrepareKeeps == SessionInv /\ (Prepare \/ Install) => SessionInv'
<1> SUFFICES ASSUME SessionInv, Prepare \/ Install PROVE SessionInv'
  OBVIOUS
<1> USE SessionAssumption DEF SessionInv
<1>1. exec \in Execution
  BY DEF TypeOK
<1>2. /\ exec.at \in {"preparing", "installing"} /\ checkout' \in BOOLEAN /\ runtime' \in BOOLEAN
      /\ UNCHANGED <<now, crashes, lease, evidence, draft, exception, retry, result, run, surfaces, cmd>>
  BY DEF Prepare, Install, fileVars, runVars, TypeOK
<1>3. \/ exec' = [exec EXCEPT !.at = "installing"]
      \/ exec' = [exec EXCEPT !.at = "proving"]
      \/ exec' = [exec EXCEPT !.at = "proving", !.failure = "preparation-failed"]
  BY DEF Prepare, Install, PreparationFails
<1>4. /\ exec'.at \in {"installing", "proving"} /\ exec'.outcomes = exec.outcomes
      /\ exec'.failure \in {exec.failure, "preparation-failed"} /\ exec'.aborted = exec.aborted
      /\ exec' \in Execution
  BY <1>1, <1>3 DEF Execution
<1>5. lease = "held"
  BY <1>2 DEF Scope, Running
<1>6. TypeOK'
  BY <1>2, <1>4 DEF TypeOK
<1>7. Scope' /\ Closing' /\ Unfailed'
  BY <1>2, <1>4, <1>5 DEF Scope, Closing, ClosureIsVerified, Unfailed, Running
<1>8. Evident'
  BY <1>2, <1>4 DEF Evident, NotStarted, FirstExecution, AnyLate, Late
<1>9. Copies'
  BY <1>2, CopiesStay
<1> QED BY <1>6, <1>7, <1>8, <1>9

\* One outcome more: the ones before it are what they were.
LEMMA OneMore ==
  ASSUME NEW outcomes \in Seq(Outcome), NEW o \in Outcome
  PROVE  /\ Append(outcomes, o) \in Seq(Outcome)
         /\ Len(outcomes) \in Nat /\ Len(Append(outcomes, o)) = Len(outcomes) + 1
         /\ \A k \in 1 .. Len(outcomes) : Append(outcomes, o)[k] = outcomes[k]
         /\ Append(outcomes, o)[Len(outcomes) + 1] = o
OBVIOUS

\* A step that adds an outcome: with every outcome passed before, and none late
\* inside the window.
LEMMA OutcomeAdded ==
  ASSUME TypeOK, Unfailed, NEW o \in Outcome, exec'.outcomes = Append(exec.outcomes, o),
         exec'.failure = None => exec.failure = None /\ o.status = "passed"
  PROVE  /\ Unfailed' /\ exec'.outcomes \in Seq(Outcome)
         /\ Len(exec'.outcomes) = Len(exec.outcomes) + 1
         /\ exec'.outcomes[Len(exec.outcomes) + 1] = o
         /\ ~AnyLate /\ ~o.late => ~AnyLate'
<1>1. exec.outcomes \in Seq(Outcome) /\ Len(exec.outcomes) \in Nat
  BY DEF TypeOK, Execution
<1>2. /\ exec'.outcomes \in Seq(Outcome)
      /\ Len(exec'.outcomes) = Len(exec.outcomes) + 1
      /\ \A k \in 1 .. Len(exec.outcomes) : exec'.outcomes[k] = exec.outcomes[k]
      /\ exec'.outcomes[Len(exec.outcomes) + 1] = o
  BY <1>1, OneMore
<1>3. \A k \in 1 .. Len(exec'.outcomes) : k \in 1 .. Len(exec.outcomes) \/ k = Len(exec.outcomes) + 1
  BY <1>1, <1>2
<1>4. Unfailed'
  BY <1>2, <1>3 DEF Unfailed
<1>5. ~AnyLate /\ ~o.late => ~AnyLate'
  BY <1>2, <1>3 DEF AnyLate
<1> QED BY <1>2, <1>4, <1>5

\* A scenario that is run or skipped adds its outcome, or meets evidence of an
\* earlier execution and aborts.
LEMMA ScenarioKeeps == SessionInv /\ (RunScenario \/ SkipScenario) => SessionInv'
<1> SUFFICES ASSUME SessionInv, RunScenario \/ SkipScenario PROVE SessionInv'
  OBVIOUS
<1> USE SessionAssumption DEF SessionInv
<1>1. /\ exec \in Execution /\ exec.outcomes \in Seq(Outcome) /\ Len(exec.outcomes) \in Nat
      /\ evidence \subseteq (1 .. Restore) \X Reason
  BY DEF TypeOK, Execution
<1>2. /\ exec.at = "proving" /\ Len(exec.outcomes) + 1 < Restore
      /\ UNCHANGED <<now, crashes, lease, checkout, runtime, draft, exception, retry, result, run, surfaces, cmd>>
  BY DEF RunScenario, SkipScenario, Scenario, scopeVars, runVars
<1>3. lease = "held"
  BY <1>2 DEF Scope, Running
<1>4. Copies'
  BY <1>2, CopiesStay
<1>5. \/ /\ LeavesReserve /\ exec.failure = None
         /\ exec' = [exec EXCEPT !.outcomes = Becomes([status |-> "passed", late |-> FALSE])]
         /\ UNCHANGED evidence
      \/ /\ exec.failure = None
         /\ RecordOutcome(Scenario, "failed", "scenario-executor-failed",
                          [exec EXCEPT !.failure = "earlier-scenario-failed"])
      \/ /\ exec.failure # None
         /\ RecordOutcome(Scenario, "not-run", exec.failure, exec)
  BY DEF RunScenario, SkipScenario
<1>6. CASE exec' = [exec EXCEPT !.at = "cleaning", !.aborted = TRUE] /\ UNCHANGED evidence
             /\ \E e \in evidence : e[1] = Len(exec.outcomes) + 1
  <2>1. /\ exec'.at = "cleaning" /\ exec'.aborted /\ exec'.outcomes = exec.outcomes
        /\ exec'.failure = exec.failure /\ exec' \in Execution
    BY <1>1, <1>6 DEF Execution
  <2>2. TypeOK' /\ Scope' /\ Closing' /\ Unfailed'
    BY <1>1, <1>2, <1>3, <1>6, <2>1
       DEF TypeOK, Scope, Closing, ClosureIsVerified, Unfailed, Running
  <2>3. ~FirstExecution
    BY <1>1, <1>6 DEF FirstExecution
  <2>4. Evident'
    BY <1>2, <2>3 DEF Evident, NotStarted, Late
  <2> QED BY <1>4, <2>2, <2>4
<1>7. ASSUME NEW o \in Outcome, NEW failure \in {exec.failure, "earlier-scenario-failed"},
             NEW reason \in Reason \ {"terminal-cleanup-failed"},
             o.late => Late, failure = None => o.status = "passed",
             exec' = [exec EXCEPT !.outcomes = Append(exec.outcomes, o), !.failure = failure],
             evidence' \subseteq evidence \cup {<<Len(exec.outcomes) + 1, reason>>}
      PROVE  SessionInv'
  <2>1. /\ exec'.at = "proving" /\ exec'.aborted = exec.aborted /\ exec'.failure = failure
        /\ exec'.outcomes = Append(exec.outcomes, o)
    BY <1>1, <1>2, <1>7 DEF Execution
  <2>2. failure = None => exec.failure = None
    BY <1>7
  <2>3. /\ Unfailed' /\ exec'.outcomes \in Seq(Outcome)
        /\ Len(exec'.outcomes) = Len(exec.outcomes) + 1
        /\ ~AnyLate /\ ~o.late => ~AnyLate'
    BY <1>7, <2>1, <2>2, OutcomeAdded
  <2>4. exec' \in Execution
    BY <1>1, <1>2, <1>7, <2>1, <2>3 DEF Execution
  <2>5. evidence' \subseteq (1 .. Restore) \X Reason
    BY <1>1, <1>2, <1>7 DEF Restore
  <2>6. TypeOK' /\ Scope' /\ Closing'
    BY <1>1, <1>2, <1>3, <2>1, <2>3, <2>4, <2>5 DEF TypeOK, Scope, Closing, ClosureIsVerified, Running, Restore
  <2>7. FirstExecution /\ ~Late => FirstExecution'
    BY <1>1, <1>2, <1>7, <2>1, <2>3 DEF FirstExecution
  <2>8. Evident'
    BY <1>2, <2>7 DEF Evident, NotStarted, Late
  <2> QED BY <1>4, <2>3, <2>6, <2>8
<1>8. CASE LeavesReserve /\ exec.failure = None /\ UNCHANGED evidence
             /\ exec' = [exec EXCEPT !.outcomes = Becomes([status |-> "passed", late |-> FALSE])]
  <2>1. exec' = [exec EXCEPT !.outcomes = Append(exec.outcomes, [status |-> "passed", late |-> FALSE]),
                             !.failure = exec.failure]
    BY <1>1, <1>8 DEF Becomes, Execution
  <2>2. [status |-> "passed", late |-> FALSE] \in Outcome
    BY DEF Outcome
  <2>3. evidence' \subseteq evidence \cup {<<Len(exec.outcomes) + 1, "scenario-executor-failed">>}
    BY <1>8
  <2>4. "scenario-executor-failed" \in Reason \ {"terminal-cleanup-failed"}
    BY DEF Reason
  <2> QED BY <1>7, <1>8, <2>1, <2>2, <2>3, <2>4
<1>9. CASE exec.failure = None
             /\ RecordOutcome(Scenario, "failed", "scenario-executor-failed",
                              [exec EXCEPT !.failure = "earlier-scenario-failed"])
  <2>1. CASE <<Scenario, "scenario-executor-failed">> \in evidence
    BY <1>6, <1>9, <2>1 DEF RecordOutcome, EvidenceName, Scenario
  <2>2. CASE <<Scenario, "scenario-executor-failed">> \notin evidence
    <3>1. /\ exec' = [[exec EXCEPT !.failure = "earlier-scenario-failed"]
                       EXCEPT !.outcomes = Becomes([status |-> "failed", late |-> Late])]
          /\ evidence' = evidence \cup {<<Len(exec.outcomes) + 1, "scenario-executor-failed">>}
      BY <1>9, <2>2 DEF RecordOutcome, EvidenceName, Scenario
    <3>2. exec' = [exec EXCEPT !.outcomes = Append(exec.outcomes, [status |-> "failed", late |-> Late]),
                               !.failure = "earlier-scenario-failed"]
      BY <1>1, <3>1 DEF Becomes, Execution
    <3>3. [status |-> "failed", late |-> Late] \in Outcome
      BY DEF Outcome, Late
    <3> QED BY <1>7, <3>1, <3>2, <3>3 DEF Reason
  <2> QED BY <2>1, <2>2
<1>10. CASE exec.failure # None /\ RecordOutcome(Scenario, "not-run", exec.failure, exec)
  <2>1. CASE <<Scenario, exec.failure>> \in evidence
    BY <1>6, <1>10, <2>1 DEF RecordOutcome, EvidenceName, Scenario
  <2>2. CASE <<Scenario, exec.failure>> \notin evidence
    <3>1. /\ exec' = [exec EXCEPT !.outcomes = Becomes([status |-> "not-run", late |-> Late])]
          /\ evidence' = evidence \cup {<<Len(exec.outcomes) + 1, exec.failure>>}
      BY <1>10, <2>2 DEF RecordOutcome, EvidenceName, Scenario
    <3>2. exec' = [exec EXCEPT !.outcomes = Append(exec.outcomes, [status |-> "not-run", late |-> Late]),
                               !.failure = exec.failure]
      BY <1>1, <3>1 DEF Becomes, Execution
    <3>3. [status |-> "not-run", late |-> Late] \in Outcome
      BY DEF Outcome, Late
    <3>4. exec.failure \in Reason \ {"terminal-cleanup-failed"}
      BY <1>1, <1>10 DEF Execution, Reason
    <3> QED BY <1>7, <1>10, <3>1, <3>2, <3>3, <3>4
  <2> QED BY <2>1, <2>2
<1> QED
  BY <1>8, <1>9, <1>10 DEF RunScenario, SkipScenario

\* The restore ends the scenarios: it adds its outcome, or aborts.
LEMMA RestoreKeeps == SessionInv /\ RestoreBaseline => SessionInv'
<1> SUFFICES ASSUME SessionInv, RestoreBaseline PROVE SessionInv'
  OBVIOUS
<1> USE SessionAssumption DEF SessionInv
<1>1. /\ exec \in Execution /\ exec.outcomes \in Seq(Outcome) /\ Len(exec.outcomes) \in Nat
      /\ evidence \subseteq (1 .. Restore) \X Reason
  BY DEF TypeOK, Execution
<1>2. /\ exec.at = "proving" /\ Len(exec.outcomes) + 1 = Restore /\ Restore \in 1 .. Restore
      /\ runtime' \in BOOLEAN
      /\ UNCHANGED <<now, crashes, lease, checkout, draft, exception, retry, result, run, surfaces, cmd>>
  <2>1. Len(exec.outcomes) + 1 = Restore /\ Restore \in 1 .. Restore
    BY <1>1 DEF RestoreBaseline, Scenario, Restore
  <2>2. runtime' \in BOOLEAN
    BY DEF RestoreBaseline, ScriptMayRemove, TypeOK
  <2> QED BY <2>1, <2>2 DEF RestoreBaseline, runVars
<1>3. lease = "held"
  BY <1>2 DEF Scope, Running
<1>4. Copies'
  BY <1>2, CopiesStay
<1>6. CASE exec' = [exec EXCEPT !.at = "cleaning", !.aborted = TRUE] /\ UNCHANGED evidence
             /\ \E e \in evidence : e[1] = Len(exec.outcomes) + 1
  <2>1. /\ exec'.at = "cleaning" /\ exec'.aborted /\ exec'.outcomes = exec.outcomes
        /\ exec'.failure = exec.failure /\ exec' \in Execution
    BY <1>1, <1>6 DEF Execution
  <2>2. TypeOK' /\ Scope' /\ Closing' /\ Unfailed'
    BY <1>1, <1>2, <1>3, <1>6, <2>1
       DEF TypeOK, Scope, Closing, ClosureIsVerified, Unfailed, Running
  <2>3. ~FirstExecution
    BY <1>1, <1>6 DEF FirstExecution
  <2>4. Evident'
    BY <1>2, <2>3 DEF Evident, NotStarted, Late
  <2> QED BY <1>4, <2>2, <2>4
<1>7. ASSUME NEW o \in Outcome, NEW failure \in {exec.failure, "earlier-scenario-failed"},
             NEW restored \in BOOLEAN, NEW reason \in Reason \ {"terminal-cleanup-failed"},
             o.late => Late, failure = None => exec.failure = None /\ o.status = "passed",
             exec' = [exec EXCEPT !.at = "cleaning", !.failure = failure, !.restored = restored,
                        !.outcomes = Append(exec.outcomes, o)],
             evidence' = evidence \cup {<<Restore, reason>>}
      PROVE  SessionInv'
  <2>1. /\ exec'.at = "cleaning" /\ exec'.aborted = exec.aborted /\ exec'.failure = failure
        /\ exec'.outcomes = Append(exec.outcomes, o)
    BY <1>1, <1>7 DEF Execution
  <2>3. /\ Unfailed' /\ exec'.outcomes \in Seq(Outcome)
        /\ Len(exec'.outcomes) = Restore
        /\ ~AnyLate /\ ~o.late => ~AnyLate'
    BY <1>2, <1>7, <2>1, OutcomeAdded
  <2>4. exec' \in Execution
    BY <1>1, <1>7, <2>3 DEF Execution
  <2>5. evidence' \subseteq (1 .. Restore) \X Reason
    BY <1>1, <1>2, <1>7
  <2>6. TypeOK' /\ Scope' /\ Closing'
    BY <1>1, <1>2, <1>3, <2>1, <2>3, <2>4, <2>5 DEF TypeOK, Scope, Closing, ClosureIsVerified, Running, Restore
  <2>7. FirstExecution /\ ~Late => FirstExecution'
    BY <1>1, <1>2, <1>7, <2>1, <2>3 DEF FirstExecution
  <2>8. Evident'
    BY <1>2, <2>7 DEF Evident, NotStarted, Late
  <2> QED BY <1>4, <2>3, <2>6, <2>8
<1>8. CASE /\ evidence' = evidence \cup {<<Restore, "exact-baseline-restored">>}
           /\ exec' = [exec EXCEPT !.at = "cleaning", !.restored = TRUE,
                          !.outcomes = Becomes([status |-> "passed", late |-> Late])]
  <2>1. exec' = [exec EXCEPT !.at = "cleaning", !.failure = exec.failure, !.restored = TRUE,
                   !.outcomes = Append(exec.outcomes, [status |-> "passed", late |-> Late])]
    BY <1>1, <1>8 DEF Becomes, Execution
  <2>2. [status |-> "passed", late |-> Late] \in Outcome
    BY DEF Outcome, Late
  <2>3. "exact-baseline-restored" \in Reason \ {"terminal-cleanup-failed"}
    BY DEF Reason
  <2> QED BY <1>7, <1>8, <2>1, <2>2, <2>3
<1>9. CASE RecordOutcome(Restore, "failed", "exact-baseline-restore-failed",
             [exec EXCEPT !.at = "cleaning",
                !.failure = IF @ = None THEN "earlier-scenario-failed" ELSE @])
  <2>1. CASE <<Restore, "exact-baseline-restore-failed">> \in evidence
    BY <1>2, <1>6, <1>9, <2>1 DEF RecordOutcome, EvidenceName
  <2>2. CASE <<Restore, "exact-baseline-restore-failed">> \notin evidence
    <3> DEFINE failure == IF exec.failure = None THEN "earlier-scenario-failed" ELSE exec.failure
    <3>1. /\ exec' = [[exec EXCEPT !.at = "cleaning", !.failure = failure]
                       EXCEPT !.outcomes = Becomes([status |-> "failed", late |-> Late])]
          /\ evidence' = evidence \cup {<<Restore, "exact-baseline-restore-failed">>}
      BY <1>9, <2>2 DEF RecordOutcome, EvidenceName
    <3>2. exec' = [exec EXCEPT !.at = "cleaning", !.failure = failure, !.restored = exec.restored,
                     !.outcomes = Append(exec.outcomes, [status |-> "failed", late |-> Late])]
      BY <1>1, <3>1 DEF Becomes, Execution
    <3>3. [status |-> "failed", late |-> Late] \in Outcome
      BY DEF Outcome, Late
    <3>4. /\ exec.restored \in BOOLEAN /\ failure \in {exec.failure, "earlier-scenario-failed"}
          /\ failure # None
      BY <1>1 DEF Execution
    <3>5. "exact-baseline-restore-failed" \in Reason \ {"terminal-cleanup-failed"}
      BY DEF Reason
    <3> HIDE DEF failure
    <3> QED BY <1>7, <3>1, <3>2, <3>3, <3>4, <3>5
  <2> QED BY <2>1, <2>2
<1> QED
  BY <1>8, <1>9 DEF RestoreBaseline

\* The finally clause releases the scope, or turns the outcome of the restore
\* into a failed one, or ends an aborted run.
LEMMA FinallyKeeps == SessionInv /\ Finally => SessionInv'
<1> SUFFICES ASSUME SessionInv, Finally PROVE SessionInv'
  OBVIOUS
<1> USE SessionAssumption DEF SessionInv
<1>1. /\ exec \in Execution /\ exec.outcomes \in Seq(Outcome) /\ Len(exec.outcomes) \in Nat
      /\ evidence \subseteq (1 .. Restore) \X Reason /\ Restore \in 1 .. Restore
  BY DEF TypeOK, Execution, Restore
<1>2. /\ exec.at = "cleaning" /\ lease = "held" /\ cmd["cleanup"].at # "locked"
      /\ UNCHANGED <<now, crashes, draft, exception, retry, result, run, surfaces, cmd>>
  BY DEF Finally, Scope, Running, runVars
<1>3. Copies'
  BY <1>2, CopiesStay
<1>4. /\ runtime' \in BOOLEAN /\ checkout' \in BOOLEAN /\ lease' \in {"held", "released"}
      /\ lease' = "released" => ~runtime'
  BY <1>2 DEF Finally, CleanUp, CleanUpFails, ScriptMayRemove, BaselineVerified, TypeOK
<1>5. cmd["cleanup"].at # "restored" /\ result \notin {"passed", "failed"} /\ ~retry
  BY <1>2 DEF Closing, ClosureIsVerified
<1>6. CASE exec' = NoExecution /\ UNCHANGED evidence
             /\ (exec.aborted \/ <<Restore, "terminal-cleanup-failed">> \in evidence)
  <2>1. TypeOK' /\ Scope' /\ Closing' /\ Unfailed'
    BY <1>1, <1>2, <1>4, <1>5, <1>6, NothingSeen
       DEF TypeOK, Scope, Closing, ClosureIsVerified, Unfailed, Running, Restore
  <2>2. ~FirstExecution
    BY <1>2, <1>6 DEF FirstExecution
  <2>3. Evident'
    BY <1>2, <2>2 DEF Evident, NotStarted, Late
  <2> QED BY <1>3, <2>1, <2>3
<1>7. CASE ~exec.aborted /\ exec' = [exec EXCEPT !.at = "closing"] /\ UNCHANGED evidence
             /\ lease' = "released"
  <2>1. /\ exec'.at = "closing" /\ exec'.outcomes = exec.outcomes /\ exec'.aborted = exec.aborted
        /\ exec'.failure = exec.failure /\ exec' \in Execution
    BY <1>1, <1>7 DEF Execution
  <2>2. TypeOK' /\ Scope' /\ Closing' /\ Unfailed'
    BY <1>1, <1>2, <1>4, <1>7, <2>1 DEF TypeOK, Scope, Closing, ClosureIsVerified, Unfailed, Running
  <2>3. Evident'
    BY <1>2, <1>7, <2>1 DEF Evident, NotStarted, FirstExecution, AnyLate, Late
  <2> QED BY <1>3, <2>2, <2>3
<1>8. CASE /\ ~exec.aborted
           /\ evidence' = evidence \cup {<<Restore, "terminal-cleanup-failed">>}
           /\ exec' = [exec EXCEPT !.at = "closing",
                          !.failure = IF @ = None THEN "earlier-scenario-failed" ELSE @,
                          !.outcomes[Restore] = [status |-> "failed", late |-> Late]]
  <2> DEFINE o == [status |-> "failed", late |-> Late]
             failure == IF exec.failure = None THEN "earlier-scenario-failed" ELSE exec.failure
             outcomes == [exec.outcomes EXCEPT ![Restore] = o]
  <2>1. exec' = [exec EXCEPT !.at = "closing", !.failure = failure, !.outcomes = outcomes]
    BY <1>1, <1>8
  <2>2. o \in Outcome /\ o.status = "failed" /\ o.late = Late
    BY DEF Outcome, Late
  <2>3. Len(exec.outcomes) = Restore
    BY <1>2, <1>8 DEF Closing
  <2> HIDE DEF o
  <2>4. /\ outcomes \in Seq(Outcome) /\ Len(outcomes) = Restore /\ outcomes[Restore] = o
        /\ \A k \in 1 .. Restore : k # Restore => outcomes[k] = exec.outcomes[k]
    BY <1>1, <2>2, <2>3
  <2>5. failure \in {exec.failure, "earlier-scenario-failed"} /\ failure # None
    BY <1>1 DEF Execution
  <2> HIDE DEF outcomes, failure
  <2>6. /\ exec'.at = "closing" /\ exec'.outcomes = outcomes /\ exec'.failure = failure
        /\ exec'.aborted = exec.aborted /\ exec' \in Execution
    BY <1>1, <2>1, <2>4, <2>5 DEF Execution
  <2>7. evidence' \subseteq (1 .. Restore) \X Reason
    BY <1>1, <1>8 DEF Reason
  <2>8. TypeOK' /\ Scope' /\ Unfailed'
    BY <1>2, <1>4, <2>4, <2>5, <2>6, <2>7 DEF TypeOK, Scope, Unfailed, Running, Restore
  <2>9. Closing'
    BY <1>2, <1>5, <2>2, <2>4, <2>6 DEF Closing, ClosureIsVerified
  <2>10. FirstExecution /\ ~Late => FirstExecution'
    <3> SUFFICES ASSUME FirstExecution, ~Late PROVE FirstExecution'
      OBVIOUS
    <3>1. ~AnyLate'
      BY <2>2, <2>3, <2>4, <2>6 DEF FirstExecution, AnyLate
    <3>2. \A e \in evidence' : e[1] <= Len(exec'.outcomes)
      BY <1>1, <1>8, <2>3, <2>4, <2>6 DEF FirstExecution
    <3> QED BY <2>6, <3>1, <3>2 DEF FirstExecution
  <2>11. Evident'
    BY <1>2, <2>10 DEF Evident, NotStarted, Late
  <2> QED BY <1>3, <2>8, <2>9, <2>11
<1> QED
  BY <1>6, <1>7, <1>8 DEF Finally, EvidenceName, CleanUp

\* The run closes with the one file it may write, or with an error.
LEMMA CloseKeeps == SessionInv /\ CloseRun => SessionInv'
<1> SUFFICES ASSUME SessionInv, CloseRun PROVE SessionInv'
  OBVIOUS
<1> USE SessionAssumption DEF SessionInv
<1>1. /\ exec.at = "closing" /\ exec' = NoExecution
      /\ UNCHANGED <<now, crashes, lease, checkout, runtime, evidence, exception, retry, run, surfaces, cmd>>
  BY DEF CloseRun, scopeVars, runVars
<1>2. CASE RestorePassed /\ UNCHANGED draft
             /\ result' = (IF ResultIsValid /\ result = None THEN FinalOutcome ELSE result)
  <2>1. /\ lease = "released" /\ result' \in {result, "passed", "failed"}
        /\ result # None => result' = result
    BY <1>1, <1>2 DEF Closing, RestorePassed, FinalOutcome
  <2>2. TypeOK' /\ Scope' /\ Closing' /\ Unfailed'
    BY <1>1, <1>2, <2>1, NothingSeen
       DEF TypeOK, Scope, Closing, ClosureIsVerified, Unfailed, Running, Restore
  <2>3. FirstExecution /\ ~Late => result' # None
    BY <1>2 DEF FirstExecution, ResultIsValid, FinalOutcome
  <2>4. Evident'
    BY <1>1, <1>2, <2>1, <2>3 DEF Evident, NotStarted, Late
  <2>5. Copies'
    BY <1>1, <1>2, <2>1, CopiesStay
  <2> QED BY <2>2, <2>4, <2>5
<1>3. CASE UNCHANGED result
             /\ draft' = (IF draft # None THEN draft ELSE IF AnyLate THEN "late" ELSE "timely")
  <2>1. draft' \in {"timely", "late"}
    BY <1>3 DEF TypeOK
  <2>2. TypeOK' /\ Scope' /\ Closing' /\ Unfailed'
    BY <1>1, <1>3, <2>1, NothingSeen
       DEF TypeOK, Scope, Closing, ClosureIsVerified, Unfailed, Running, Restore
  <2>3. Evident'
    BY <2>1 DEF Evident
  <2>4. Copies'
    BY <1>1, <1>3, <2>1, CopiesStay
  <2> QED BY <2>2, <2>3, <2>4
<1> QED BY <1>2, <1>3 DEF CloseRun

\* A killed executor forgets what it saw, and the clock only passes.
LEMMA CrashAndTickKeep == SessionInv /\ (ExecuteCrash \/ Tick) => SessionInv'
<1> SUFFICES ASSUME SessionInv, ExecuteCrash \/ Tick PROVE SessionInv'
  OBVIOUS
<1> USE SessionAssumption DEF SessionInv
<1>1. /\ UNCHANGED <<lease, checkout, runtime, evidence, draft, exception, retry, result, run, surfaces, cmd>>
      /\ \/ now' = now + 1 /\ UNCHANGED <<crashes, exec>>
         \/ crashes' = crashes + 1 /\ exec' = NoExecution /\ UNCHANGED now
  BY DEF ExecuteCrash, Tick, scopeVars, fileVars, runVars
<1>2. now \in Nat /\ crashes \in Nat
  BY DEF TypeOK
<1>3. TypeOK'
  BY <1>1, <1>2, NothingSeen DEF TypeOK, Restore
<1>4. Scope' /\ Closing' /\ Unfailed'
  BY <1>1, NothingSeen DEF Scope, Closing, ClosureIsVerified, Unfailed, Running
<1>5. Evident'
  BY <1>1, <1>2 DEF Evident, NotStarted, FirstExecution, AnyLate, Late
<1>6. Copies'
  BY <1>1, CopiesStay
<1> QED BY <1>3, <1>4, <1>5, <1>6

\* Every step of the executor, its death and the clock keep the invariant.
LEMMA ExecutorKeeps ==
  SessionInv /\ (Tick \/ Execute \/ ExecuteStep \/ ExecuteCrash) => SessionInv'
BY ExecuteKeeps, PrepareKeeps, ScenarioKeeps, RestoreKeeps, FinallyKeeps, CloseKeeps,
   CrashAndTickKeep DEF ExecuteStep

-----------------------------------------------------------------------------
(* A controlled proof: the closing commands.                               *)

\* What a step of a closing command has to show: it leaves the executor alone.
LEMMA CommandKeeps ==
  ASSUME SessionInv, UNCHANGED <<now, exec, evidence>>,
         cmd' \in [Command -> [at : CommandStep, run : Run]],
         crashes' \in {crashes, crashes + 1}, draft' = draft,
         checkout' \in BOOLEAN, runtime' \in BOOLEAN, lease' \in {lease, "released"},
         exception' \in BOOLEAN, retry' \in BOOLEAN, run' \in Run, surfaces' \in BOOLEAN,
         result' \in {result, "stopped"},
         result' # result => result = None,
         runtime' => runtime,
         lease' # lease => exec.at = "idle" /\ lease = "held" /\ ~runtime',
         cmd'["cleanup"].at = "locked" => exec.at = "idle" \/ cmd["cleanup"].at = "locked",
         cmd'["cleanup"].at = "restored" => lease' = "released",
         retry' => lease' = "released"
  PROVE  TypeOK' /\ Scope' /\ Closing' /\ Unfailed' /\ Evident'
<1> USE SessionAssumption DEF SessionInv
<1>1. TypeOK'
  BY DEF TypeOK
<1>2. Scope'
  BY DEF Scope, Running
<1>3. Closing' /\ Unfailed'
  BY DEF Closing, ClosureIsVerified, Unfailed
<1>4. Evident'
  BY DEF Evident, NotStarted, FirstExecution, AnyLate, Late, TypeOK
<1> QED BY <1>1, <1>2, <1>3, <1>4

\* A command that moves on keeps what it read, and no other is disturbed.
LEMMA CommandMoves ==
  ASSUME TypeOK, NEW c \in Command, NEW step \in CommandStep, CommandTo(c, step)
  PROVE  /\ cmd' \in [Command -> [at : CommandStep, run : Run]]
         /\ cmd'[c].at = step /\ cmd'[c].run = cmd[c].run
         /\ \A d \in Command \ {c} : cmd'[d] = cmd[d]
<1>1. cmd \in [Command -> [at : CommandStep, run : Run]]
  BY DEF TypeOK
<1>2. cmd' = [cmd EXCEPT ![c].at = step]
  BY DEF CommandTo
<1>3. [cmd[c] EXCEPT !.at = step] \in [at : CommandStep, run : Run]
  BY <1>1
<1> QED BY <1>1, <1>2, <1>3

\* A command that ends forgets what it read, and no other is disturbed.
LEMMA CommandStops ==
  ASSUME TypeOK, NEW c \in Command, NEW how \in CommandStep, CommandEnds(c, how)
  PROVE  /\ cmd' \in [Command -> [at : CommandStep, run : Run]]
         /\ cmd'[c].at = how /\ cmd'[c].run = NewRun
         /\ \A d \in Command \ {c} : cmd'[d] = cmd[d]
<1>1. cmd \in [Command -> [at : CommandStep, run : Run]]
  BY DEF TypeOK
<1>2. cmd' = [cmd EXCEPT ![c] = [at |-> how, run |-> NewRun]]
  BY DEF CommandEnds
<1>3. [at |-> how, run |-> NewRun] \in [at : CommandStep, run : Run]
  BY DEF Run, NewRun
<1> QED BY <1>1, <1>2, <1>3

\* A command that starts reads what is true of run.yaml.
LEMMA LoadKeeps == ASSUME NEW c \in Command, SessionInv, Load(c) PROVE SessionInv'
<1> USE SessionAssumption DEF SessionInv
<1>1. /\ draft # None /\ Required(c)
      /\ UNCHANGED <<now, crashes, lease, checkout, runtime, evidence, draft, exception, retry,
                     result, run, surfaces, exec>>
  BY DEF Load, scopeVars, fileVars, runVars
<1>2. /\ cmd' \in [Command -> [at : CommandStep, run : Run]]
      /\ cmd'[c].at = "loaded" /\ cmd'[c].run = run
      /\ \A d \in Command \ {c} : cmd'[d] = cmd[d]
  <2>1. cmd' = [cmd EXCEPT ![c] = [at |-> "loaded", run |-> run]]
    BY DEF Load
  <2>2. [at |-> "loaded", run |-> run] \in [at : CommandStep, run : Run]
    BY DEF TypeOK, CommandStep
  <2> QED BY <2>1, <2>2 DEF TypeOK
<1>3. TypeOK' /\ Scope' /\ Closing' /\ Unfailed' /\ Evident'
  <2>1. cmd'["cleanup"].at \in {cmd["cleanup"].at, "loaded"}
    BY <1>2 DEF Command
  <2> QED BY <1>1, <1>2, <2>1, CommandKeeps DEF TypeOK, Closing, ClosureIsVerified
<1>4. Copies'
  <2>1. \A d \in Command : Backed(cmd'[d].run)
    BY <1>2 DEF Copies
  <2>2. c = "finalize" => run.exception
    BY <1>1 DEF Required
  <2> QED BY <1>1, <1>2, <2>1, <2>2 DEF Copies, Backed, Command
<1> QED BY <1>3, <1>4

\* A killed command leaves what it wrote.
LEMMA CommandCrashKeeps == ASSUME NEW c \in Command, SessionInv, CommandCrash(c) PROVE SessionInv'
<1> USE SessionAssumption DEF SessionInv
<1>1. /\ crashes' = crashes + 1
      /\ UNCHANGED <<now, lease, checkout, runtime, evidence, draft, exception, retry,
                     result, run, surfaces, exec>>
  BY DEF CommandCrash, scopeVars, fileVars, runVars
<1>2. /\ cmd' \in [Command -> [at : CommandStep, run : Run]]
      /\ cmd'[c].at = "idle" /\ cmd'[c].run = NewRun
      /\ \A d \in Command \ {c} : cmd'[d] = cmd[d]
  BY CommandStops DEF CommandCrash, CommandStep
<1>3. TypeOK' /\ Scope' /\ Closing' /\ Unfailed' /\ Evident'
  <2>1. cmd'["cleanup"].at \in {cmd["cleanup"].at, "idle"}
    BY <1>2 DEF Command
  <2> QED BY <1>1, <1>2, <2>1, CommandKeeps DEF TypeOK, Closing, ClosureIsVerified
<1>4. Copies'
  BY <1>1, <1>2 DEF Copies, Backed, Command, NewRun
<1> QED BY <1>3, <1>4

\* The three steps of controlled-exception.
LEMMA ExceptionKeeps ==
  SessionInv /\ (RecordException \/ SaveException \/ SaveSurfaces) => SessionInv'
<1> SUFFICES ASSUME SessionInv, RecordException \/ SaveException \/ SaveSurfaces PROVE SessionInv'
  OBVIOUS
<1> USE SessionAssumption DEF SessionInv
<1>1. /\ cmd["exception"].at \in {"loaded", "recorded", "saved"}
      /\ exception' \in BOOLEAN /\ surfaces' \in BOOLEAN /\ (exception => exception')
      /\ UNCHANGED <<now, crashes, lease, checkout, runtime, evidence, draft, retry, result, exec>>
  <2>1. CASE RecordException
    BY <2>1 DEF RecordException, scopeVars, runVars, TypeOK
  <2>2. CASE SaveException
    BY <2>2 DEF SaveException, scopeVars, fileVars, TypeOK
  <2>3. CASE SaveSurfaces
    BY <2>3 DEF SaveSurfaces, scopeVars, fileVars, TypeOK
  <2> QED BY <2>1, <2>2, <2>3
<1>2. draft # None
  BY <1>1 DEF Copies
<1>3. /\ cmd' \in [Command -> [at : CommandStep, run : Run]]
      /\ cmd'["exception"].run \in {cmd["exception"].run, NewRun}
      /\ cmd'["exception"].at \in {"recorded", "saved"} => exception'
      /\ \A d \in Command \ {"exception"} : cmd'[d] = cmd[d]
  <2>1. CASE CommandTo("exception", "recorded") /\ exception'
    BY <2>1, CommandMoves DEF Command, CommandStep
  <2>2. CASE CommandTo("exception", "saved") /\ exception'
    BY <2>2, CommandMoves DEF Command, CommandStep
  <2>3. CASE CommandEnds("exception", "idle")
    BY <2>3, CommandStops DEF Command, CommandStep
  <2> QED BY <2>1, <2>2, <2>3 DEF RecordException, SaveException, SaveSurfaces, Copies, fileVars
<1>4. /\ run' \in Run
      /\ \/ run' = run
         \/ run' = [cmd["exception"].run EXCEPT !.exception = TRUE] /\ exception /\ exception'
  <2>1. run \in Run /\ cmd["exception"].run \in Run
    BY DEF TypeOK, Command
  <2>2. \/ run' = run
        \/ run' = [cmd["exception"].run EXCEPT !.exception = TRUE] /\ exception /\ exception'
    BY DEF RecordException, SaveException, SaveSurfaces, SaveRun, Copies, runVars, fileVars
  <2> QED BY <2>1, <2>2 DEF Run
<1>5. TypeOK' /\ Scope' /\ Closing' /\ Unfailed' /\ Evident'
  <2>1. cmd'["cleanup"] = cmd["cleanup"]
    BY <1>3 DEF Command
  <2> QED BY <1>1, <1>3, <1>4, <2>1, CommandKeeps DEF TypeOK, Closing, ClosureIsVerified
<1>6. Copies'
  <2>1. Backed(run)'
    <3>1. cmd["exception"].run \in Run /\ Backed(cmd["exception"].run) /\ Backed(run)
      BY DEF Copies, Command, TypeOK
    <3>2. CASE run' = run
      BY <1>1, <3>1, <3>2 DEF Backed
    <3>3. CASE run' = [cmd["exception"].run EXCEPT !.exception = TRUE] /\ exception'
      <4>1. /\ run'.exception /\ (run'.cleanup <=> cmd["exception"].run.cleanup)
            /\ (run'.result <=> cmd["exception"].run.result)
        BY <3>1, <3>3 DEF Run
      <4> QED BY <1>1, <1>2, <3>1, <3>3, <4>1 DEF Backed
    <3> QED BY <1>4, <3>2, <3>3
  <2>2. \A d \in Command : Backed(cmd[d].run)'
    BY <1>1, <1>3 DEF Copies, Backed, Command, NewRun
  <2> QED BY <1>1, <1>2, <1>3, <2>1, <2>2 DEF Copies, Command
<1> QED BY <1>5, <1>6

\* The four steps of controlled-cleanup: the lock, the removal, the record of
\* it, and run.yaml.
LEMMA CleanupKeeps ==
  SessionInv /\ (LockCleanup \/ RetryCleanup \/ RecordRetry \/ SaveRetry) => SessionInv'
<1> SUFFICES ASSUME SessionInv, LockCleanup \/ RetryCleanup \/ RecordRetry \/ SaveRetry
             PROVE  SessionInv'
  OBVIOUS
<1> USE SessionAssumption DEF SessionInv
<1>1. /\ cmd["cleanup"].at \in {"loaded", "locked", "restored", "recorded"}
      /\ UNCHANGED <<now, crashes, evidence, draft, exception, result, surfaces, exec>>
  BY DEF LockCleanup, RetryCleanup, RecordRetry, SaveRetry, scopeVars, fileVars, runVars
<1>2. /\ \/ \E step \in CommandStep : CommandTo("cleanup", step)
         \/ \E how \in {"idle", "refused"} : CommandEnds("cleanup", how)
      /\ cmd' \in [Command -> [at : CommandStep, run : Run]]
      /\ cmd'["cleanup"].run \in {cmd["cleanup"].run, NewRun}
      /\ \A d \in Command \ {"cleanup"} : cmd'[d] = cmd[d]
  <2>1. \/ \E step \in CommandStep : CommandTo("cleanup", step)
        \/ \E how \in {"idle", "refused"} : CommandEnds("cleanup", how)
    BY DEF LockCleanup, RetryCleanup, RecordRetry, SaveRetry, CommandStep
  <2>2. {"idle", "refused"} \subseteq CommandStep /\ "cleanup" \in Command
    BY DEF Command, CommandStep
  <2> QED BY <2>1, <2>2, CommandMoves, CommandStops
<1>3. CASE LockCleanup
  <2>1. /\ UNCHANGED <<lease, checkout, runtime, retry, run>>
        /\ cmd'["cleanup"].at \in {"locked", "refused"}
        /\ cmd'["cleanup"].at = "locked" => exec.at = "idle"
    BY <1>3, CommandMoves, CommandStops
       DEF LockCleanup, LockFree, Command, CommandStep, scopeVars, fileVars, runVars
  <2>2. TypeOK' /\ Scope' /\ Closing' /\ Unfailed' /\ Evident'
    BY <1>1, <1>2, <2>1, CommandKeeps DEF TypeOK, Closing, ClosureIsVerified
  <2>3. Copies'
    BY <1>1, <1>2, <2>1 DEF Copies, Backed, Command, NewRun
  <2> QED BY <2>2, <2>3
<1>4. CASE RetryCleanup
  <2>1. /\ UNCHANGED <<retry, run>> /\ exec.at = "idle"
        /\ runtime' \in BOOLEAN /\ checkout' \in BOOLEAN /\ (runtime' => runtime)
        /\ lease' \in {lease, "released"}
        /\ lease' # lease => lease = "held" /\ ~runtime'
    BY <1>4 DEF RetryCleanup, CleanUp, CleanUpFails, ScriptMayRemove, BaselineVerified, TypeOK,
                Scope, fileVars, runVars
  <2>2. /\ cmd'["cleanup"].at \in {"restored", "refused"}
        /\ cmd'["cleanup"].at = "restored" => lease' = "released"
    BY <1>4, CommandMoves, CommandStops DEF RetryCleanup, CleanUp, Command, CommandStep
  <2>3. TypeOK' /\ Scope' /\ Closing' /\ Unfailed' /\ Evident'
    BY <1>1, <1>2, <2>1, <2>2, CommandKeeps DEF TypeOK, Closing, ClosureIsVerified
  <2>4. Copies'
    BY <1>1, <1>2, <2>1, <2>2 DEF Copies, Backed, Command, NewRun
  <2> QED BY <2>3, <2>4
<1>5. CASE RecordRetry
  <2>1. /\ UNCHANGED <<lease, checkout, runtime, run>> /\ retry' /\ lease = "released"
        /\ retry' \in BOOLEAN
    BY <1>5 DEF RecordRetry, scopeVars, runVars, Closing, TypeOK
  <2>2. cmd'["cleanup"].at \in {"recorded", "refused"}
    BY <1>5, CommandMoves, CommandStops DEF RecordRetry, Command, CommandStep
  <2>3. TypeOK' /\ Scope' /\ Closing' /\ Unfailed' /\ Evident'
    BY <1>1, <1>2, <2>1, <2>2, CommandKeeps DEF TypeOK
  <2>4. Copies'
    BY <1>1, <1>2, <2>1, <2>2 DEF Copies, Backed, Command, NewRun
  <2> QED BY <2>3, <2>4
<1>6. CASE SaveRetry
  <2>1. /\ UNCHANGED <<lease, checkout, runtime, retry>> /\ retry
        /\ run' = [cmd["cleanup"].run EXCEPT !.cleanup = TRUE]
    BY <1>6 DEF SaveRetry, SaveRun, scopeVars, fileVars, Copies
  <2>2. cmd'["cleanup"].at = "idle"
    BY <1>6, CommandStops DEF SaveRetry, Command, CommandStep
  <2>3. cmd["cleanup"].run \in Run /\ Backed(cmd["cleanup"].run)
    BY DEF Copies, Command, TypeOK
  <2>4. /\ run' \in Run /\ (run'.exception <=> cmd["cleanup"].run.exception)
        /\ (run'.result <=> cmd["cleanup"].run.result)
    BY <2>1, <2>3 DEF Run
  <2>5. TypeOK' /\ Scope' /\ Closing' /\ Unfailed' /\ Evident'
    BY <1>1, <1>2, <2>1, <2>2, <2>4, CommandKeeps DEF TypeOK, Closing, ClosureIsVerified
  <2>6. Backed(run)'
    BY <1>1, <2>1, <2>3, <2>4 DEF Backed
  <2>7. Copies'
    BY <1>1, <1>2, <2>1, <2>2, <2>6 DEF Copies, Backed, Command, NewRun
  <2> QED BY <2>5, <2>7
<1> QED BY <1>3, <1>4, <1>5, <1>6

\* The two steps of controlled-finalize.
LEMMA FinalizeKeeps == SessionInv /\ (Finalize \/ SaveFinalize) => SessionInv'
<1> SUFFICES ASSUME SessionInv, Finalize \/ SaveFinalize PROVE SessionInv'
  OBVIOUS
<1> USE SessionAssumption DEF SessionInv
<1>1. /\ cmd["finalize"].at \in {"loaded", "recorded"}
      /\ UNCHANGED <<now, crashes, lease, checkout, runtime, evidence, draft, exception, retry,
                     surfaces, exec>>
  BY DEF Finalize, SaveFinalize, scopeVars, fileVars, runVars
<1>2. CASE Finalize
  <2>1. /\ run' = run
        /\ result' \in {result, "stopped"} /\ (result' # result => result = None)
        /\ result = "stopped" => result' = "stopped"
    BY <1>2 DEF Finalize, MayFinalize, runVars
  <2>2. /\ cmd' \in [Command -> [at : CommandStep, run : Run]]
        /\ cmd'["finalize"].at \in {"recorded", "refused"}
        /\ cmd'["finalize"].at = "recorded" =>
             result' = "stopped" /\ cmd'["finalize"].run = cmd["finalize"].run
        /\ cmd'["finalize"].run \in {cmd["finalize"].run, NewRun}
        /\ \A d \in Command \ {"finalize"} : cmd'[d] = cmd[d]
    BY <1>2, CommandMoves, CommandStops DEF Finalize, Command, CommandStep
  <2>3. TypeOK' /\ Scope' /\ Closing' /\ Unfailed' /\ Evident'
    <3>1. cmd'["cleanup"] = cmd["cleanup"]
      BY <2>2 DEF Command
    <3> QED BY <1>1, <2>1, <2>2, <3>1, CommandKeeps DEF TypeOK, Closing, ClosureIsVerified
  <2>4. Copies'
    BY <1>1, <2>1, <2>2 DEF Copies, Backed, Command, NewRun
  <2> QED BY <2>3, <2>4
<1>3. CASE SaveFinalize
  <2>1. /\ run' = [cmd["finalize"].run EXCEPT !.result = TRUE] /\ UNCHANGED result
        /\ result = "stopped" /\ cmd["finalize"].run.exception
    BY <1>3 DEF SaveFinalize, SaveRun, fileVars, Copies
  <2>2. /\ cmd' \in [Command -> [at : CommandStep, run : Run]]
        /\ cmd'["finalize"].at = "idle" /\ cmd'["finalize"].run = NewRun
        /\ \A d \in Command \ {"finalize"} : cmd'[d] = cmd[d]
    BY <1>3, CommandStops DEF SaveFinalize, Command, CommandStep
  <2>3. cmd["finalize"].run \in Run /\ Backed(cmd["finalize"].run)
    BY DEF Copies, Command, TypeOK
  <2>4. /\ run' \in Run /\ run'.exception
        /\ (run'.cleanup <=> cmd["finalize"].run.cleanup)
    BY <2>1, <2>3 DEF Run
  <2>5. TypeOK' /\ Scope' /\ Closing' /\ Unfailed' /\ Evident'
    <3>1. cmd'["cleanup"] = cmd["cleanup"]
      BY <2>2 DEF Command
    <3> QED BY <1>1, <2>1, <2>2, <2>4, <3>1, CommandKeeps DEF TypeOK, Closing, ClosureIsVerified
  <2>6. Backed(run)'
    BY <1>1, <2>1, <2>3, <2>4 DEF Backed
  <2>7. Copies'
    BY <1>1, <2>1, <2>2, <2>6 DEF Copies, Backed, Command, NewRun
  <2> QED BY <2>5, <2>7
<1> QED BY <1>2, <1>3

\* Every step of a controlled proof keeps its invariant.
LEMMA SessionStep == SessionInv /\ [Next]_vars => SessionInv'
<1> SUFFICES ASSUME SessionInv, [Next]_vars PROVE SessionInv'
  OBVIOUS
<1>1. CASE Next
  <2>1. CASE Tick \/ Execute \/ ExecuteStep \/ ExecuteCrash
    BY <2>1, ExecutorKeeps
  <2>2. CASE \E c \in Command : Load(c) \/ CommandStepOf(c) \/ CommandCrash(c)
    BY <2>2, LoadKeeps, CommandCrashKeeps, ExceptionKeeps, CleanupKeeps, FinalizeKeeps
       DEF CommandStepOf
  <2> QED BY <1>1, <2>1, <2>2 DEF Next
<1>2. CASE UNCHANGED vars
  BY <1>2 DEF vars, scopeVars, fileVars, runVars, SessionInv, TypeOK, Scope, Closing,
              ClosureIsVerified, Unfailed, Evident, NotStarted, FirstExecution, AnyLate, Late,
              Copies, Backed
<1> QED BY <1>1, <1>2

\* The invariant of a controlled proof gives what it promises.
LEMMA SessionShown == SessionInv => SessionIsAccounted /\ RunIsBacked
<1> SUFFICES ASSUME SessionInv PROVE SessionIsAccounted /\ RunIsBacked
  OBVIOUS
<1> USE SessionAssumption DEF SessionInv
<1>1. ReleasedScopeIsEmpty
  BY DEF Scope, Running, ReleasedScopeIsEmpty
<1>2. EndsWithEvidence
  BY DEF Evident, Late, NotStarted, FirstExecution, EndsWithEvidence, TypeOK
<1>3. RunIsBacked
  BY DEF Copies, Backed, RunIsBacked
<1> QED BY <1>1, <1>2, <1>3 DEF SessionIsAccounted, Closing

\* Only the end of a run writes a passing result, from what it kept of every
\* scenario.
LEMMA PassingStep ==
  ASSUME SessionInv, Next, result # result', result' = "passed"
  PROVE  /\ Len(exec.outcomes) = Restore
         /\ \A k \in 1 .. Restore : exec.outcomes[k] = [status |-> "passed", late |-> FALSE]
         /\ now < Expires
<1> USE SessionAssumption DEF SessionInv
<1>1. CloseRun
  BY DEF Next, Tick, Execute, ExecuteStep, Prepare, Install, RunScenario, SkipScenario,
         RestoreBaseline, Finally, ExecuteCrash, Load, CommandStepOf, RecordException,
         SaveException, SaveSurfaces, LockCleanup, RetryCleanup, RecordRetry, SaveRetry, Finalize,
         SaveFinalize, CommandCrash, fileVars
<1>2. ResultIsValid /\ exec.failure = None /\ Len(exec.outcomes) = Restore
  BY <1>1 DEF CloseRun, FinalOutcome, Closing
<1>3. exec.outcomes \in Seq(Outcome) /\ now \in Nat
  BY DEF TypeOK, Execution
<1>4. now < Expires
  BY <1>2, <1>3 DEF ResultIsValid, FinalOutcome, Late
<1>5. ASSUME NEW k \in 1 .. Restore
      PROVE  exec.outcomes[k] = [status |-> "passed", late |-> FALSE]
  <2>1. exec.outcomes[k] \in Outcome
    BY <1>2, <1>3, <1>5
  <2>2. exec.outcomes[k].status = "passed" /\ ~exec.outcomes[k].late
    BY <1>2, <1>5 DEF Unfailed, ResultIsValid, AnyLate
  <2> QED BY <2>1, <2>2 DEF Outcome
<1> QED BY <1>2, <1>4, <1>5

\* No step replaces a result.
LEMMA ImmutableStep == ASSUME SessionInv, Next, result # None PROVE result' = result
<1>1. CASE UNCHANGED result
  BY <1>1
<1>2. CASE CloseRun
  BY <1>2 DEF CloseRun
<1>3. CASE Finalize
  BY <1>3 DEF Finalize, MayFinalize
<1> QED
  BY <1>1, <1>2, <1>3
     DEF Next, Tick, Execute, ExecuteStep, Prepare, Install, RunScenario, SkipScenario,
         RestoreBaseline, Finally, ExecuteCrash, Load, CommandStepOf, RecordException,
         SaveException, SaveSurfaces, LockCleanup, RetryCleanup, RecordRetry, SaveRetry,
         SaveFinalize, CommandCrash, fileVars

-----------------------------------------------------------------------------
(* A drill recorded by hand: the inductive invariant.  d stands for the    *)
(* contents of the files, of the disk or those the running command wrote   *)
(* in memory; O is a set of items that are left behind.                    *)

Snapshot == <<"snapshot", "all">>
Activation == <<"activation", "all">>
Record == <<"record", "all">>

\* The item of the running command.
Busy == IF AtRest THEN {} ELSE {work.item}

\* What evidence.yaml says agrees with the ledgers, item by item.
SurfacesAgree(d, O) ==
  \A s \in contract.scope : <<"surface", s>> \notin O =>
    (s \in d.baseline <=> s \in d.evidence.attested)

ChecksAgree(d, O) ==
  \A k \in Checks : <<"check", k>> \notin O =>
    /\ d.verification[k] = d.evidence.check[k]
    /\ d.verification[k] = "exception" <=> <<"check", k>> \in d.evidence.exceptions

TargetsAgree(d, O) ==
  \A t \in contract.targets : <<"target", t>> \notin O =>
    /\ d.restore[t] = d.evidence.target[t]
    /\ d.restore[t] = "exception" <=> <<"target", t>> \in d.evidence.exceptions

RecordsAgree(d, O) ==
  /\ d.evidence.records <= d.run.records
  /\ Record \notin O => d.run.records = d.evidence.records

ActivationAgrees(d, O) ==
  Activation \notin O => (d.run.phase["activation"] = "recorded" <=> d.evidence.active)

\* A restore that is recorded has left no target pending.
RestoreIsWhole(d, O) ==
  d.run.phase["restore"] = "recorded" =>
    \A t \in contract.targets : <<"target", t>> \notin O => d.restore[t] # "pending"

Agree(d, O) ==
  /\ SurfacesAgree(d, O) /\ ChecksAgree(d, O) /\ TargetsAgree(d, O)
  /\ RecordsAgree(d, O) /\ ActivationAgrees(d, O) /\ RestoreIsWhole(d, O)

\* An activation was recorded on a baseline that is whole.
OnBaseline(d) ==
  d.run.phase["activation"] = "recorded" =>
    /\ file["baseline"] = "whole" => d.baseline = contract.scope
    /\ file["evidence"] = "whole" => d.evidence.attested = contract.scope

\* d and n differ in nothing but item i, and in the phases its command sets.
SameBut(i, d, n) ==
  /\ \A s \in contract.scope : i # <<"surface", s>> =>
       (s \in d.baseline <=> s \in n.baseline)
         /\ (s \in d.evidence.attested <=> s \in n.evidence.attested)
  /\ \A k \in Checks : i # <<"check", k>> =>
       /\ d.verification[k] = n.verification[k] /\ d.evidence.check[k] = n.evidence.check[k]
       /\ <<"check", k>> \in d.evidence.exceptions <=> <<"check", k>> \in n.evidence.exceptions
  /\ \A t \in contract.targets : i # <<"target", t>> =>
       /\ d.restore[t] = n.restore[t] /\ d.evidence.target[t] = n.evidence.target[t]
       /\ <<"target", t>> \in d.evidence.exceptions <=> <<"target", t>> \in n.evidence.exceptions
  /\ i # Activation => d.run.phase["activation"] = n.run.phase["activation"]
                         /\ d.evidence.active = n.evidence.active
  /\ i # Record => d.run.records = n.run.records /\ d.evidence.records = n.evidence.records
  /\ i[1] # "target" => d.run.phase["restore"] = n.run.phase["restore"]
  /\ i[1] = "surface" => n.run.phase["activation"] = "pending"
  /\ d.evidence.records <= n.evidence.records

ToWrite(f) == \E i \in 1 .. Len(work.todo) : work.todo[i] = f

\* What the command has written it need not write again, and run.yaml, which a
\* command other than a snapshot writes first, is never left for later.
Writing ==
  /\ disk.run = work.new.run \/ ToWrite("run")
  /\ disk.baseline = work.new.baseline \/ ToWrite("baseline")
  /\ disk.verification = work.new.verification \/ ToWrite("verification")
  /\ disk.restore = work.new.restore \/ ToWrite("restore")
  /\ disk.evidence = work.new.evidence \/ ToWrite("evidence")
  /\ work.item # Snapshot => \A i \in 2 .. Len(work.todo) : work.todo[i] # "run"

\* The running command, of a new run directory or of one that is complete.
InWork ==
  ~AtRest =>
    /\ Writing
    /\ work.item = Snapshot => disk = NewContents(contract) /\ work.new = NewContents(contract)
    /\ work.item # Snapshot => Written /\ SameBut(work.item, disk, work.new)

Agreement ==
  /\ Whole(File) => Agree(disk, open \cup Busy)
  /\ ~AtRest /\ (Whole(File) \/ work.item = Snapshot) => Agree(work.new, open \ Repaired)

Activated ==
  /\ file["run"] = "whole" => OnBaseline(disk)
  /\ ~AtRest /\ (file["run"] = "whole" \/ work.item = Snapshot) => OnBaseline(work.new)

DrillInv == DrillTypeOK /\ InWork /\ Agreement /\ Activated

-----------------------------------------------------------------------------
(* A drill recorded by hand: its commands.                                 *)

\* A new run directory has everything pending, and nothing to disagree about.
LEMMA NewIsWhole ==
  ASSUME contract \in Contracts
  PROVE  /\ NewContents(contract) \in Contents(contract)
         /\ \A O : Agree(NewContents(contract), O)
         /\ NewContents(contract).run.phase["activation"] = "pending"
<1> USE DrillAssumption
<1> DEFINE n == NewContents(contract)
<1>1. /\ n.run = [phase |-> [p \in Phase |-> "pending"], records |-> 0] /\ n.baseline = {}
      /\ n.verification = [k \in Checks |-> "pending"]
      /\ n.restore = [t \in contract.targets |-> "pending"]
      /\ n.evidence = NewEvidence(contract)
  BY DEF NewContents
<1>2. /\ n.run.phase["activation"] = "pending" /\ n.run.phase["restore"] = "pending"
      /\ n.run.records = 0
  BY <1>1 DEF Phase
<1>3. /\ n.evidence.attested = {} /\ n.evidence.exceptions = {} /\ n.evidence.records = 0
      /\ n.evidence.capture = "pending" /\ n.evidence.active = FALSE
      /\ n.evidence.check = [k \in Checks |-> "pending"]
      /\ n.evidence.target = [t \in contract.targets |-> "pending"]
  BY <1>1 DEF NewEvidence
<1>4. n \in Contents(contract)
  <2>1. n.evidence \in
          [attested : SUBSET contract.scope, capture : {"pending", "in-progress", "captured"},
           active : BOOLEAN, check : [Checks -> Status], target : [contract.targets -> Status],
           exceptions : SUBSET Items, records : 0 .. MaxRecords]
    BY <1>1 DEF NewEvidence, Status
  <2>2. n.run \in [phase : [Phase -> {"pending", "in-progress", "captured", "recorded"}],
                   records : 0 .. MaxRecords]
    BY <1>1
  <2>3. n.verification \in [Checks -> Status] /\ n.restore \in [contract.targets -> Status]
    BY <1>1 DEF Status
  <2> QED BY <1>1, <2>1, <2>2, <2>3 DEF Contents, NewContents
<1>5. ASSUME NEW O PROVE Agree(n, O)
  BY <1>1, <1>2, <1>3
     DEF Agree, SurfacesAgree, ChecksAgree, TargetsAgree, RecordsAgree, ActivationAgrees, RestoreIsWhole
<1> QED BY <1>2, <1>4, <1>5

\* A drill starts with no file and no command.
LEMMA DrillStarts == DrillInit => DrillInv
<1> SUFFICES ASSUME DrillInit PROVE DrillInv
  OBVIOUS
<1> USE DrillAssumption
<1>1. AtRest /\ contract \in Contracts /\ disk = NewContents(contract) /\ file["run"] = "absent"
  BY DEF DrillInit, AtRest, File
<1>2. DrillTypeOK
  BY <1>1, NewIsWhole DEF DrillInit, DrillTypeOK
<1>3. ~Whole(File)
  BY <1>1 DEF Whole, File
<1> QED BY <1>1, <1>2, <1>3 DEF DrillInv, InWork, Agreement, Activated

\* What the command of an item, other than a snapshot, has to show when it has
\* read the files and changed what it read.
LEMMA BeginKeeps ==
  ASSUME DrillInv, NEW item \in Items \ {Snapshot}, NEW todo \in Seq(File) \ {<< >>},
         NEW new \in Contents(contract), Begin(item, todo, new), Written,
         SameBut(item, disk, new),
         Whole(File) => Agree(new, open \ ({item} \ {Record})),
         file["run"] = "whole" => OnBaseline(new),
         Writing'
  PROVE  DrillInv'
<1> USE DEF DrillInv
<1>1. /\ AtRest /\ work' = [item |-> item, todo |-> todo, new |-> new]
      /\ UNCHANGED <<contract, file, disk, open, kills>>
  BY DEF Begin
<1>2. work'.item = item /\ work'.todo = todo /\ work'.new = new
  BY <1>1
<1>3. ~AtRest'
  BY <1>1, <1>2 DEF AtRest, Resting, NoItem, Items
<1>4. DrillTypeOK'
  BY <1>1 DEF DrillTypeOK
<1>5. Busy = {} /\ Busy' = {item} /\ Repaired' = {item} \ {Record}
  BY <1>1, <1>2, <1>3 DEF Busy, Repaired, Record
<1>6. InWork'
  BY <1>1, <1>2, <1>3 DEF InWork, Written, SameBut
<1>7. Agreement'
  <2>1. Whole(File)' => Whole(File)
    BY <1>1 DEF Whole
  <2>2. Whole(File) => Agree(disk, open)
    BY <1>5 DEF Agreement
  <2>3. Agree(disk, open) => Agree(disk, open \cup Busy)'
    BY <1>1, <1>5
       DEF Agree, SurfacesAgree, ChecksAgree, TargetsAgree, RecordsAgree, ActivationAgrees, RestoreIsWhole
  <2>4. Agree(new, open \ ({item} \ {Record})) => Agree(work.new, open \ Repaired)'
    BY <1>1, <1>2, <1>5
       DEF Agree, SurfacesAgree, ChecksAgree, TargetsAgree, RecordsAgree, ActivationAgrees, RestoreIsWhole
  <2> QED BY <1>2, <2>1, <2>2, <2>3, <2>4 DEF Agreement
<1>8. Activated'
  BY <1>1, <1>2 DEF Activated, OnBaseline
<1> QED BY <1>4, <1>6, <1>7, <1>8

\* A new directory for the run whose snapshot was interrupted.
LEMMA OpenKeeps == DrillInv /\ OpenRun => DrillInv'
<1> SUFFICES ASSUME DrillInv, OpenRun PROVE DrillInv'
  OBVIOUS
<1> USE DEF DrillInv
<1> DEFINE todo == <<"baseline", "verification", "restore", "evidence", "run">>
           n == NewContents(contract)
<1>1. /\ file' = [f \in File |-> "absent"] /\ disk' = n
      /\ work' = [item |-> Snapshot, new |-> n, todo |-> todo]
      /\ UNCHANGED <<contract, open, kills>> /\ contract \in Contracts
  BY DEF OpenRun, Snapshot, DrillTypeOK
<1>2. n \in Contents(contract) /\ \A O : Agree(n, O)
  BY <1>1, NewIsWhole
<1> HIDE DEF n
<1>3. work'.item = Snapshot /\ work'.new = n /\ work'.todo = todo
  BY <1>1
<1>4. todo \in Seq(File) \ {<< >>}
  BY DEF File
<1>5. ~AtRest'
  BY <1>1, <1>3 DEF AtRest, Resting, NoItem, Snapshot
<1>6. DrillTypeOK'
  <2>1. Snapshot \in Items
    BY DEF Snapshot, Items
  <2>2. file' \in [File -> {"absent", "whole", "lost"}]
    BY <1>1
  <2> QED BY <1>1, <1>2, <1>4, <2>1, <2>2 DEF DrillTypeOK
<1>7. InWork'
  BY <1>1, <1>3 DEF InWork, Writing, n
<1>8. ~Whole(File)' /\ file'["run"] = "absent"
  BY <1>1 DEF Whole, File
<1>9. Agreement'
  <2>1. Agree(n, open' \ Repaired')
    BY <1>2
  <2>2. Agree(work.new, open \ Repaired)'
    BY <1>1, <1>3, <2>1
       DEF Agree, SurfacesAgree, ChecksAgree, TargetsAgree, RecordsAgree, ActivationAgrees, RestoreIsWhole
  <2> QED BY <1>8, <2>2 DEF Agreement
<1>10. Activated'
  BY <1>1, <1>2, <1>3, <1>8, NewIsWhole DEF Activated, OnBaseline, n
<1> QED BY <1>6, <1>7, <1>9, <1>10

\* What a command knows of the files it has read.
LEMMA WhatIsRead ==
  ASSUME DrillInv, AtRest
  PROVE  /\ contract.scope \subseteq Units /\ contract.targets \subseteq Units
         /\ contract.scope \subseteq contract.targets
         /\ disk \in Contents(contract)
         /\ Whole(File) => Agree(disk, open)
         /\ file["run"] = "whole" => OnBaseline(disk)
<1>1. contract \in Contracts /\ disk \in Contents(contract)
  BY DEF DrillInv, DrillTypeOK
<1>2. contract.scope \subseteq Units /\ contract.targets \subseteq Units
      /\ contract.scope \subseteq contract.targets
  BY <1>1 DEF Contracts, ValidContract
<1>3. Whole(File) => Agree(disk, open)
  <2>1. open \cup Busy = open
    BY DEF Busy
  <2> QED BY <2>1 DEF DrillInv, Agreement
<1> QED BY <1>1, <1>2, <1>3 DEF DrillInv, Activated

\* An attestation comes before the activation and changes one surface.
LEMMA AttestKeeps == ASSUME NEW s \in Units, DrillInv, AttestBaseline(s) PROVE DrillInv'
<1> DEFINE i == <<"surface", s>>
           baseline == disk.baseline \cup {s}
           recorded == [disk.evidence EXCEPT !.attested = @ \cup {s}]
           capture == IF AttestedInBoth(baseline, recorded) THEN "captured" ELSE "in-progress"
           todo == <<"run", "baseline", "evidence">>
           new == [disk EXCEPT !.run.phase["baseline"] = capture, !.baseline = baseline,
                               !.evidence = [recorded EXCEPT !.capture = capture]]
<1>1. /\ Readable({"run", "baseline", "evidence"}) /\ s \in contract.scope
      /\ disk.run.phase["activation"] = "pending" /\ Begin(i, todo, new) /\ AtRest
  BY DEF AttestBaseline, Begin
<1>2. capture \in {"captured", "in-progress"}
  OBVIOUS
<1> HIDE DEF capture
<1>3. /\ new \in Contents(contract)
      /\ new.run.phase = [disk.run.phase EXCEPT !["baseline"] = capture]
      /\ new.run.records = disk.run.records /\ new.baseline = baseline
      /\ new.verification = disk.verification /\ new.restore = disk.restore
      /\ new.evidence = [recorded EXCEPT !.capture = capture]
  BY <1>1, <1>2, WhatIsRead DEF Contents, Phase
<1>4. /\ new.evidence.attested = disk.evidence.attested \cup {s}
      /\ new.evidence.active = disk.evidence.active /\ new.evidence.check = disk.evidence.check
      /\ new.evidence.target = disk.evidence.target
      /\ new.evidence.exceptions = disk.evidence.exceptions
      /\ new.evidence.records = disk.evidence.records
  BY <1>1, <1>3, WhatIsRead DEF Contents
<1>5. /\ new.run.phase["activation"] = "pending"
      /\ new.run.phase["restore"] = disk.run.phase["restore"]
  BY <1>1, <1>3, WhatIsRead DEF Contents, Phase
<1> HIDE DEF new
<1>6. i \in Items \ {Snapshot} /\ todo \in Seq(File) \ {<< >>}
  BY DEF Items, Snapshot, File
<1>7. SameBut(i, disk, new)
  BY <1>1, <1>3, <1>4, <1>5, WhatIsRead DEF SameBut, Activation, Record, Contents
<1>8. Whole(File) => Agree(new, open \ ({i} \ {Record}))
  <2> SUFFICES ASSUME Agree(disk, open) PROVE Agree(new, open \ ({i} \ {Record}))
    BY <1>1, WhatIsRead
  <2>1. SurfacesAgree(new, open \ ({i} \ {Record}))
    BY <1>3, <1>4 DEF Agree, SurfacesAgree, Record
  <2> QED BY <1>1, <1>3, <1>4, <1>5, <2>1
             DEF Agree, ChecksAgree, TargetsAgree, RecordsAgree, ActivationAgrees, RestoreIsWhole,
                 Record, Activation
<1>9. OnBaseline(new)
  BY <1>5 DEF OnBaseline
<1>10. Writing'
  <2>1. work'.item = i /\ work'.todo = todo /\ work'.new = new /\ disk' = disk
    BY <1>1 DEF Begin
  <2>2. ToWrite("run")' /\ ToWrite("baseline")' /\ ToWrite("evidence")'
    BY <2>1 DEF ToWrite
  <2> QED BY <1>3, <2>1, <2>2 DEF Writing
<1> QED BY <1>1, <1>3, <1>6, <1>7, <1>8, <1>9, <1>10, BeginKeeps DEF Readable

\* An activation is recorded on a baseline that both files attest.
LEMMA ActivateKeeps == DrillInv /\ ActivateRun => DrillInv'
<1> SUFFICES ASSUME DrillInv, ActivateRun PROVE DrillInv'
  OBVIOUS
<1> DEFINE todo == <<"run", "evidence">>
           new == [disk EXCEPT !.run.phase["activation"] = "recorded", !.evidence.active = TRUE]
<1>1. /\ Readable({"run", "baseline", "evidence"}) /\ Begin(Activation, todo, new) /\ AtRest
      /\ disk.baseline = contract.scope /\ disk.evidence.attested = contract.scope
  BY DEF ActivateRun, Begin, Activation, AttestedInBoth
<1>3. /\ new \in Contents(contract)
      /\ new.run.phase = [disk.run.phase EXCEPT !["activation"] = "recorded"]
      /\ new.run.records = disk.run.records /\ new.baseline = disk.baseline
      /\ new.verification = disk.verification /\ new.restore = disk.restore
      /\ new.evidence = [disk.evidence EXCEPT !.active = TRUE]
  BY <1>1, WhatIsRead DEF Contents, Phase
<1>4. /\ new.evidence.attested = disk.evidence.attested
      /\ new.evidence.active = TRUE /\ new.evidence.check = disk.evidence.check
      /\ new.evidence.target = disk.evidence.target
      /\ new.evidence.exceptions = disk.evidence.exceptions
      /\ new.evidence.records = disk.evidence.records
  BY <1>1, <1>3, WhatIsRead DEF Contents
<1>5. /\ new.run.phase["activation"] = "recorded"
      /\ new.run.phase["restore"] = disk.run.phase["restore"]
  BY <1>1, <1>3, WhatIsRead DEF Contents, Phase
<1> HIDE DEF new
<1>6. Activation \in Items \ {Snapshot} /\ todo \in Seq(File) \ {<< >>}
  BY DEF Items, Snapshot, Activation, File
<1>7. SameBut(Activation, disk, new)
  BY <1>1, <1>3, <1>4, <1>5, WhatIsRead DEF SameBut, Activation, Record, Contents
<1>8. Whole(File) => Agree(new, open \ ({Activation} \ {Record}))
  <2> SUFFICES ASSUME Agree(disk, open) PROVE Agree(new, open \ ({Activation} \ {Record}))
    BY <1>1, WhatIsRead
  <2> QED BY <1>3, <1>4, <1>5
             DEF Agree, SurfacesAgree, ChecksAgree, TargetsAgree, RecordsAgree, ActivationAgrees,
                 RestoreIsWhole, Record, Activation
<1>9. OnBaseline(new)
  BY <1>1, <1>3, <1>4 DEF OnBaseline
<1>10. Writing'
  <2>1. work'.item = Activation /\ work'.todo = todo /\ work'.new = new /\ disk' = disk
    BY <1>1 DEF Begin
  <2>2. ToWrite("run")' /\ ToWrite("evidence")'
    BY <2>1 DEF ToWrite
  <2> QED BY <1>3, <2>1, <2>2 DEF Writing
<1> QED BY <1>1, <1>3, <1>6, <1>7, <1>8, <1>9, <1>10, BeginKeeps DEF Readable

\* A record is appended in both files.
LEMMA RecordKeeps == DrillInv /\ RecordEvidence => DrillInv'
<1> SUFFICES ASSUME DrillInv, RecordEvidence PROVE DrillInv'
  OBVIOUS
<1> USE DrillAssumption
<1> DEFINE todo == <<"run", "evidence">>
           new == [disk EXCEPT !.run.records = @ + 1, !.evidence.records = @ + 1]
<1>1. /\ Written /\ Begin(Record, todo, new) /\ AtRest
      /\ disk.run.records < MaxRecords /\ disk.evidence.records < MaxRecords
  BY DEF RecordEvidence, Begin, Record
<1>2. disk.run.records \in Nat /\ disk.evidence.records \in Nat
  BY <1>1, WhatIsRead DEF Contents
<1>3. /\ new.run = [disk.run EXCEPT !.records = disk.run.records + 1]
      /\ new.baseline = disk.baseline
      /\ new.verification = disk.verification /\ new.restore = disk.restore
      /\ new.evidence = [disk.evidence EXCEPT !.records = disk.evidence.records + 1]
      /\ DOMAIN new = DOMAIN disk
  BY <1>1, WhatIsRead DEF Contents
<1>4. /\ new.run.phase = disk.run.phase /\ new.run.records = disk.run.records + 1
      /\ new.evidence.attested = disk.evidence.attested
      /\ new.evidence.active = disk.evidence.active /\ new.evidence.check = disk.evidence.check
      /\ new.evidence.target = disk.evidence.target
      /\ new.evidence.exceptions = disk.evidence.exceptions
      /\ new.evidence.records = disk.evidence.records + 1
  BY <1>1, <1>3, WhatIsRead DEF Contents
<1>5. new \in Contents(contract)
  <2>1. disk.run.records + 1 \in 0 .. MaxRecords /\ disk.evidence.records + 1 \in 0 .. MaxRecords
    BY <1>1, <1>2
  <2>2. new.run \in [phase : [Phase -> {"pending", "in-progress", "captured", "recorded"}],
                     records : 0 .. MaxRecords]
    BY <1>1, <1>3, <2>1, WhatIsRead DEF Contents
  <2>3. new.evidence \in
          [attested : SUBSET contract.scope, capture : {"pending", "in-progress", "captured"},
           active : BOOLEAN, check : [Checks -> Status], target : [contract.targets -> Status],
           exceptions : SUBSET Items, records : 0 .. MaxRecords]
    BY <1>1, <1>3, <2>1, WhatIsRead DEF Contents
  <2>4. new = [disk EXCEPT !.run = new.run, !.evidence = new.evidence]
    BY <1>1, <1>3, WhatIsRead DEF Contents
  <2> HIDE DEF new
  <2> QED BY <1>1, <2>2, <2>3, <2>4, WhatIsRead DEF Contents
<1> HIDE DEF new
<1>6. Record \in Items \ {Snapshot} /\ todo \in Seq(File) \ {<< >>}
  BY DEF Items, Snapshot, Record, File
<1>7. SameBut(Record, disk, new)
  BY <1>1, <1>2, <1>3, <1>4, WhatIsRead DEF SameBut, Activation, Record, Contents
<1>8. Whole(File) => Agree(new, open \ ({Record} \ {Record}))
  <2> SUFFICES ASSUME Agree(disk, open) PROVE Agree(new, open \ ({Record} \ {Record}))
    BY <1>1, WhatIsRead
  <2>1. RecordsAgree(new, open \ ({Record} \ {Record}))
    BY <1>2, <1>4 DEF Agree, RecordsAgree
  <2> QED BY <1>3, <1>4, <2>1
             DEF Agree, SurfacesAgree, ChecksAgree, TargetsAgree, ActivationAgrees, RestoreIsWhole
<1>9. file["run"] = "whole" => OnBaseline(new)
  BY <1>1, <1>3, <1>4, WhatIsRead DEF OnBaseline
<1>10. Writing'
  <2>1. work'.item = Record /\ work'.todo = todo /\ work'.new = new /\ disk' = disk
    BY <1>1 DEF Begin
  <2>2. ToWrite("run")' /\ ToWrite("evidence")'
    BY <2>1 DEF ToWrite
  <2> QED BY <1>3, <2>1, <2>2 DEF Writing
<1> QED BY <1>1, <1>5, <1>6, <1>7, <1>8, <1>9, <1>10, BeginKeeps

\* A verification gives one check its status, and its exception or none.
LEMMA VerifyKeeps ==
  ASSUME NEW k \in Checks, NEW status \in {"accepted", "exception"}, DrillInv, VerifyCheck(k, status)
  PROVE  DrillInv'
<1> DEFINE i == <<"check", k>>
           verification == [disk.verification EXCEPT ![k] = status]
           exceptions == ExceptedOrNot(disk.evidence.exceptions, i, status)
           pack == [disk.evidence EXCEPT !.check[k] = status, !.exceptions = exceptions]
           progress == Progress(verification)
           todo == <<"run", "verification", "evidence">>
           new == [disk EXCEPT !.run.phase["verification"] = progress, !.verification = verification,
                               !.evidence = pack]
<1>1. /\ Readable({"run", "verification", "evidence"}) /\ Begin(i, todo, new) /\ AtRest
  BY DEF VerifyCheck, Begin
<1>2. /\ progress \in {"recorded", "in-progress"} /\ exceptions \subseteq Items
      /\ \A j : j # i => (j \in exceptions <=> j \in disk.evidence.exceptions)
      /\ i \in exceptions <=> status = "exception"
  <2>1. disk.evidence.exceptions \subseteq Items /\ i \in Items
    BY <1>1, WhatIsRead DEF Contents, Items
  <2> QED BY <2>1 DEF Progress, ExceptedOrNot
<1> HIDE DEF progress, exceptions
<1>3. verification \in [Checks -> Status] /\ disk.verification \in [Checks -> Status]
  BY <1>1, WhatIsRead DEF Contents, Status
<1>4. /\ verification[k] = status
      /\ \A j \in Checks \ {k} : verification[j] = disk.verification[j]
  BY <1>3
<1>5. /\ pack.attested = disk.evidence.attested /\ pack.active = disk.evidence.active
      /\ pack.check = [disk.evidence.check EXCEPT ![k] = status]
      /\ pack.target = disk.evidence.target /\ pack.exceptions = exceptions
      /\ pack.records = disk.evidence.records /\ pack.capture = disk.evidence.capture
      /\ pack \in [attested : SUBSET contract.scope, capture : {"pending", "in-progress", "captured"},
                   active : BOOLEAN, check : [Checks -> Status], target : [contract.targets -> Status],
                   exceptions : SUBSET Items, records : 0 .. MaxRecords]
  BY <1>1, <1>2, WhatIsRead DEF Contents, Status
<1>6. pack.check[k] = status /\ \A j \in Checks \ {k} : pack.check[j] = disk.evidence.check[j]
  BY <1>1, <1>5, WhatIsRead DEF Contents
<1> HIDE DEF verification, pack
<1>7. /\ new \in Contents(contract)
      /\ new.run.phase = [disk.run.phase EXCEPT !["verification"] = progress]
      /\ new.run.records = disk.run.records /\ new.baseline = disk.baseline
      /\ new.verification = verification /\ new.restore = disk.restore
      /\ new.evidence = pack
  BY <1>1, <1>2, <1>3, <1>5, WhatIsRead DEF Contents, Phase
<1>8. /\ new.run.phase["activation"] = disk.run.phase["activation"]
      /\ new.run.phase["restore"] = disk.run.phase["restore"]
  BY <1>1, <1>7, WhatIsRead DEF Contents, Phase
<1> HIDE DEF new
<1>9. i \in Items \ {Snapshot} /\ todo \in Seq(File) \ {<< >>}
  BY DEF Items, Snapshot, File
<1>10. SameBut(i, disk, new)
  BY <1>1, <1>2, <1>4, <1>5, <1>6, <1>7, <1>8, WhatIsRead DEF SameBut, Activation, Record, Contents
<1>11. Whole(File) => Agree(new, open \ ({i} \ {Record}))
  <2> SUFFICES ASSUME Agree(disk, open) PROVE Agree(new, open \ ({i} \ {Record}))
    BY <1>1, WhatIsRead
  <2>1. ChecksAgree(new, open \ ({i} \ {Record}))
    BY <1>2, <1>4, <1>5, <1>6, <1>7 DEF Agree, ChecksAgree
  <2>2. TargetsAgree(new, open \ ({i} \ {Record}))
    BY <1>2, <1>5, <1>7 DEF Agree, TargetsAgree
  <2> QED BY <1>5, <1>7, <1>8, <2>1, <2>2
             DEF Agree, SurfacesAgree, RecordsAgree, ActivationAgrees, RestoreIsWhole, Record, Activation
<1>12. OnBaseline(new)
  BY <1>1, <1>5, <1>7, <1>8, WhatIsRead DEF OnBaseline, Readable
<1>13. Writing'
  <2>1. work'.item = i /\ work'.todo = todo /\ work'.new = new /\ disk' = disk
    BY <1>1 DEF Begin
  <2>2. ToWrite("run")' /\ ToWrite("verification")' /\ ToWrite("evidence")'
    BY <2>1 DEF ToWrite
  <2> QED BY <1>7, <2>1, <2>2 DEF Writing
<1> QED BY <1>1, <1>7, <1>9, <1>10, <1>11, <1>12, <1>13, BeginKeeps DEF Readable

\* A restore gives one target its status, and is recorded when none is pending.
LEMMA RestoreSurfaceKeeps ==
  ASSUME NEW t \in Units, NEW status \in {"accepted", "exception"}, DrillInv, RestoreSurface(t, status)
  PROVE  DrillInv'
<1> DEFINE i == <<"target", t>>
           restore == [disk.restore EXCEPT ![t] = status]
           exceptions == ExceptedOrNot(disk.evidence.exceptions, i, status)
           pack == [disk.evidence EXCEPT !.target[t] = status, !.exceptions = exceptions]
           progress == Progress(restore)
           todo == <<"run", "restore", "evidence">>
           new == [disk EXCEPT !.run.phase["restore"] = progress, !.restore = restore, !.evidence = pack]
<1>1. /\ Readable({"run", "restore", "evidence"}) /\ Begin(i, todo, new) /\ AtRest
      /\ t \in contract.targets
  BY DEF RestoreSurface, Begin
<1>2. /\ exceptions \subseteq Items
      /\ \A j : j # i => (j \in exceptions <=> j \in disk.evidence.exceptions)
      /\ i \in exceptions <=> status = "exception"
  <2>1. disk.evidence.exceptions \subseteq Items /\ i \in Items
    BY <1>1, WhatIsRead DEF Contents, Items
  <2> QED BY <2>1 DEF ExceptedOrNot
<1> HIDE DEF exceptions
<1>3. restore \in [contract.targets -> Status] /\ disk.restore \in [contract.targets -> Status]
  BY <1>1, WhatIsRead DEF Contents, Status
<1>4. /\ restore[t] = status
      /\ \A j \in contract.targets \ {t} : restore[j] = disk.restore[j]
  BY <1>1, <1>3
<1>5. /\ progress \in {"recorded", "in-progress"}
      /\ progress = "recorded" => \A j \in contract.targets : restore[j] # "pending"
  BY <1>3 DEF Progress
<1>6. /\ pack.attested = disk.evidence.attested /\ pack.active = disk.evidence.active
      /\ pack.target = [disk.evidence.target EXCEPT ![t] = status]
      /\ pack.check = disk.evidence.check /\ pack.exceptions = exceptions
      /\ pack.records = disk.evidence.records /\ pack.capture = disk.evidence.capture
      /\ pack \in [attested : SUBSET contract.scope, capture : {"pending", "in-progress", "captured"},
                   active : BOOLEAN, check : [Checks -> Status], target : [contract.targets -> Status],
                   exceptions : SUBSET Items, records : 0 .. MaxRecords]
  BY <1>1, <1>2, WhatIsRead DEF Contents, Status
<1>7. /\ pack.target[t] = status
      /\ \A j \in contract.targets \ {t} : pack.target[j] = disk.evidence.target[j]
  BY <1>1, <1>6, WhatIsRead DEF Contents
<1> HIDE DEF restore, pack, progress
<1>8. /\ new \in Contents(contract)
      /\ new.run.phase = [disk.run.phase EXCEPT !["restore"] = progress]
      /\ new.run.records = disk.run.records /\ new.baseline = disk.baseline
      /\ new.verification = disk.verification /\ new.restore = restore
      /\ new.evidence = pack
  BY <1>1, <1>3, <1>5, <1>6, WhatIsRead DEF Contents, Phase
<1>9. /\ new.run.phase["activation"] = disk.run.phase["activation"]
      /\ new.run.phase["restore"] = progress
  BY <1>1, <1>8, WhatIsRead DEF Contents, Phase
<1> HIDE DEF new
<1>10. i \in Items \ {Snapshot} /\ todo \in Seq(File) \ {<< >>}
  BY DEF Items, Snapshot, File
<1>11. SameBut(i, disk, new)
  BY <1>1, <1>2, <1>4, <1>6, <1>7, <1>8, <1>9, WhatIsRead DEF SameBut, Activation, Record, Contents
<1>12. Whole(File) => Agree(new, open \ ({i} \ {Record}))
  <2> SUFFICES ASSUME Agree(disk, open) PROVE Agree(new, open \ ({i} \ {Record}))
    BY <1>1, WhatIsRead
  <2>1. TargetsAgree(new, open \ ({i} \ {Record}))
    BY <1>2, <1>4, <1>6, <1>7, <1>8 DEF Agree, TargetsAgree
  <2>2. ChecksAgree(new, open \ ({i} \ {Record}))
    BY <1>2, <1>6, <1>8 DEF Agree, ChecksAgree
  <2>3. RestoreIsWhole(new, open \ ({i} \ {Record}))
    BY <1>5, <1>8, <1>9 DEF RestoreIsWhole
  <2> QED BY <1>6, <1>8, <1>9, <2>1, <2>2, <2>3
             DEF Agree, SurfacesAgree, RecordsAgree, ActivationAgrees, Record, Activation
<1>13. file["run"] = "whole" => OnBaseline(new)
  BY <1>1, <1>6, <1>8, <1>9, WhatIsRead DEF OnBaseline
<1>14. Writing'
  <2>1. work'.item = i /\ work'.todo = todo /\ work'.new = new /\ disk' = disk
    BY <1>1 DEF Begin
  <2>2. ToWrite("run")' /\ ToWrite("restore")' /\ ToWrite("evidence")'
    BY <2>1 DEF ToWrite
  <2> QED BY <1>8, <2>1, <2>2 DEF Writing
<1> QED BY <1>1, <1>8, <1>10, <1>11, <1>12, <1>13, <1>14, BeginKeeps DEF Readable

-----------------------------------------------------------------------------
(* A drill recorded by hand: writes and kills.                             *)

\* Contents that differ from what will be written in one item agree but for it.
LEMMA HalfWritten ==
  ASSUME NEW i, NEW d, NEW n, NEW O, SameBut(i, d, n), Agree(n, O \ ({i} \ {Record})),
         d.evidence.records <= d.run.records, RestoreIsWhole(d, O \cup {i})
  PROVE  Agree(d, O \cup {i})
<1>1. SurfacesAgree(d, O \cup {i})
  BY DEF SameBut, Agree, SurfacesAgree, Record
<1>2. ChecksAgree(d, O \cup {i})
  BY DEF SameBut, Agree, ChecksAgree, Record
<1>3. TargetsAgree(d, O \cup {i})
  BY DEF SameBut, Agree, TargetsAgree, Record
<1>4. RecordsAgree(d, O \cup {i}) /\ ActivationAgrees(d, O \cup {i})
  BY DEF SameBut, Agree, RecordsAgree, ActivationAgrees, Record, Activation
<1> QED BY <1>1, <1>2, <1>3, <1>4 DEF Agree

\* One write: the next file gets the new contents, and the others stay.
LEMMA OneWrite ==
  ASSUME DrillTypeOK, WriteFile
  PROVE  /\ ~AtRest /\ work.todo \in Seq(File) \ {<< >>} /\ work.new \in Contents(contract)
         /\ work.item \in Items /\ Head(work.todo) \in File
         /\ disk' \in Contents(contract) /\ UNCHANGED <<contract, kills>>
         /\ disk'.run = (IF Head(work.todo) = "run" THEN work.new.run ELSE disk.run)
         /\ disk'.baseline = (IF Head(work.todo) = "baseline" THEN work.new.baseline ELSE disk.baseline)
         /\ disk'.verification =
              (IF Head(work.todo) = "verification" THEN work.new.verification ELSE disk.verification)
         /\ disk'.restore = (IF Head(work.todo) = "restore" THEN work.new.restore ELSE disk.restore)
         /\ disk'.evidence = (IF Head(work.todo) = "evidence" THEN work.new.evidence ELSE disk.evidence)
         /\ file' \in [File -> {"absent", "whole", "lost"}]
         /\ \A g \in File :
              file'[g] = file[g] \/ (g = Head(work.todo) /\ file[g] = "absent" /\ file'[g] = "whole")
         /\ Written => UNCHANGED file
<1> DEFINE f == Head(work.todo)
<1>1. /\ ~AtRest /\ work.todo \in Seq(File) \ {<< >>} /\ work.new \in Contents(contract)
      /\ work.item \in Items /\ f \in File /\ UNCHANGED <<contract, kills>>
      /\ disk \in Contents(contract) /\ file \in [File -> {"absent", "whole", "lost"}]
  BY DEF WriteFile, DrillTypeOK
<1>2. /\ disk' = [disk EXCEPT ![f] = work.new[f]]
      /\ file' = [file EXCEPT ![f] = IF file[f] = "lost" THEN "lost" ELSE "whole"]
  BY DEF WriteFile
<1> HIDE DEF f
<1>3. /\ file' \in [File -> {"absent", "whole", "lost"}]
      /\ \A g \in File : file'[g] = file[g] \/ (g = f /\ file[g] = "absent" /\ file'[g] = "whole")
  <2>1. file[f] \in {"absent", "whole", "lost"}
    BY <1>1
  <2>2. \/ file' = file
        \/ file[f] = "absent" /\ file' = [file EXCEPT ![f] = "whole"]
    BY <1>1, <1>2, <2>1
  <2> QED BY <1>1, <2>2
<1>4. Written => UNCHANGED file
  BY <1>1, <1>2, <1>3 DEF Written
<1>5. CASE f = "run"
  <2>1. disk' = [disk EXCEPT !.run = work.new.run]
    BY <1>1, <1>2, <1>5 DEF Contents
  <2> QED BY <1>1, <1>3, <1>4, <1>5, <2>1 DEF Contents, f
<1>6. CASE f = "baseline"
  <2>1. disk' = [disk EXCEPT !.baseline = work.new.baseline]
    BY <1>1, <1>2, <1>6 DEF Contents
  <2> QED BY <1>1, <1>3, <1>4, <1>6, <2>1 DEF Contents, f
<1>7. CASE f = "verification"
  <2>1. disk' = [disk EXCEPT !.verification = work.new.verification]
    BY <1>1, <1>2, <1>7 DEF Contents
  <2> QED BY <1>1, <1>3, <1>4, <1>7, <2>1 DEF Contents, f
<1>8. CASE f = "restore"
  <2>1. disk' = [disk EXCEPT !.restore = work.new.restore]
    BY <1>1, <1>2, <1>8 DEF Contents
  <2> QED BY <1>1, <1>3, <1>4, <1>8, <2>1 DEF Contents, f
<1>9. CASE f = "evidence"
  <2>1. disk' = [disk EXCEPT !.evidence = work.new.evidence]
    BY <1>1, <1>2, <1>9 DEF Contents
  <2> QED BY <1>1, <1>3, <1>4, <1>9, <2>1 DEF Contents, f
<1> QED BY <1>1, <1>5, <1>6, <1>7, <1>8, <1>9 DEF File

\* Writes go on, or complete the command.
LEMMA NextWrite ==
  ASSUME DrillTypeOK, WriteFile
  PROVE  /\ \A g : ToWrite(g) => g = Head(work.todo)
                               \/ (\E i \in 1 .. Len(Tail(work.todo)) : Tail(work.todo)[i] = g)
         /\ \/ /\ Tail(work.todo) = << >> /\ AtRest' /\ open' = open \ Repaired
               /\ \A g : ToWrite(g) => g = Head(work.todo)
            \/ /\ Tail(work.todo) \in Seq(File) \ {<< >>} /\ ~AtRest' /\ open' = open
               /\ work' \in [item : Items, todo : Seq(File) \ {<< >>}, new : Contents(contract)]
               /\ work'.item = work.item /\ work'.new = work.new /\ work'.todo = Tail(work.todo)
<1> DEFINE f == Head(work.todo)
           rest == Tail(work.todo)
<1>1. /\ work \in [item : Items, todo : Seq(File) \ {<< >>}, new : Contents(contract)]
      /\ work.todo \in Seq(File) \ {<< >>}
  BY OneWrite DEF DrillTypeOK
<1>2. /\ rest \in Seq(File) /\ Len(rest) = Len(work.todo) - 1 /\ Len(work.todo) \in Nat \ {0}
      /\ f = work.todo[1] /\ \A i \in 1 .. Len(rest) : rest[i] = work.todo[i + 1]
  BY <1>1
<1>3. \A g : ToWrite(g) => g = f \/ (\E i \in 1 .. Len(rest) : rest[i] = g)
  <2> SUFFICES ASSUME NEW g, NEW i \in 1 .. Len(work.todo), work.todo[i] = g, g # f
               PROVE  \E j \in 1 .. Len(rest) : rest[j] = g
    BY DEF ToWrite
  <2>1. i # 1 /\ i - 1 \in 1 .. Len(rest) /\ (i - 1) + 1 = i
    BY <1>2
  <2>2. rest[i - 1] = g
    BY <1>2, <2>1
  <2> QED BY <2>1, <2>2
<1>4. /\ work' = (IF rest = << >> THEN Resting ELSE [work EXCEPT !.todo = rest])
      /\ open' = (IF rest = << >> THEN open \ Repaired ELSE open)
  BY DEF WriteFile
<1>5. CASE rest = << >>
  <2>1. Len(<< >>) = 0
    OBVIOUS
  <2>2. Len(rest) = 0
    BY <1>5, <2>1
  <2> HIDE DEF rest
  <2>3. \A i \in 1 .. Len(rest) : FALSE
    BY <2>2
  <2> QED BY <1>3, <1>4, <1>5, <2>3 DEF AtRest, rest
<1>6. CASE rest # << >>
  <2>1. work' = [work EXCEPT !.todo = rest]
    BY <1>4, <1>6
  <2> HIDE DEF rest
  <2>2. /\ work' \in [item : Items, todo : Seq(File) \ {<< >>}, new : Contents(contract)]
        /\ work'.item = work.item /\ work'.new = work.new /\ work'.todo = rest
    BY <1>1, <1>2, <1>6, <2>1
  <2>3. ~AtRest'
    BY <2>2 DEF AtRest, Resting, NoItem, Items
  <2> QED BY <1>2, <1>3, <1>4, <1>6, <2>2, <2>3 DEF rest
<1> QED BY <1>5, <1>6

\* A snapshot writes what a new run directory holds, in whatever state it is.
LEMMA SnapshotWrites == DrillInv /\ WriteFile /\ work.item = Snapshot => DrillInv'
<1> SUFFICES ASSUME DrillInv, WriteFile, work.item = Snapshot PROVE DrillInv'
  OBVIOUS
<1> USE DEF DrillInv
<1> DEFINE n == NewContents(contract)
<1>1. ~AtRest /\ disk = n /\ work.new = n /\ contract \in Contracts
  BY OneWrite DEF InWork, DrillTypeOK
<1>2. n \in Contents(contract) /\ (\A O : Agree(n, O)) /\ n.run.phase["activation"] = "pending"
  BY <1>1, NewIsWhole
<1>3. disk' = n
  <2>1. /\ disk'.run = n.run /\ disk'.baseline = n.baseline /\ disk'.verification = n.verification
        /\ disk'.restore = n.restore /\ disk'.evidence = n.evidence
        /\ disk' \in Contents(contract)
    BY <1>1, OneWrite
  <2> HIDE DEF n
  <2> QED BY <1>2, <2>1 DEF Contents
<1>4. contract' = contract /\ kills' = kills /\ file' \in [File -> {"absent", "whole", "lost"}]
  BY OneWrite
<1>5. NewContents(contract)' = n
  BY <1>4
<1> HIDE DEF n
<1>6. open' \subseteq open
  BY NextWrite
<1>7. Agree(disk, open \cup Busy)' /\ OnBaseline(disk)'
  <2>1. Agree(n, (open \cup Busy)')
    BY <1>2
  <2>2. Agree(disk, open \cup Busy)'
    BY <1>3, <1>4, <2>1
       DEF Agree, SurfacesAgree, ChecksAgree, TargetsAgree, RecordsAgree, ActivationAgrees,
           RestoreIsWhole
  <2> QED BY <1>2, <1>3, <2>2 DEF OnBaseline
<1>8. CASE AtRest'
  <2>1. DrillTypeOK'
    BY <1>2, <1>3, <1>4, <1>6, <1>8 DEF DrillTypeOK, Contents
  <2> QED BY <1>7, <1>8, <2>1 DEF InWork, Agreement, Activated
<1>9. CASE ~AtRest'
  <2>1. /\ work' \in [item : Items, todo : Seq(File) \ {<< >>}, new : Contents(contract)]
        /\ work'.item = Snapshot /\ work'.new = n
    BY <1>1, <1>9, NextWrite
  <2>2. DrillTypeOK'
    BY <1>2, <1>3, <1>4, <1>6, <2>1 DEF DrillTypeOK, Contents
  <2>3. InWork'
    BY <1>3, <1>5, <2>1 DEF InWork, Writing
  <2>4. Agree(work.new, open \ Repaired)' /\ OnBaseline(work.new)'
    <3>1. Agree(n, (open \ Repaired)')
      BY <1>2
    <3>2. Agree(work.new, open \ Repaired)'
      BY <1>4, <2>1, <3>1
         DEF Agree, SurfacesAgree, ChecksAgree, TargetsAgree, RecordsAgree, ActivationAgrees,
             RestoreIsWhole
    <3> QED BY <1>2, <2>1, <3>2 DEF OnBaseline
  <2> QED BY <1>7, <2>2, <2>3, <2>4 DEF Agreement, Activated
<1> QED BY <1>8, <1>9

\* Any other command writes between contents that agree but for its item.
LEMMA WriteKeeps == DrillInv /\ WriteFile /\ work.item # Snapshot => DrillInv'
<1> SUFFICES ASSUME DrillInv, WriteFile, work.item # Snapshot PROVE DrillInv'
  OBVIOUS
<1> USE DEF DrillInv
<1> DEFINE i == work.item
           n == work.new
           f == Head(work.todo)
           O == open
<1>1. /\ ~AtRest /\ Writing /\ Written /\ SameBut(i, disk, n) /\ i \in Items
      /\ n \in Contents(contract) /\ disk \in Contents(contract) /\ disk' \in Contents(contract)
      /\ f \in File
  BY OneWrite DEF InWork, DrillTypeOK
<1>2. /\ UNCHANGED <<contract, kills, file>> /\ Written'
      /\ (Whole(File)' <=> Whole(File))
  BY <1>1, OneWrite DEF Written, Whole
<1>3. /\ Whole(File) => Agree(disk, O \cup {i}) /\ Agree(n, O \ ({i} \ {Record}))
      /\ file["run"] = "whole" => OnBaseline(disk) /\ OnBaseline(n)
  <2>1. Busy = {i} /\ Repaired = {i} \ {Record}
    BY <1>1 DEF Busy, Repaired, Record
  <2> QED BY <1>1, <2>1 DEF Agreement, Activated
<1>4. /\ disk'.run = (IF f = "run" THEN n.run ELSE disk.run)
      /\ disk'.baseline = (IF f = "baseline" THEN n.baseline ELSE disk.baseline)
      /\ disk'.verification = (IF f = "verification" THEN n.verification ELSE disk.verification)
      /\ disk'.restore = (IF f = "restore" THEN n.restore ELSE disk.restore)
      /\ disk'.evidence = (IF f = "evidence" THEN n.evidence ELSE disk.evidence)
  BY OneWrite
<1>5. f # "run" => ~(\E j \in 1 .. Len(work.todo) : work.todo[j] = "run")
  <2>1. f = work.todo[1] /\ Len(work.todo) \in Nat
    BY OneWrite
  <2> QED BY <1>1, <2>1 DEF Writing
<1>6. f = "evidence" => disk.run = n.run
  BY <1>1, <1>5 DEF Writing, ToWrite
<1>7. /\ n.baseline \subseteq contract.scope /\ disk.baseline \subseteq contract.scope
      /\ n.evidence.attested \subseteq contract.scope /\ disk.evidence.attested \subseteq contract.scope
      /\ n.evidence.records \in Nat /\ disk.evidence.records \in Nat
      /\ n.run.records \in Nat /\ disk.run.records \in Nat
  BY <1>1 DEF Contents
<1>8. SameBut(i, disk', n)
  BY <1>1, <1>4, <1>7 DEF SameBut
<1>9. Whole(File) => Agree(disk', O \cup {i})
  <2> SUFFICES ASSUME Agree(disk, O \cup {i}), Agree(n, O \ ({i} \ {Record}))
               PROVE  Agree(disk', O \cup {i})
    BY <1>3
  <2>1. disk'.evidence.records <= disk'.run.records
    BY <1>1, <1>4, <1>6, <1>7 DEF Agree, RecordsAgree, SameBut
  <2>2. RestoreIsWhole(disk', O \cup {i})
    <3>1. RestoreIsWhole(disk, O \cup {i}) /\ RestoreIsWhole(n, O \cup {i})
      BY DEF Agree, RestoreIsWhole
    <3>2. \A t \in contract.targets : <<"target", t>> \notin O \cup {i} => disk.restore[t] = n.restore[t]
      BY <1>1 DEF SameBut
    <3> QED BY <1>4, <3>1, <3>2 DEF RestoreIsWhole
  <2> QED BY <1>8, <2>1, <2>2, HalfWritten
<1>10. file["run"] = "whole" => OnBaseline(disk')
  <2> SUFFICES ASSUME OnBaseline(disk), OnBaseline(n), disk'.run.phase["activation"] = "recorded"
               PROVE  /\ file["baseline"] = "whole" => disk'.baseline = contract.scope
                      /\ file["evidence"] = "whole" => disk'.evidence.attested = contract.scope
    BY <1>3 DEF OnBaseline
  <2>1. CASE i = Activation
    <3>1. \A s \in contract.scope : i # <<"surface", s>>
      BY <2>1 DEF Activation
    <3>2. disk.baseline = n.baseline /\ disk.evidence.attested = n.evidence.attested
      BY <1>1, <1>7, <3>1 DEF SameBut
    <3> QED BY <1>4, <3>2 DEF OnBaseline
  <2>2. CASE i # Activation
    <3>1. n.run.phase["activation"] = "recorded" /\ disk.run.phase["activation"] = "recorded"
      BY <1>1, <1>4, <2>2 DEF SameBut
    <3>2. \A s \in contract.scope : i # <<"surface", s>>
      BY <1>1, <3>1 DEF SameBut
    <3>3. disk.baseline = n.baseline /\ disk.evidence.attested = n.evidence.attested
      BY <1>1, <1>7, <3>2 DEF SameBut
    <3> QED BY <1>4, <3>1, <3>3 DEF OnBaseline
  <2> QED BY <2>1, <2>2
<1>11. /\ disk'.run = n.run \/ (ToWrite("run") /\ f # "run")
       /\ disk'.baseline = n.baseline \/ (ToWrite("baseline") /\ f # "baseline")
       /\ disk'.verification = n.verification \/ (ToWrite("verification") /\ f # "verification")
       /\ disk'.restore = n.restore \/ (ToWrite("restore") /\ f # "restore")
       /\ disk'.evidence = n.evidence \/ (ToWrite("evidence") /\ f # "evidence")
  BY <1>1, <1>4 DEF Writing
<1>12. CASE Tail(work.todo) = << >> /\ AtRest' /\ open' = open \ Repaired
              /\ \A g : ToWrite(g) => g = f
  <2>1. disk' = n
    BY <1>1, <1>11, <1>12 DEF Contents
  <2>2. DrillTypeOK'
    BY <1>1, <1>2, <1>12, OneWrite DEF DrillTypeOK
  <2>3. open' \cup Busy' = O \ ({i} \ {Record})
    BY <1>12 DEF Busy, Repaired, Record
  <2>4. Whole(File) => Agree(disk', open' \cup Busy')
    BY <1>3, <2>1, <2>3
  <2>5. Agreement'
    BY <1>2, <1>12, <2>4
       DEF Agreement, Agree, SurfacesAgree, ChecksAgree, TargetsAgree, RecordsAgree,
           ActivationAgrees, RestoreIsWhole
  <2>6. InWork' /\ Activated'
    BY <1>2, <1>10, <1>12 DEF InWork, Activated, OnBaseline
  <2> QED BY <2>2, <2>5, <2>6
<1>13. CASE /\ Tail(work.todo) \in Seq(File) \ {<< >>} /\ ~AtRest' /\ open' = open
            /\ work' \in [item : Items, todo : Seq(File) \ {<< >>}, new : Contents(contract)]
            /\ work'.item = work.item /\ work'.new = work.new /\ work'.todo = Tail(work.todo)
  <2>1. DrillTypeOK'
    BY <1>1, <1>2, <1>13, OneWrite DEF DrillTypeOK
  <2>2. \A g : ToWrite(g) /\ g # f => ToWrite(g)'
    BY <1>13, NextWrite DEF ToWrite
  <2>3. Writing'
    <3>1. \A j \in 1 .. Len(work'.todo) : work'.todo[j] # "run"
      <4>1. /\ Len(work'.todo) = Len(work.todo) - 1 /\ Len(work.todo) \in Nat
            /\ \A j \in 1 .. Len(work'.todo) : work'.todo[j] = work.todo[j + 1]
        BY <1>13, OneWrite
      <4>2. \A j \in 1 .. Len(work'.todo) : j + 1 \in 2 .. Len(work.todo)
        BY <4>1
      <4> QED BY <1>1, <4>1, <4>2 DEF Writing
    <3>2. \A j \in 2 .. Len(work'.todo) : j \in 1 .. Len(work'.todo)
      BY <1>13
    <3> QED BY <1>11, <1>13, <2>2, <3>1, <3>2 DEF Writing
  <2>4. SameBut(work.item, disk, work.new)'
    BY <1>2, <1>8, <1>13 DEF SameBut
  <2>5. InWork'
    BY <1>2, <1>13, <2>3, <2>4 DEF InWork
  <2>6. Busy' = {i} /\ Repaired' = {i} \ {Record}
    BY <1>13 DEF Busy, Repaired, Record
  <2>7. Whole(File) => Agree(disk, open \cup Busy)' /\ Agree(work.new, open \ Repaired)'
    BY <1>2, <1>3, <1>9, <1>13, <2>6
       DEF Agree, SurfacesAgree, ChecksAgree, TargetsAgree, RecordsAgree, ActivationAgrees,
           RestoreIsWhole
  <2>8. Agreement'
    BY <1>2, <1>13, <2>7 DEF Agreement
  <2>9. Activated'
    BY <1>2, <1>3, <1>10, <1>13 DEF Activated, OnBaseline
  <2> QED BY <2>1, <2>5, <2>8, <2>9
<1> QED BY <1>12, <1>13, NextWrite

\* A kill rests the command.  A file that it loses takes part in no agreement.
LEMMA KillKeeps == DrillInv /\ KillCommand => DrillInv'
<1> SUFFICES ASSUME DrillInv, KillCommand PROVE DrillInv'
  OBVIOUS
<1> USE DrillAssumption DEF DrillInv
<1> DEFINE f == Head(work.todo)
           n == NewContents(contract)
<1>1. /\ ~AtRest /\ AtRest' /\ UNCHANGED contract /\ kills' \in 0 .. MaxKills
      /\ open' = open \cup ({work.item} \ {Snapshot})
      /\ \/ UNCHANGED <<file, disk>>
         \/ file' = [file EXCEPT ![f] = "lost"] /\ disk' = [disk EXCEPT ![f] = n[f]]
  BY DEF KillCommand, AtRest, Snapshot, DrillTypeOK
<1>2. /\ work.item \in Items /\ f \in File /\ disk \in Contents(contract)
      /\ contract \in Contracts /\ file \in [File -> {"absent", "whole", "lost"}]
  BY <1>1 DEF DrillTypeOK
<1>3. n \in Contents(contract) /\ \A O : Agree(n, O)
  BY <1>2, NewIsWhole
<1>4. Busy = {work.item} /\ Busy' = {}
  BY <1>1 DEF Busy
<1> HIDE DEF n, f
<1>5. CASE UNCHANGED <<file, disk>>
  <2>1. DrillTypeOK'
    BY <1>1, <1>2, <1>5 DEF DrillTypeOK
  <2>2. Whole(File) => Agree(disk, open' \cup Busy')
    <3>1. CASE work.item = Snapshot
      BY <1>1, <1>3, <3>1 DEF InWork, n
    <3>2. CASE work.item # Snapshot
      <4>1. open' \cup Busy' = open \cup Busy
        BY <1>1, <1>4, <3>2
      <4> QED BY <4>1 DEF Agreement
    <3> QED BY <3>1, <3>2
  <2>3. Agreement'
    BY <1>1, <1>5, <2>2
       DEF Agreement, Whole, Agree, SurfacesAgree, ChecksAgree, TargetsAgree, RecordsAgree,
           ActivationAgrees, RestoreIsWhole
  <2>4. InWork' /\ Activated'
    BY <1>1, <1>5 DEF InWork, Activated, OnBaseline
  <2> QED BY <2>1, <2>3, <2>4
<1>6. CASE file' = [file EXCEPT ![f] = "lost"] /\ disk' = [disk EXCEPT ![f] = n[f]]
  <2>1. /\ file'[f] = "lost" /\ file' \in [File -> {"absent", "whole", "lost"}]
        /\ \A g \in File : file'[g] = "whole" => file[g] = "whole" /\ g # f
    BY <1>2, <1>6
  <2>2. /\ disk' \in Contents(contract)
        /\ f # "run" => disk'.run = disk.run
        /\ f # "baseline" => disk'.baseline = disk.baseline
        /\ f # "evidence" => disk'.evidence = disk.evidence
    <3>1. CASE f = "run"
      <4>1. disk' = [disk EXCEPT !.run = n.run]
        BY <1>2, <1>3, <1>6, <3>1 DEF Contents
      <4> QED BY <1>2, <1>3, <3>1, <4>1 DEF Contents
    <3>2. CASE f = "baseline"
      <4>1. disk' = [disk EXCEPT !.baseline = n.baseline]
        BY <1>2, <1>3, <1>6, <3>2 DEF Contents
      <4> QED BY <1>2, <1>3, <3>2, <4>1 DEF Contents
    <3>3. CASE f = "verification"
      <4>1. disk' = [disk EXCEPT !.verification = n.verification]
        BY <1>2, <1>3, <1>6, <3>3 DEF Contents
      <4> QED BY <1>2, <1>3, <3>3, <4>1 DEF Contents
    <3>4. CASE f = "restore"
      <4>1. disk' = [disk EXCEPT !.restore = n.restore]
        BY <1>2, <1>3, <1>6, <3>4 DEF Contents
      <4> QED BY <1>2, <1>3, <3>4, <4>1 DEF Contents
    <3>5. CASE f = "evidence"
      <4>1. disk' = [disk EXCEPT !.evidence = n.evidence]
        BY <1>2, <1>3, <1>6, <3>5 DEF Contents
      <4> QED BY <1>2, <1>3, <3>5, <4>1 DEF Contents
    <3> QED BY <1>2, <3>1, <3>2, <3>3, <3>4, <3>5 DEF File
  <2>3. DrillTypeOK'
    BY <1>1, <1>2, <2>1, <2>2 DEF DrillTypeOK
  <2>4. ~Whole(File)'
    BY <1>2, <2>1 DEF Whole
  <2>5. Activated'
    BY <1>1, <2>1, <2>2 DEF Activated, OnBaseline, File
  <2> QED BY <1>1, <2>3, <2>4, <2>5 DEF InWork, Agreement
<1> QED BY <1>1, <1>5, <1>6

\* Every step of a drill recorded by hand keeps its invariant.
LEMMA DrillStep == DrillInv /\ [DrillNext]_drillVars => DrillInv'
<1> SUFFICES ASSUME DrillInv, [DrillNext]_drillVars PROVE DrillInv'
  OBVIOUS
<1>1. CASE DrillCommand
  BY <1>1, OpenKeeps, ActivateKeeps, RecordKeeps, AttestKeeps, VerifyKeeps, RestoreSurfaceKeeps
     DEF DrillCommand
<1>2. CASE WriteFile
  BY <1>2, SnapshotWrites, WriteKeeps
<1>3. CASE KillCommand
  BY <1>3, KillKeeps
<1>4. CASE UNCHANGED drillVars
  <2>1. /\ UNCHANGED <<contract, file, disk, work, open, kills>>
        /\ (AtRest' <=> AtRest) /\ (Written' <=> Written) /\ Busy' = Busy /\ Repaired' = Repaired
    BY <1>4 DEF drillVars, AtRest, Written, Busy, Repaired
  <2>2. DrillTypeOK' /\ InWork'
    BY <2>1 DEF DrillInv, DrillTypeOK, InWork, Writing, ToWrite, SameBut
  <2>3. Agreement' /\ Activated'
    BY <2>1 DEF DrillInv, Agreement, Activated, OnBaseline, Whole, Agree, SurfacesAgree, ChecksAgree,
                TargetsAgree, RecordsAgree, ActivationAgrees, RestoreIsWhole
  <2> QED BY <2>2, <2>3 DEF DrillInv
<1> QED BY <1>1, <1>2, <1>3, <1>4 DEF DrillNext

\* The invariant of a drill recorded by hand gives what it promises.
LEMMA DrillShown == DrillInv => DrillIsWhole /\ LedgersAgree
<1> SUFFICES ASSUME DrillInv PROVE DrillIsWhole /\ LedgersAgree
  OBVIOUS
<1> USE DEF DrillInv
<1>1. /\ disk \in Contents(contract) /\ contract.scope \subseteq contract.targets
  BY DEF DrillTypeOK, Contracts, ValidContract
<1>2. ActivatedOnBaseline
  BY DEF ActivatedOnBaseline, Activated, OnBaseline, Whole
<1>3. AtRest /\ Whole(File) => Agree(disk, open)
  BY WhatIsRead
<1>4. RestoreCoversScope
  BY <1>1, <1>3 DEF RestoreCoversScope, Agree, RestoreIsWhole
<1>5. LedgersAgree
  <2> SUFFICES ASSUME AtRest, Whole(File), Agree(disk, open) PROVE LedgersAgree
    BY <1>3 DEF LedgersAgree
  <2>1. disk.run.records \in Nat /\ disk.evidence.records \in Nat
    BY <1>1 DEF Contents
  <2> QED BY <2>1 DEF LedgersAgree, Agree, SurfacesAgree, ChecksAgree, TargetsAgree, RecordsAgree,
                      ActivationAgrees, Record, Activation
<1> QED BY <1>2, <1>4, <1>5 DEF DrillIsWhole

-----------------------------------------------------------------------------
(* Both kinds of run directory.                                            *)

RunInv == SessionInv /\ DrillInv

\* Both parts hold at the start: what is not there has done nothing.
LEMMA RunStarts == DrillsInit => RunInv
BY SessionInit, DrillStarts DEF DrillsInit, RunInv

\* A step of one kind leaves the other alone.
LEMMA RunStep == RunInv /\ [DrillsNext]_drillsVars => RunInv'
<1> SUFFICES ASSUME RunInv, [DrillsNext]_drillsVars PROVE RunInv'
  OBVIOUS
<1>1. [Next]_vars /\ [DrillNext]_drillVars
  BY DEF DrillsNext, ControlledStep, GenericStep, Apart, drillsVars
<1> QED BY <1>1, SessionStep, DrillStep DEF RunInv

\* Whatever is killed and however the commands overlap, the files of a run
\* directory are what its commands left: the inductive invariant holds.
THEOREM RunInvariant == DrillsSpec => []RunInv
BY RunStarts, RunStep, PTL DEF DrillsSpec

\* A scope that was released is empty and out of reach, a closure is about a
\* verified scope, and no execution ends inside its window without evidence,
\* although the executor and the retried cleanup share the scope
\* (controlled_proof.py execute, platform_drill.py cmd_controlled_cleanup).
THEOREM SessionAccounts == DrillsSpec => []SessionIsAccounted
<1>1. RunInv => SessionIsAccounted
  BY SessionShown DEF RunInv
<1> QED BY <1>1, RunInvariant, PTL

\* run.yaml, rewritten whole from an earlier read by four commands without a
\* lock, never claims more than the evidence files hold; and evidence.yaml and
\* the ledgers of a hand-recorded drill differ only in items whose command was
\* killed between two writes (platform_drill.py write_run).
THEOREM FilesAgree == DrillsSpec => []RunFilesAgree
<1>1. RunInv => RunFilesAgree
  BY SessionShown, DrillShown DEF RunInv, RunFilesAgree
<1> QED BY <1>1, RunInvariant, PTL

\* An activation was recorded on a baseline that both files attest, and a
\* restore that is recorded covers the scope, whichever of their commands was
\* killed half way (platform_drill.py cmd_activate, cmd_restore).
THEOREM DrillHolds == DrillsSpec => []DrillIsWhole
<1>1. RunInv => DrillIsWhole
  BY DrillShown DEF RunInv
<1> QED BY <1>1, RunInvariant, PTL

\* A result is written once, and passes only when every scenario and the
\* restore passed inside the window (controlled_proof.py build_result, platform_drill.py
\* cmd_controlled_finalize).
THEOREM ResultStands == DrillsSpec => ResultIsFinal
<1> DEFINE Passes == result # result' /\ result' = "passed" =>
             /\ Len(exec.outcomes) = Restore
             /\ \A k \in 1 .. Restore : exec.outcomes[k] = [status |-> "passed", late |-> FALSE]
             /\ now < Expires
           Immutable == result # None => result' = result
<1>1. RunInv /\ [DrillsNext]_drillsVars => [Passes]_vars
  BY PassingStep DEF RunInv, DrillsNext, ControlledStep, GenericStep, drillsVars
<1>2. RunInv /\ [DrillsNext]_drillsVars => [Immutable]_vars
  BY ImmutableStep DEF RunInv, DrillsNext, ControlledStep, GenericStep, drillsVars
<1>3. DrillsSpec => [][DrillsNext]_drillsVars
  BY PTL DEF DrillsSpec
<1>4. ResultIsFinal <=> [][Passes]_vars /\ [][Immutable]_vars
  BY DEF ResultIsFinal, PassesOnlyWhole, ResultIsImmutable
<1> QED BY <1>1, <1>2, <1>3, <1>4, RunInvariant, PTL
=============================================================================
