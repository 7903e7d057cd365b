------------------------ MODULE ConsoleRuntimeProofs ------------------------
(***************************************************************************)
(* Proofs about ConsoleRuntime, for any number of decisions, commands and   *)
(* faults, with and without durable orchestration.                         *)
(***************************************************************************)
EXTENDS ConsoleRuntime, SequenceTheorems, TLAPS

-----------------------------------------------------------------------------
(* The invariant: the way a command goes.                                  *)

\* The withdrawals of a rollback, once the renewal was stopped.
Withdrawing ==
  {"suspend", "withdraw", "release", "revoke", "unbind", "hide", "stop", "purge", "conclude"}

StepName ==
  Withdrawing \cup External \cup
    {"resolve", "offline", "policy", "activation", "mark", "admit", "maintain", "renewable",
     "stopRenewal", "forge", "restore", "kill", "proven"}

\* What each withdrawal follows, and other steps that rely on the one before.
Follows(x, y) ==
  /\ x = "stopRenewal" <=> y = "suspend"
  /\ x = "suspend" <=> y = "withdraw"
  /\ x = "withdraw" <=> y = "release"
  /\ x = "release" <=> y = "revoke"
  /\ x = "revoke" <=> y = "unbind"
  /\ x = "unbind" <=> y = "hide"
  /\ x = "hide" <=> y \in {"stop", "purge"}
  /\ x \in {"stop", "purge"} <=> y = "conclude"
  /\ x = "conclude" => y \in {"stopRenewal", "down"}
  /\ y = "down" => x = "conclude"
  /\ x = "down" => y = "resolve"
  /\ x = "resolve" => y \in {"offline", "policy"}
  /\ y = "offline" => x \in {"resolve", "activation"}
  /\ x = "policy" <=> y = "activation"
  /\ y = "policy" => x \in {"resolve", "offline"}
  /\ x = "admit" <=> y = "maintain"
  /\ x = "maintain" <=> y = "renewable"
  /\ y = "records" => x = "generation"
  /\ y = "compose" => x = "records"

\* Steps that are never the last of a command.
Inner ==
  (Withdrawing \ {"conclude"})
    \cup {"stopRenewal", "resolve", "offline", "policy", "admit", "maintain", "renewable"}

Link(s, i) ==
  /\ i < Len(s) => Follows(s[i], s[i + 1])
  /\ s[i] \in Inner => i < Len(s)
  /\ s[i] = "resolve" /\ s[i + 1] = "offline" => s[i + 2] = "policy"

Path(s) == s \in Seq(StepName) /\ \A i \in 1 .. Len(s) : Link(s, i)

-----------------------------------------------------------------------------
(* The invariant: what holds at each step.                                 *)

At == IF op.todo = << >> THEN "none" ELSE op.todo[1]

Receipts == [act : {"none", "active", "withdrawn"}, d : 0 .. Decisions, seen : BOOLEAN]

CommandName ==
  {"idle", "activate", "restart", "refresh", "rollback", "cleanup", "teardown", "verify",
   "connections"}

Op ==
  [cmd : CommandName, todo : Seq(StepName), d : 0 .. Decisions, failed : BOOLEAN,
   seen : BOOLEAN, unbound : BOOLEAN]

OpInv == op \in Op /\ Path(op.todo) /\ (op.cmd = "idle" <=> op.todo = << >>)

\* What holds whoever has the lock: the activation policy is there before the
\* unit is, and before the Console; the generation at work is the one on disk,
\* and was not retired.
StateInv ==
  /\ WorldOK
  /\ last \in Receipts
  /\ disk.unit /\ cluster.console # 0 => disk.activation # 0
  /\ durable.workers \in {0, durable.bundle}
  /\ RetiredStaysDown
  /\ durable.retired \subseteq 1 .. durable.bundle
  /\ durable.bundle <= decision

\* A command past its first step works for a decision, none older than the
\* generation on disk.
Undecided == Withdrawing \cup {"none", "resolve", "admit", "stopRenewal", "down"}

DecisionInv ==
  At \notin Undecided =>
    op.d \in Decision /\ op.d <= decision /\ durable.bundle <= op.d

\* It goes on with an activation policy, and with a generation that may work.
PolicyInv ==
  /\ At \notin Undecided \cup {"offline", "policy", "activation"} => disk.activation # 0
  /\ At = "offline" => disk.activation # 0 \/ op.todo[2] = "policy"
  /\ Durable /\ At \in {"records", "compose"} => durable.bundle \notin durable.retired

\* What a rollback that noted no failure has withdrawn so far.
Withdrawn ==
  /\ ~timer
  /\ At # "suspend" => durable.workers = 0
  /\ At \notin {"suspend", "withdraw"} => ~cluster.models
  /\ At \notin {"suspend", "withdraw", "release"} => ~cluster.records
  /\ op.seen => cluster.token = "none"
  /\ At \in {"hide", "stop", "purge", "conclude"} => cluster.bound = 0
  /\ At \in {"stop", "purge"} => ~disk.unit \/ cluster.console = 0
  /\ At = "conclude" =>
       /\ cluster.console = 0 /\ disk.marker = 0
       /\ provider = [enabled |-> FALSE, loaded |-> 0]

WithdrawalInv ==
  /\ At \in Withdrawing => last.act = "none" /\ (op.failed \/ Withdrawn)
  /\ At \notin {"unbind", "hide", "stop", "purge", "conclude"} => ~op.seen

\* After the receipt of an activation nothing but a withdrawal or another
\* resolution works for anything else.
ActiveInv ==
  last.act = "active" =>
    /\ ActivationIsWhole /\ last.d \in Decision
    /\ \/ At \in {"none", "resolve", "admit", "stopRenewal"}
       \/ op.d = last.d /\ At \notin Withdrawing

\* After the receipt of a withdrawal nothing gets past its first checks.
WithdrawnInv ==
  last.act = "withdrawn" =>
    /\ RollbackIsComplete
    /\ At \in {"none", "resolve", "stopRenewal", "admit", "maintain", "renewable", "down"}

IInv ==
  StateInv /\ OpInv /\ DecisionInv /\ PolicyInv /\ WithdrawalInv /\ ActiveInv /\ WithdrawnInv

-----------------------------------------------------------------------------
(* The plans.                                                              *)

\* A way from one step to another.
Way(s, x, y) == Path(s) /\ Len(s) > 0 /\ s[1] = x /\ s[Len(s)] = y

\* The steps of activate lead from the resolution to the confirmation.
LEMMA Activating == Way(ActivateSteps, "resolve", "confirm")
<1>1. Len(ActivateSteps) = 20 /\ ActivateSteps[1] = "resolve" /\ ActivateSteps[20] = "confirm"
  BY DEF ActivateSteps, Materialize
<1>2. ActivateSteps \in Seq(StepName)
  <2>1. <<"resolve", "offline">> \in Seq(StepName) /\ Materialize \in Seq(StepName)
    BY DEF Materialize, StepName, External
  <2>2. <<"supervise", "prepare", "generation", "records", "compose", "deliver",
    "workflows", "serve", "bind", "attach", "models", "console", "mark",
    "reload", "renewals", "confirm">> \in Seq(StepName)
    BY DEF StepName, External
  <2> QED BY <2>1, <2>2 DEF ActivateSteps
<1>3. ASSUME NEW i \in 1 .. 20 PROVE i < 20 => Follows(ActivateSteps[i], ActivateSteps[i+1])
  BY DEF ActivateSteps, Materialize, Follows
<1>4. ASSUME NEW i \in 1 .. 20 PROVE ActivateSteps[i] \in Inner => i < 20
  BY DEF ActivateSteps, Materialize, Inner, Withdrawing
<1>5. ASSUME NEW i \in 1 .. 20
      PROVE ActivateSteps[i] = "resolve" /\ ActivateSteps[i+1] = "offline" => ActivateSteps[i+2] = "policy"
  BY DEF ActivateSteps, Materialize
<1> QED BY <1>1, <1>2, <1>3, <1>4, <1>5 DEF Way, Path, Link

\* One way after another is a way, if the second may follow the first.
LEMMA Joining ==
  ASSUME NEW s, NEW t, NEW a, NEW x, NEW y, NEW b,
         Way(s, a, x), Way(t, y, b), Follows(x, y)
  PROVE  Way(s \o t, a, b)
<1> DEFINE u == s \o t
<1>1. /\ u \in Seq(StepName) /\ Len(u) = Len(s) + Len(t)
      /\ \A i \in 1 .. Len(s) : u[i] = s[i]
      /\ \A i \in 1 .. Len(t) : u[Len(s) + i] = t[i]
      /\ Len(s) \in Nat /\ Len(s) > 0 /\ Len(t) \in Nat /\ Len(t) > 0
  BY DEF Way, Path
<1> HIDE DEF u
<1>2. ASSUME NEW i \in 1 .. Len(s) PROVE Link(u, i)
  <2>1. Link(s, i) 
    BY DEF Way, Path
  <2>2. CASE i < Len(s)
    <3>1. i + 1 \in 1 .. Len(s) /\ u[i] = s[i] /\ u[i+1] = s[i+1] /\ Link(s, i + 1)
      BY <1>1, <2>2 DEF Way, Path
    <3>2. s[i + 1] = "offline" => u[i + 2] = s[i + 2]
      BY <1>1, <3>1 DEF Link, Inner
    <3> QED BY <1>1, <2>1, <2>2, <3>1, <3>2 DEF Link
  <2>3. CASE i = Len(s)
    <3>1. s[i] = x /\ u[i] = x /\ u[i + 1] = y /\ s[i] \notin Inner
      BY <1>1, <2>1, <2>3 DEF Way, Link
    <3> QED BY <1>1, <2>3, <3>1 DEF Link, Inner
  <2> QED BY <1>1, <2>2, <2>3
<1>3. ASSUME NEW j \in 1 .. Len(t) PROVE Link(u, Len(s) + j)
  <2>1. Link(t, j) /\ (j < Len(t) => Link(t, j + 1))
    BY <1>1 DEF Way, Path
  <2>2. u[Len(s) + j] = t[j] /\ (j < Len(t) => u[Len(s) + j + 1] = t[j + 1])
         /\ (j + 1 < Len(t) => u[Len(s) + j + 2] = t[j + 2])
    <3>1. j < Len(t) => u[Len(s) + (j + 1)] = t[j + 1]
      BY <1>1
    <3>2. j + 1 < Len(t) => u[Len(s) + (j + 2)] = t[j + 2]
      BY <1>1
    <3> QED BY <1>1, <3>1, <3>2
  <2> QED BY <1>1, <2>1, <2>2 DEF Link, Inner
<1>4. \A i \in 1 .. Len(u) : Link(u, i)
  <2> SUFFICES ASSUME NEW i \in 1 .. Len(u) PROVE Link(u, i)
    OBVIOUS
  <2>1. CASE i \in 1 .. Len(s)
    BY <1>2, <2>1
  <2>2. CASE i - Len(s) \in 1 .. Len(t)
    <3>1. Link(u, Len(s) + (i - Len(s)))
      BY <1>3, <2>2
    <3> QED BY <1>1, <3>1
  <2> QED BY <1>1, <2>1, <2>2
<1>5. u[1] = a /\ u[Len(u)] = b
  BY <1>1 DEF Way
<1> QED BY <1>1, <1>4, <1>5 DEF Way, Path, u

\* How long two lists of steps are together.
LEMMA Lengths ==
  ASSUME NEW s \in Seq(StepName), NEW t \in Seq(StepName)
  PROVE  s \o t \in Seq(StepName) /\ Len(s \o t) = Len(s) + Len(t)
OBVIOUS

\* Every command is such a way, and begins with a check or with the timer.
LEMMA Plans ==
  ASSUME NEW cmd \in CommandName \ {"idle"}
  PROVE  /\ Path(Plan(cmd)) /\ Plan(cmd) # << >>
         /\ Plan(cmd)[1] \in {"resolve", "admit", "stopRenewal"}
<1>1. Way(RestartSteps, "resolve", "confirm")
  <2>1. Len(RestartSteps) = 15 /\ RestartSteps[1] = "resolve" /\ RestartSteps[15] = "confirm"
    BY DEF RestartSteps, Materialize
  <2>2. RestartSteps \in Seq(StepName)
    <3>1. <<"resolve">> \in Seq(StepName) /\ Materialize \in Seq(StepName)
      BY DEF Materialize, StepName, External
    <3>2. <<"offline", "generation", "records", "deliver", "workflows", "relaunch",
            "rollout", "attach", "console", "mark", "renewals", "confirm">> \in Seq(StepName)
      BY DEF StepName, External
    <3> QED BY <3>1, <3>2 DEF RestartSteps
  <2>3. ASSUME NEW i \in 1 .. 15 PROVE i < 15 => Follows(RestartSteps[i], RestartSteps[i + 1])
    BY DEF RestartSteps, Materialize, Follows
  <2>4. ASSUME NEW i \in 1 .. 15 PROVE RestartSteps[i] \in Inner => i < 15
    BY DEF RestartSteps, Materialize, Inner, Withdrawing
  <2>5. ASSUME NEW i \in 1 .. 15
        PROVE  ~(RestartSteps[i] = "resolve" /\ RestartSteps[i + 1] = "offline")
    BY DEF RestartSteps, Materialize
  <2> QED BY <2>1, <2>2, <2>3, <2>4, <2>5 DEF Way, Path, Link
<1>2. Way(RenewSteps, "admit", "check")
  <2>1. RenewSteps \in Seq(StepName) /\ Len(RenewSteps) = 6
    BY DEF RenewSteps, StepName, External
  <2>2. ASSUME NEW i \in 1 .. 6
        PROVE  /\ i < 6 => Follows(RenewSteps[i], RenewSteps[i + 1])
               /\ RenewSteps[i] \in Inner => i < 6
               /\ RenewSteps[i] # "resolve"
    BY DEF RenewSteps, Follows, Inner, Withdrawing
  <2> QED BY <2>1, <2>2 DEF Way, Path, Link, RenewSteps
<1>3. Way(RollbackSteps, "stopRenewal", "conclude") /\ Way(CleanupSteps, "stopRenewal", "conclude")
  <2>1. /\ RollbackSteps \in Seq(StepName) /\ Len(RollbackSteps) = 9
        /\ CleanupSteps \in Seq(StepName) /\ Len(CleanupSteps) = 9
    <3>1. Withdrawals \in Seq(StepName) /\ Len(Withdrawals) = 7
      BY DEF Withdrawals, StepName, Withdrawing
    <3> DEFINE stop == <<"stop", "conclude">>
               purge == <<"purge", "conclude">>
    <3>2. /\ stop \in Seq(StepName) /\ Len(stop) = 2
          /\ purge \in Seq(StepName) /\ Len(purge) = 2
      BY DEF StepName, Withdrawing
    <3>3. RollbackSteps = Withdrawals \o stop /\ CleanupSteps = Withdrawals \o purge
      BY DEF RollbackSteps, CleanupSteps
    <3> HIDE DEF stop, purge
    <3>4. /\ Withdrawals \o stop \in Seq(StepName) /\ Len(Withdrawals \o stop) = 7 + 2
          /\ Withdrawals \o purge \in Seq(StepName) /\ Len(Withdrawals \o purge) = 7 + 2
      BY <3>1, <3>2, Lengths
    <3> QED BY <3>3, <3>4
  <2>2. ASSUME NEW i \in 1 .. 9
        PROVE  /\ i < 9 => Follows(RollbackSteps[i], RollbackSteps[i + 1])
               /\ RollbackSteps[i] \in Inner => i < 9
               /\ RollbackSteps[i] # "resolve"
    BY DEF RollbackSteps, Withdrawals, Follows, Inner, Withdrawing
  <2>3. ASSUME NEW i \in 1 .. 9
        PROVE  /\ i < 9 => Follows(CleanupSteps[i], CleanupSteps[i + 1])
               /\ CleanupSteps[i] \in Inner => i < 9
               /\ CleanupSteps[i] # "resolve"
    BY DEF CleanupSteps, Withdrawals, Follows, Inner, Withdrawing
  <2>4. /\ RollbackSteps[1] = "stopRenewal" /\ RollbackSteps[9] = "conclude"
        /\ CleanupSteps[1] = "stopRenewal" /\ CleanupSteps[9] = "conclude"
    BY DEF RollbackSteps, CleanupSteps, Withdrawals
  <2> QED BY <2>1, <2>2, <2>3, <2>4 DEF Way, Path, Link
<1>4. Way(TeardownSteps, "stopRenewal", "down")
  <2>1. Way(<<"down">>, "down", "down")
    BY DEF Way, Path, Link, StepName, External, Inner, Withdrawing
  <2> QED BY <1>3, <2>1, Joining DEF TeardownSteps, Follows
<1>5. Way(ConnectionSteps, "resolve", "liaise")
  <2>1. ConnectionSteps \in Seq(StepName) /\ Len(ConnectionSteps) = 4
    <3> DEFINE resolve == <<"resolve">>
               liaise == <<"liaise">>
    <3>1. /\ resolve \in Seq(StepName) /\ Len(resolve) = 1
          /\ liaise \in Seq(StepName) /\ Len(liaise) = 1
          /\ Materialize \in Seq(StepName) /\ Len(Materialize) = 2
      BY DEF StepName, External, Materialize
    <3>2. ConnectionSteps = resolve \o Materialize \o liaise
      BY DEF ConnectionSteps
    <3> HIDE DEF resolve, liaise
    <3>3. resolve \o Materialize \in Seq(StepName) /\ Len(resolve \o Materialize) = 1 + 2
      BY <3>1, Lengths
    <3>4. /\ resolve \o Materialize \o liaise \in Seq(StepName)
          /\ Len(resolve \o Materialize \o liaise) = 1 + 2 + 1
      BY <3>1, <3>3, Lengths
    <3> QED BY <3>2, <3>4
  <2>2. ASSUME NEW i \in 1 .. 4
        PROVE  /\ i < 4 => Follows(ConnectionSteps[i], ConnectionSteps[i + 1])
               /\ ConnectionSteps[i] \in Inner => i < 4
               /\ ConnectionSteps[i] = "resolve" => ConnectionSteps[i + 1] # "offline"
    BY DEF ConnectionSteps, Materialize, Follows, Inner, Withdrawing
  <2>3. ConnectionSteps[1] = "resolve" /\ ConnectionSteps[4] = "liaise"
    BY DEF ConnectionSteps, Materialize
  <2> QED BY <2>1, <2>2, <2>3 DEF Way, Path, Link
<1>6. Path(ProofSteps) /\ ProofSteps # << >> /\ ProofSteps[1] = "resolve"
  <2> DEFINE renew == <<"admit", "maintain", "renewable", "deliver", "workflows", "check">>
             stale == <<"forge", "restore", "kill">>
             end == <<"proven">>
  <2>1. Way(renew, "admit", "check")
    <3>1. renew \in Seq(StepName) /\ Len(renew) = 6
      BY DEF StepName, External
    <3>2. ASSUME NEW i \in 1 .. 6
          PROVE  /\ i < 6 => Follows(renew[i], renew[i + 1])
                 /\ renew[i] \in Inner => i < 6
                 /\ renew[i] # "resolve"
      BY DEF Follows, Inner, Withdrawing
    <3> QED BY <3>1, <3>2 DEF Way, Path, Link
  <2>2. Way(stale, "forge", "kill") /\ Way(end, "proven", "proven")
    BY DEF Way, Path, Link, Follows, StepName, Inner, Withdrawing
  <2> HIDE DEF renew, stale, end
  <2>3. Way(ActivateSteps \o renew, "resolve", "check")
    BY <2>1, Activating, Joining DEF Follows
  <2>4. Way(ActivateSteps \o renew \o stale, "resolve", "kill")
    BY <2>2, <2>3, Joining DEF Follows
  <2>5. Way(ActivateSteps \o renew \o stale \o RestartSteps, "resolve", "confirm")
    BY <1>1, <2>4, Joining DEF Follows
  <2>6. Way(ActivateSteps \o renew \o stale \o RestartSteps \o RollbackSteps,
            "resolve", "conclude")
    BY <1>3, <2>5, Joining DEF Follows
  <2>7. Way(ActivateSteps \o renew \o stale \o RestartSteps \o RollbackSteps
              \o TeardownSteps, "resolve", "down")
    BY <1>4, <2>6, Joining DEF Follows
  <2>8. Way(ActivateSteps \o renew \o stale \o RestartSteps \o RollbackSteps
              \o TeardownSteps \o ActivateSteps, "resolve", "confirm")
    BY <2>7, Activating, Joining DEF Follows
  <2>9. Way(ActivateSteps \o renew \o stale \o RestartSteps \o RollbackSteps
              \o TeardownSteps \o ActivateSteps \o end, "resolve", "proven")
    BY <2>2, <2>8, Joining DEF Follows
  <2>10. ProofSteps = ActivateSteps \o renew \o stale \o RestartSteps \o RollbackSteps
                        \o TeardownSteps \o ActivateSteps \o end
    BY DEF ProofSteps, renew, stale, end
  <2> QED BY <2>9, <2>10 DEF Way
<1>7. \A s, x, y : Way(s, x, y) => Path(s) /\ s # << >> /\ s[1] = x
  BY DEF Way, Path
<1>8. CASE cmd = "activate"
  <2>1. Plan(cmd) = ActivateSteps
    BY <1>8 DEF Plan
  <2> QED BY <1>7, <2>1, Activating
<1>9. CASE cmd = "restart"
  <2>1. Plan(cmd) = RestartSteps
    BY <1>9 DEF Plan
  <2> QED BY <1>1, <1>7, <2>1
<1>10. CASE cmd = "refresh"
  <2>1. Plan(cmd) = RenewSteps
    BY <1>10 DEF Plan
  <2> QED BY <1>2, <1>7, <2>1
<1>11. CASE cmd = "rollback"
  <2>1. Plan(cmd) = RollbackSteps
    BY <1>11 DEF Plan
  <2> QED BY <1>3, <1>7, <2>1
<1>12. CASE cmd = "cleanup"
  <2>1. Plan(cmd) = CleanupSteps
    BY <1>12 DEF Plan
  <2> QED BY <1>3, <1>7, <2>1
<1>13. CASE cmd = "teardown"
  <2>1. Plan(cmd) = TeardownSteps
    BY <1>13 DEF Plan
  <2> QED BY <1>4, <1>7, <2>1
<1>14. CASE cmd = "verify"
  <2>1. Plan(cmd) = ProofSteps
    BY <1>14 DEF Plan
  <2> QED BY <1>6, <2>1
<1>15. CASE cmd = "connections"
  <2>1. Plan(cmd) = ConnectionSteps
    BY <1>15 DEF Plan
  <2> QED BY <1>5, <1>7, <2>1
<1> QED BY <1>8, <1>9, <1>10, <1>11, <1>12, <1>13, <1>14, <1>15 DEF CommandName
-----------------------------------------------------------------------------
(* How a command moves.                                                    *)

\* The command goes on to its next step.
Onward ==
  /\ op.todo # << >> /\ op'.todo = Tail(op.todo) /\ op'.todo # << >>
  /\ op' \in Op /\ op'.cmd = op.cmd

\* A command that ends, succeeds or not, leaves the lock.
LEMMA Idling ==
  ASSUME op' = Idle
  PROVE  /\ OpInv' /\ At' = "none"
         /\ op'.d = 0 /\ ~op'.seen /\ ~op'.failed
<1>1. << >> \in Seq(StepName) /\ Len(<< >>) = 0
  OBVIOUS
<1>2. Idle \in Op /\ Idle.todo = << >> /\ Idle.cmd = "idle"
  BY <1>1, BoundsAssumption DEF Idle, Op, CommandName, NoDecision
<1>3. Path(Idle.todo)
  BY <1>1, <1>2 DEF Path
<1> QED BY <1>2, <1>3 DEF OpInv, At, Idle, NoDecision

\* The step that follows, and the way that is left.
LEMMA Onwards ==
  ASSUME OpInv, Onward
  PROVE  /\ OpInv' /\ At' \in StepName /\ At \in StepName /\ Follows(At, At')
         /\ At = "offline" => At' = op.todo[2]
         /\ At = "resolve" /\ At' = "offline" => op'.todo[2] = "policy"
<1> DEFINE s == op.todo
           t == Tail(s)
<1>1. s \in Seq(StepName) /\ Path(s) /\ s # << >> /\ t # << >> /\ op' \in Op /\ op'.todo = t
  BY DEF OpInv, Onward, Path, Op
<1>2. /\ t \in Seq(StepName) /\ Len(t) = Len(s) - 1 /\ Len(s) > 1 /\ Len(s) \in Nat
      /\ \A i \in 1 .. Len(t) : t[i] = s[i + 1]
  BY <1>1
<1> HIDE DEF s, t
<1>3. ASSUME NEW i \in 1 .. Len(t) PROVE Link(t, i)
  <2>1. Link(s, i + 1) /\ t[i] = s[i + 1]
    BY <1>1, <1>2 DEF Path
  <2>2. i < Len(t) => t[i + 1] = s[i + 2] /\ Link(s, i + 2)
    BY <1>1, <1>2 DEF Path
  <2>3. i + 1 < Len(t) => t[i + 2] = s[i + 3]
    BY <1>1, <1>2
  <2> QED BY <1>2, <2>1, <2>2, <2>3 DEF Link, Inner
<1>4. Path(t)
  BY <1>2, <1>3 DEF Path
<1>5. Link(s, 1) /\ t[1] = s[2] /\ 1 < Len(s) /\ s[1] \in StepName /\ t[1] \in StepName
  BY <1>1, <1>2 DEF Path
<1>6. Follows(s[1], t[1])
  BY <1>5 DEF Link
<1>7. s[1] = "resolve" /\ t[1] = "offline" => t[2] = "policy"
  <2>1. t[1] = "offline" => 2 \in 1 .. Len(t)
    BY <1>2, <1>4 DEF Path, Link, Inner
  <2> QED BY <1>2, <1>5, <2>1 DEF Link
<1>8. At = s[1] /\ At' = t[1]
  BY <1>1 DEF At, s, t
<1>9. op'.cmd = "idle" <=> op'.todo = << >>
  BY <1>1 DEF OpInv, Onward, s
<1> QED BY <1>1, <1>4, <1>5, <1>6, <1>7, <1>8, <1>9 DEF OpInv, s, t

\* What is left of a list of steps.
LEMMA Leaving ==
  ASSUME NEW s \in Seq(StepName), s # << >>, Len(s) # 1
  PROVE  Tail(s) \in Seq(StepName) /\ Tail(s) # << >>
<1>1. Len(s) \in Nat \ {0} /\ Len(<< >>) = 0
  BY EmptySeq
<1>2. Tail(s) \in Seq(StepName) /\ Len(Tail(s)) = Len(s) - 1
  BY HeadTailProperties
<1>3. Len(Tail(s)) # 0
  BY <1>1, <1>2
<1> QED BY <1>1, <1>2, <1>3

\* A step that never ends a command goes on, whatever it notes.
LEMMA GoingOn ==
  ASSUME OpInv, op.todo # << >>, At \in Inner, op'.todo = Tail(op.todo),
         op' \in Op, op'.cmd = op.cmd
  PROVE  Onward
<1>1. Link(op.todo, 1) /\ op.todo \in Seq(StepName) /\ At = op.todo[1]
  BY DEF OpInv, Path, At
<1>2. Len(op.todo) # 1
  BY <1>1 DEF Link
<1>3. Tail(op.todo) # << >>
  BY <1>1, <1>2, Leaving
<1> QED BY <1>3 DEF Onward

\* A step that succeeds ends the command, or goes on with it as it is.
LEMMA Proceeding ==
  ASSUME OpInv, op.todo # << >>, Proceed
  PROVE  \/ op' = Idle /\ At \notin Inner
         \/ Onward /\ op'.d = op.d /\ op'.failed = op.failed /\ op'.seen = op.seen
<1>1. op \in Op /\ op.todo \in Seq(StepName) /\ Link(op.todo, 1) /\ At = op.todo[1]
  BY DEF OpInv, Path, At, Op
<1>2. CASE Len(op.todo) = 1
  BY <1>1, <1>2 DEF Proceed, Link
<1>3. CASE Len(op.todo) # 1
  <2>1. op' = [op EXCEPT !.todo = Tail(op.todo)]
    BY <1>3 DEF Proceed
  <2>2. Tail(op.todo) \in Seq(StepName) /\ Tail(op.todo) # << >>
    BY <1>1, <1>3, Leaving
  <2>3. op' \in Op /\ op'.todo = Tail(op.todo) /\ op'.cmd = op.cmd
        /\ op'.d = op.d /\ op'.failed = op.failed /\ op'.seen = op.seen
    BY <1>1, <2>1, <2>2 DEF Op
  <2> QED BY <2>2, <2>3 DEF Onward
<1> QED BY <1>2, <1>3

\* The step at hand.
LEMMA AtHand ==
  ASSUME OpInv, NEW step, Now(step)
  PROVE  At = step /\ op.todo # << >> /\ op.cmd # "idle"
BY DEF OpInv, Now, At, Path

-----------------------------------------------------------------------------
(* Steps of activate, restart, the renewal and the operating proof.        *)

\* The command ends, or goes on for the same decision.
Ended == op' = Idle
Continued ==
  Onward /\ op'.d = op.d /\ op'.failed = op.failed /\ op'.seen = op.seen

\* What such a step finds.
LEMMA Working ==
  ASSUME IInv, NEW step, Now(step), step \notin Undecided, Proceed \/ Abort
  PROVE  /\ At = step /\ (Ended \/ Continued)
         /\ op.d \in Decision /\ op.d <= decision /\ durable.bundle <= op.d
         /\ last.act = "active" => ActivationIsWhole /\ op.d = last.d
         /\ last.act = "withdrawn" => RollbackIsComplete /\ step \in {"maintain", "renewable"}
<1>1. At = step /\ op.todo # << >>
  BY AtHand DEF IInv
<1>2. Ended \/ Continued
  BY <1>1, Proceeding DEF IInv, Abort, Ended, Continued
<1>3. At \notin {"none", "resolve", "stopRenewal", "admit", "down"}
  BY <1>1 DEF Undecided
<1> QED BY <1>1, <1>2, <1>3 DEF IInv, DecisionInv, ActiveInv, WithdrawnInv

\* It keeps the invariant when what it writes is of its own decision, when it
\* prepares only a generation that may work, and when it keeps what an
\* earlier receipt says.
LEMMA OrdinaryStep ==
  ASSUME IInv, At \notin Undecided, Ended \/ Continued, StateInv', decision' = decision,
         disk'.activation \in {disk.activation, op.d},
         At = "activation" => disk'.activation = op.d,
         durable'.retired = durable.retired,
         durable'.bundle \in {durable.bundle, op.d},
         At # "generation" => durable'.bundle = durable.bundle,
         At = "generation" /\ Continued /\ Durable => durable'.bundle \notin durable.retired,
         \/ last' = last
         \/ last'.act = "none"
         \/ last'.act = "active" /\ last'.d = op.d,
         last'.act = "active" => ActivationIsWhole',
         last'.act = "withdrawn" => RollbackIsComplete' /\ (At = "maintain" \/ Ended)
  PROVE  IInv'
<1>1. /\ op.d \in Decision /\ op.d <= decision /\ durable.bundle <= op.d
      /\ last.act = "active" => op.d = last.d
      /\ ~op.seen
  BY DEF IInv, DecisionInv, ActiveInv, WithdrawalInv, Undecided, Withdrawing
<1>2. CASE Ended
  <2>1. OpInv' /\ At' = "none" /\ ~op'.seen
    BY <1>2, Idling DEF Ended
  <2>2. last'.act = "active" => last'.d \in Decision
    BY <1>1 DEF IInv, ActiveInv
  <2> QED BY <2>1, <2>2 DEF IInv, DecisionInv, PolicyInv, WithdrawalInv, ActiveInv, WithdrawnInv,
                            Undecided, Withdrawing
<1>3. CASE Continued
  <2>1. /\ OpInv' /\ At' \in StepName /\ Follows(At, At')
        /\ At = "offline" => At' = op.todo[2]
        /\ op'.d = op.d /\ op'.seen = op.seen
    BY <1>3, Onwards DEF Continued, IInv
  <2>2. At' \notin Withdrawing \cup {"none", "down"}
    BY <2>1 DEF Follows, Undecided, Withdrawing, StepName, External
  <2>3. DecisionInv'
    <3>1. op'.d \in Decision' /\ op'.d <= decision' /\ durable'.bundle <= op'.d
      BY <1>1, <2>1 DEF Decision, IInv, StateInv, WorldOK
    <3> QED BY <3>1 DEF DecisionInv
  <2>4. PolicyInv'
    <3>1. disk.activation # 0 => disk'.activation # 0
      BY <1>1 DEF Decision
    <3>2. At' \notin Undecided \cup {"offline", "policy", "activation"} => disk'.activation # 0
      <4>1. CASE At = "offline"
        BY <2>1, <3>1, <4>1 DEF IInv, PolicyInv
      <4>2. CASE At = "policy"
        BY <2>1, <4>2 DEF Follows
      <4>3. CASE At = "activation"
        BY <1>1, <4>3 DEF Decision
      <4>4. CASE At \notin {"offline", "policy", "activation"}
        BY <3>1, <4>4 DEF IInv, PolicyInv
      <4> QED BY <4>1, <4>2, <4>3, <4>4
    <3>3. At' = "offline" => disk'.activation # 0
      <4>1. At' = "offline" => At = "activation"
        BY <2>1 DEF Follows, Undecided
      <4> QED BY <1>1, <4>1 DEF Decision
    <3>4. Durable /\ At' \in {"records", "compose"} => durable'.bundle \notin durable'.retired
      <4>1. At' = "records" => At = "generation"
        BY <2>1 DEF Follows
      <4>2. At' = "compose" => At = "records"
        BY <2>1 DEF Follows
      <4> QED BY <1>3, <4>1, <4>2 DEF IInv, PolicyInv
    <3> QED BY <3>2, <3>3, <3>4 DEF PolicyInv
  <2>5. WithdrawalInv'
    BY <1>1, <2>1, <2>2 DEF WithdrawalInv
  <2>6. ActiveInv'
    <3>1. last'.act = "active" => last'.d = op'.d /\ last'.d \in Decision
      BY <1>1, <2>1
    <3> QED BY <2>2, <3>1 DEF ActiveInv, Withdrawing
  <2>7. WithdrawnInv'
    <3>1. last'.act = "withdrawn" => At' = "renewable"
      <4>1. last'.act = "withdrawn" /\ Ended => At' = "none"
        BY Idling DEF Ended
      <4> QED BY <2>1, <2>2, <4>1 DEF Follows
    <3> QED BY <3>1 DEF WithdrawnInv
  <2> QED BY <2>1, <2>3, <2>4, <2>5, <2>6, <2>7 DEF IInv
<1> QED BY <1>2, <1>3

\* Steps that write nothing the invariant speaks of.
LEMMA QuietStep ==
  ASSUME IInv, NEW step, Now(step), step \notin Undecided \cup {"activation", "generation"},
         Proceed \/ Abort, (step = "renewable" /\ RenewalRefused) => Abort,
         UNCHANGED <<decision, accepted, watch, owners, local, disk, last>>, wanted' \in BOOLEAN
  PROVE  IInv'
<1>1. /\ At = step /\ (Ended \/ Continued) /\ op.d \in Decision
      /\ last.act = "active" => ActivationIsWhole /\ op.d = last.d
      /\ last.act = "withdrawn" => RollbackIsComplete /\ step \in {"maintain", "renewable"}
  BY Working
<1>2. StateInv'
  BY DEF IInv, StateInv, WorldOK, RetiredStaysDown, owners, local
<1>3. last'.act = "active" => ActivationIsWhole'
  BY <1>1 DEF ActivationIsWhole, Materialized, GenerationReady, owners, local
<1>4. last'.act = "withdrawn" => RollbackIsComplete' /\ (At = "maintain" \/ Ended)
  <2>1. last.act = "withdrawn" => disk.marker = 0
    BY <1>1 DEF RollbackIsComplete
  <2>2. last.act = "withdrawn" /\ step = "renewable" => Ended
    BY <1>1, <2>1 DEF RenewalRefused, Decision, Abort, Ended
  <2>3. last'.act = "withdrawn" => RollbackIsComplete'
    BY <1>1 DEF RollbackIsComplete, owners, local
  <2> QED BY <1>1, <2>2, <2>3
<1> QED BY <1>1, <1>2, <1>3, <1>4, OrdinaryStep DEF owners

\* The checks, and the preparations nothing relies on yet.
LEMMA QuietSteps ==
  ASSUME IInv, Prepare \/ RefreshRecords \/ Liaise \/ Maintain \/ Renewable \/ Check
  PROVE  IInv'
<1> USE DEF world, Undecided, Withdrawing
<1>1. CASE Prepare
  BY <1>1, QuietStep DEF Prepare, IInv, StateInv, WorldOK
<1>2. CASE RefreshRecords
  BY <1>2, QuietStep DEF RefreshRecords, IInv, StateInv, WorldOK
<1>3. CASE Liaise
  BY <1>3, QuietStep DEF Liaise, IInv, StateInv, WorldOK
<1>4. CASE Maintain
  BY <1>4, QuietStep DEF Maintain, IInv, StateInv, WorldOK
<1>5. CASE Renewable
  BY <1>5, QuietStep DEF Renewable, IInv, StateInv, WorldOK
<1>6. CASE Check
  BY <1>6, QuietStep DEF Check, IInv, StateInv, WorldOK
<1> QED BY <1>1, <1>2, <1>3, <1>4, <1>5, <1>6

\* What is on disk, as in WorldOK.
Files ==
  [policy : 0 .. Decisions, activation : 0 .. Decisions, marker : 0 .. Forged,
   online : 0 .. Decisions, proof : 0 .. Decisions, unit : BOOLEAN, dropin : BOOLEAN]

\* Steps that write files: the policies and the marker of their own decision.
LEMMA FileStep ==
  ASSUME IInv, NEW step, Now(step),
         step \notin Undecided \cup {"maintain", "renewable", "generation"}, Proceed \/ Abort,
         disk' \in Files,
         disk'.policy \in {disk.policy, op.d}, disk'.activation \in {disk.activation, op.d},
         step = "activation" => disk'.activation = op.d, disk'.unit = disk.unit,
         disk'.marker \in {disk.marker, op.d} \/ last' = NoReceipt,
         last' \in {last, NoReceipt}, UNCHANGED <<world, owners, local>>
  PROVE  IInv'
<1>1. /\ At = step /\ (Ended \/ Continued) /\ op.d \in Decision
      /\ last.act = "active" => ActivationIsWhole /\ op.d = last.d
      /\ last.act # "withdrawn"
  BY Working
<1>2. StateInv'
  <2>1. WorldOK'
    BY DEF IInv, StateInv, WorldOK, Files, Forged, world, owners, local
  <2>2. last' \in Receipts
    <3>1. NoReceipt \in Receipts
      BY BoundsAssumption DEF Receipts, NoReceipt, NoDecision
    <3> QED BY <3>1 DEF IInv, StateInv
  <2>3. disk'.unit /\ cluster'.console # 0 => disk'.activation # 0
    BY <1>1 DEF IInv, StateInv, Decision, owners
  <2> QED BY <2>1, <2>2, <2>3 DEF IInv, StateInv, RetiredStaysDown, world, owners
<1>3. last'.act = "active" => ActivationIsWhole'
  BY <1>1 DEF ActivationIsWhole, Materialized, GenerationReady, owners, local, NoReceipt
<1>4. last'.act # "withdrawn"
  BY <1>1 DEF NoReceipt
<1> QED BY <1>1, <1>2, <1>3, <1>4, OrdinaryStep DEF owners, world, NoReceipt

\* The policies, the supervisor, the markers and the proof on disk.
LEMMA FileSteps ==
  ASSUME IInv, \/ GoOffline \/ WritePolicy \/ WriteActivation \/ Supervise \/ Mark
               \/ ForgeMarker \/ RestoreMarker \/ Proven
  PROVE  IInv'
<1>1. ASSUME NEW step, Now(step), step \notin Undecided, Proceed
      PROVE  op.d \in 0 .. Decisions /\ op.d \in 0 .. Forged
  BY <1>1, Working, BoundsAssumption DEF Decision, Forged
<1>2. disk \in Files /\ 0 \in 0 .. Decisions /\ Forged \in 0 .. Forged
  BY BoundsAssumption DEF IInv, StateInv, WorldOK, Files, Forged
<1> USE DEF Undecided, Withdrawing
<1>3. CASE GoOffline
  <2>1. disk' \in Files
    BY <1>2, <1>3 DEF GoOffline, Files
  <2> QED BY <1>2, <1>3, <2>1, FileStep DEF GoOffline, Files
<1>4. CASE WritePolicy
  <2>1. disk' \in Files
    BY <1>1, <1>2, <1>4 DEF WritePolicy, Files
  <2> QED BY <1>2, <1>4, <2>1, FileStep DEF WritePolicy, Files
<1>5. CASE WriteActivation
  <2>1. disk' \in Files
    BY <1>1, <1>2, <1>5 DEF WriteActivation, Files
  <2> QED BY <1>2, <1>5, <2>1, FileStep DEF WriteActivation, Files
<1>6. CASE Supervise
  <2>1. disk' \in Files
    BY <1>2, <1>6 DEF Supervise, Files
  <2> QED BY <1>2, <1>6, <2>1, FileStep DEF Supervise, Files
<1>7. CASE Mark
  <2>1. disk' \in Files
    BY <1>1, <1>2, <1>7 DEF Mark, Files
  <2> QED BY <1>2, <1>7, <2>1, FileStep DEF Mark, Files
<1>8. CASE ForgeMarker
  <2>1. disk' \in Files
    BY <1>2, <1>8 DEF ForgeMarker, Files
  <2> QED BY <1>2, <1>8, <2>1, FileStep DEF ForgeMarker, Files
<1>9. CASE RestoreMarker
  <2>1. disk' \in Files
    BY <1>1, <1>2, <1>9 DEF RestoreMarker, Files
  <2> QED BY <1>2, <1>9, <2>1, FileStep DEF RestoreMarker, Files
<1>10. CASE Proven
  <2>1. disk' \in Files
    BY <1>1, <1>2, <1>10 DEF Proven, Files
  <2> QED BY <1>2, <1>10, <2>1, FileStep DEF Proven, Files
<1> QED BY <1>3, <1>4, <1>5, <1>6, <1>7, <1>8, <1>9, <1>10

\* What the deployments hold, as in WorldOK.
Deployments ==
  [up : BOOLEAN, bound : 0 .. Decisions, token : {"none", "fresh", "due", "dead"},
   used : BOOLEAN, console : 0 .. Decisions, records : BOOLEAN, models : BOOLEAN]

\* Steps that change them: they bind their own decision, start the Console of
\* the policy on disk, and leave no token behind.
LEMMA ClusterStep ==
  ASSUME IInv, NEW step, Now(step),
         step \notin Undecided \cup {"maintain", "renewable", "generation", "activation"},
         Proceed \/ Abort,
         cluster' \in Deployments,
         cluster'.console \in {cluster.console, disk.activation},
         cluster'.bound \in {cluster.bound, op.d},
         cluster.token # "none" => cluster'.token # "none",
         UNCHANGED <<world, durable, local, disk, last>>
  PROVE  IInv'
<1>1. /\ At = step /\ (Ended \/ Continued) /\ op.d \in Decision
      /\ last.act = "active" => ActivationIsWhole /\ op.d = last.d
      /\ last.act # "withdrawn"
  BY Working
<1>2. StateInv'
  <2>1. WorldOK'
    BY DEF IInv, StateInv, WorldOK, Deployments, world, local
  <2>2. disk'.unit /\ cluster'.console # 0 => disk'.activation # 0
    BY DEF IInv, StateInv
  <2> QED BY <2>1, <2>2 DEF IInv, StateInv, RetiredStaysDown, world
<1>3. last'.act = "active" => ActivationIsWhole'
  BY <1>1 DEF ActivationIsWhole, Materialized, GenerationReady, local, Decision
<1> QED BY <1>1, <1>2, <1>3, OrdinaryStep DEF world

\* Credentials, bindings and deployments.
LEMMA ClusterSteps ==
  ASSUME IInv, \/ Deliver \/ RenewWorkflows \/ Bind \/ AttachRecords \/ BindModels
               \/ StartConsole \/ Rollout \/ Renew
  PROVE  IInv'
<1>1. cluster \in Deployments /\ disk.activation \in 0 .. Decisions
  BY DEF IInv, StateInv, WorldOK, Deployments
<1>2. Delivered \in Deployments
  BY <1>1 DEF Deployments, Delivered
<1>3. /\ Delivered.console = cluster.console /\ Delivered.bound = cluster.bound
      /\ Delivered.token # "none"
  BY <1>1 DEF Deployments, Delivered
<1>4. [cluster EXCEPT !.used = TRUE] \in Deployments
  BY <1>1 DEF Deployments
<1> USE DEF Undecided, Withdrawing
<1>5. CASE Deliver
  BY <1>2, <1>3, <1>5, ClusterStep DEF Deliver
<1>6. CASE RenewWorkflows
  BY <1>1, <1>4, <1>6, ClusterStep DEF RenewWorkflows, Deployments
<1>7. CASE Bind
  <2>1. Now("bind") /\ (Proceed \/ Abort) /\ UNCHANGED <<world, durable, local, disk, last>>
    BY <1>7 DEF Bind
  <2>2. op.d \in 0 .. Decisions
    BY <2>1, Working, BoundsAssumption DEF Decision
  <2>3. /\ cluster' \in Deployments
        /\ cluster'.console = cluster.console /\ cluster'.bound \in {cluster.bound, op.d}
        /\ cluster'.token = cluster.token
    BY <1>1, <1>7, <2>2 DEF Bind, Deployments
  <2> QED BY <2>1, <2>3, ClusterStep
<1>8. CASE AttachRecords
  <2>1. [cluster EXCEPT !.records = TRUE] \in Deployments
    BY <1>1 DEF Deployments
  <2> QED BY <1>1, <1>8, <2>1, ClusterStep DEF AttachRecords, Deployments
<1>9. CASE BindModels
  <2>1. [cluster EXCEPT !.models = TRUE] \in Deployments
    BY <1>1 DEF Deployments
  <2> QED BY <1>1, <1>9, <2>1, ClusterStep DEF BindModels, Deployments
<1>10. CASE StartConsole
  <2>1. [cluster EXCEPT !.console = disk.activation] \in Deployments
    BY <1>1 DEF Deployments
  <2> QED BY <1>1, <1>10, <2>1, ClusterStep DEF StartConsole, Deployments
<1>11. CASE Rollout
  BY <1>1, <1>4, <1>11, ClusterStep DEF Rollout, Deployments
<1>12. CASE Renew
  BY <1>1, <1>2, <1>3, <1>12, ClusterStep DEF Renew
<1> QED BY <1>5, <1>6, <1>7, <1>8, <1>9, <1>10, <1>11, <1>12

\* Steps that start the provider: it loads the policy on disk or exits.
LEMMA ProviderStep ==
  ASSUME IInv, NEW step, Now(step),
         step \notin Undecided \cup
           {"maintain", "renewable", "generation", "offline", "policy", "activation"},
         Proceed \/ Abort,
         provider' \in [enabled : BOOLEAN, loaded : {provider.loaded, Loads}],
         disk' \in {disk, [disk EXCEPT !.unit = TRUE]},
         UNCHANGED <<world, owners, timer, renewal, last>>
  PROVE  IInv'
<1>1. /\ At = step /\ (Ended \/ Continued) /\ op.d \in Decision
      /\ last.act = "active" => ActivationIsWhole /\ op.d = last.d
      /\ last.act # "withdrawn"
  BY Working
<1>2. disk.activation # 0
  BY <1>1 DEF IInv, PolicyInv
<1>3. /\ disk' \in Files
      /\ disk'.policy = disk.policy /\ disk'.activation = disk.activation
      /\ disk'.marker = disk.marker
  <2>1. disk \in Files
    BY DEF IInv, StateInv, WorldOK, Files
  <2>2. /\ [disk EXCEPT !.unit = TRUE] \in Files
        /\ [disk EXCEPT !.unit = TRUE].policy = disk.policy
        /\ [disk EXCEPT !.unit = TRUE].activation = disk.activation
        /\ [disk EXCEPT !.unit = TRUE].marker = disk.marker
    BY <2>1 DEF Files
  <2> QED BY <2>1, <2>2
<1>4. Loads \in {0, disk.policy} /\ Loads \in 0 .. Decisions /\ provider.loaded \in 0 .. Decisions
  BY BoundsAssumption DEF Loads, IInv, StateInv, WorldOK
<1>5. StateInv'
  <2>1. provider' \in [enabled : BOOLEAN, loaded : 0 .. Decisions]
    BY <1>4
  <2>2. WorldOK'
    BY <1>3, <2>1 DEF IInv, StateInv, WorldOK, Files, world, owners
  <2> QED BY <1>2, <1>3, <2>2 DEF IInv, StateInv, RetiredStaysDown, world, owners
<1>6. last'.act = "active" => ActivationIsWhole'
  BY <1>1, <1>3, <1>4 DEF ActivationIsWhole, Materialized, GenerationReady, owners
<1> QED BY <1>1, <1>3, <1>5, <1>6, OrdinaryStep DEF world, owners

\* The provider is started, reloaded, relaunched or killed.
LEMMA ProviderSteps ==
  ASSUME IInv, Serve \/ ReloadStale \/ Relaunch \/ KillProvider
  PROVE  IInv'
<1>1. provider \in [enabled : BOOLEAN, loaded : {provider.loaded, Loads}]
  BY DEF IInv, StateInv, WorldOK
<1>2. [provider EXCEPT !.loaded = Loads] \in [enabled : BOOLEAN, loaded : {provider.loaded, Loads}]
  BY <1>1
<1> USE DEF Undecided, Withdrawing
<1>3. CASE Serve
  BY <1>1, <1>3, ProviderStep DEF Serve
<1>4. CASE ReloadStale
  BY <1>1, <1>2, <1>4, ProviderStep DEF ReloadStale
<1>5. CASE Relaunch
  BY <1>1, <1>2, <1>5, ProviderStep DEF Relaunch
<1>6. CASE KillProvider
  BY <1>1, <1>2, <1>6, ProviderStep DEF KillProvider
<1> QED BY <1>3, <1>4, <1>5, <1>6

\* A generation is prepared over none, over itself, or over a retired one:
\* then no worker of the old one is left.
LEMMA GenerationStep ==
  ASSUME IInv, PrepareGeneration
  PROVE  IInv'
<1>1. Now("generation") /\ (Proceed \/ Abort)
  BY DEF PrepareGeneration
<1>2. /\ At = "generation" /\ (Ended \/ Continued)
      /\ op.d \in Decision /\ op.d <= decision /\ durable.bundle <= op.d
      /\ last.act = "active" => ActivationIsWhole /\ op.d = last.d
      /\ last.act # "withdrawn"
  BY <1>1, Working DEF Undecided, Withdrawing
<1>3. /\ decision \in Nat /\ op.d \in Nat \ {0} /\ op.d \in 0 .. Decisions
      /\ durable.bundle \in Nat /\ durable.retired \subseteq 1 .. durable.bundle
      /\ durable.workers \in {0, durable.bundle} /\ durable.workers \notin durable.retired
      /\ durable \in [bundle : 0 .. Decisions, retired : SUBSET Decision, workers : 0 .. Decisions]
  BY <1>2, BoundsAssumption DEF IInv, StateInv, WorldOK, RetiredStaysDown, Decision
<1>4. CASE UNCHANGED durable
  <2>1. StateInv'
    BY <1>4 DEF PrepareGeneration, IInv, StateInv, WorldOK, RetiredStaysDown, world, local
  <2>2. last'.act = "active" => ActivationIsWhole'
    BY <1>2, <1>4 DEF PrepareGeneration, ActivationIsWhole, Materialized, GenerationReady, local
  <2>3. Continued /\ Durable => durable.bundle \notin durable.retired
    <3>1. Continued => op' # Idle
      <4>1. Idle.todo = << >>
        BY DEF Idle
      <4> QED BY <4>1 DEF Continued, Onward
    <3>2. Continued /\ Durable => ~GenerationRefused /\ durable'.bundle = op.d
      BY <1>3, <3>1 DEF PrepareGeneration, Abort
    <3> QED BY <1>3, <1>4, <3>2 DEF GenerationRefused
  <2> QED BY <1>2, <1>4, <2>1, <2>2, <2>3, OrdinaryStep DEF PrepareGeneration, Undecided, Withdrawing, world
<1>5. CASE Durable /\ ~GenerationRefused /\ durable' = [durable EXCEPT !.bundle = op.d]
  <2>1. /\ durable'.bundle = op.d /\ durable'.retired = durable.retired
        /\ durable'.workers = durable.workers
        /\ durable' \in [bundle : 0 .. Decisions, retired : SUBSET Decision, workers : 0 .. Decisions]
    BY <1>3, <1>5
  <2>2. durable.workers \in {0, op.d} /\ op.d \notin durable.retired
    BY <1>2, <1>3, <1>5 DEF GenerationRefused
  <2>3. durable.retired \subseteq 1 .. op.d
    BY <1>2, <1>3
  <2>4. StateInv'
    <3>1. WorldOK'
      BY <2>1 DEF PrepareGeneration, IInv, StateInv, WorldOK, world, local
    <3> QED BY <1>2, <2>1, <2>2, <2>3, <3>1 DEF PrepareGeneration, IInv, StateInv, RetiredStaysDown, world, local
  <2>5. last'.act = "active" => ActivationIsWhole'
    BY <1>2, <2>1 DEF PrepareGeneration, ActivationIsWhole, Materialized, GenerationReady, local
  <2> QED BY <1>2, <2>1, <2>2, <2>4, <2>5, OrdinaryStep DEF PrepareGeneration, Undecided, Withdrawing, world
<1> QED BY <1>4, <1>5 DEF PrepareGeneration

\* The composition starts the workers of the generation on disk.
LEMMA ComposeStep ==
  ASSUME IInv, Compose
  PROVE  IInv'
<1>1. /\ At = "compose" /\ (Ended \/ Continued)
      /\ last.act = "active" => ActivationIsWhole /\ op.d = last.d
      /\ last.act # "withdrawn"
  BY Working DEF Compose, Undecided, Withdrawing
<1>2. Durable => durable.bundle \notin durable.retired
  BY <1>1 DEF IInv, PolicyInv
<1>3. /\ cluster' \in Deployments
      /\ cluster'.console = cluster.console /\ cluster'.token = cluster.token
      /\ cluster'.bound = cluster.bound
  BY DEF Compose, IInv, StateInv, WorldOK, Deployments
<1>4. /\ durable' \in [bundle : 0 .. Decisions, retired : SUBSET Decision, workers : 0 .. Decisions]
      /\ durable'.bundle = durable.bundle /\ durable'.retired = durable.retired
      /\ durable'.workers \in {durable.workers, durable.bundle}
      /\ Durable => durable'.workers = durable.bundle
      /\ ~Durable => durable'.workers = durable.workers
  BY DEF Compose, IInv, StateInv, WorldOK
<1>5. StateInv'
  <2>1. WorldOK'
    BY <1>3, <1>4 DEF Compose, IInv, StateInv, WorldOK, Deployments, world, local
  <2> QED BY <1>2, <1>3, <1>4, <2>1 DEF Compose, IInv, StateInv, RetiredStaysDown, world
<1>6. last'.act = "active" => ActivationIsWhole'
  BY <1>1, <1>3, <1>4 DEF Compose, ActivationIsWhole, Materialized, GenerationReady, local
<1> QED BY <1>1, <1>4, <1>5, <1>6, OrdinaryStep DEF Compose, Undecided, Withdrawing, world

\* The timer is started.
LEMMA StartStep ==
  ASSUME IInv, StartRenewals
  PROVE  IInv'
<1>1. /\ At = "renewals" /\ (Ended \/ Continued)
      /\ last.act = "active" => ActivationIsWhole
      /\ last.act # "withdrawn"
  BY Working DEF StartRenewals, Undecided, Withdrawing
<1>2. StateInv'
  BY DEF StartRenewals, IInv, StateInv, WorldOK, RetiredStaysDown, world, owners
<1>3. last'.act = "active" => ActivationIsWhole'
  BY <1>1 DEF StartRenewals, ActivationIsWhole, Materialized, GenerationReady, owners
<1> QED BY <1>1, <1>2, <1>3, OrdinaryStep DEF StartRenewals, Undecided, Withdrawing, world, owners

\* The receipt of an activation is written under the status that it reports.
LEMMA ConfirmStep ==
  ASSUME IInv, Confirm
  PROVE  IInv'
<1>1. Now("confirm") /\ (Proceed \/ Abort)
  BY DEF Confirm
<1>2. /\ At = "confirm" /\ (Ended \/ Continued) /\ op.d \in Decision
      /\ last.act = "active" => ActivationIsWhole
      /\ last.act # "withdrawn"
  BY <1>1, Working DEF Undecided, Withdrawing
<1>3. op.seen \in BOOLEAN /\ op.d \in 0 .. Decisions
  BY <1>2, BoundsAssumption DEF IInv, OpInv, Op, Decision
<1>4. /\ disk' \in Files
      /\ disk'.policy = disk.policy /\ disk'.activation = disk.activation
      /\ disk'.marker = disk.marker /\ disk'.unit = disk.unit
  BY <1>3 DEF Confirm, IInv, StateInv, WorldOK, Files
<1>5. \/ last' = last
      \/ /\ last' = [act |-> "active", d |-> op.d, seen |-> op.seen]
         /\ StatusHolds(op.d)
  BY DEF Confirm, Receipt
<1>6. StateInv'
  <2>1. WorldOK'
    BY <1>4 DEF Confirm, IInv, StateInv, WorldOK, Files, world, owners, local
  <2>2. last' \in Receipts
    BY <1>3, <1>5 DEF IInv, StateInv, Receipts
  <2> QED BY <1>4, <2>1, <2>2 DEF Confirm, IInv, StateInv, RetiredStaysDown, world, owners
<1>7. last'.act = "active" => ActivationIsWhole'
  <2>1. CASE last' = last
    BY <1>2, <1>4, <2>1 DEF Confirm, ActivationIsWhole, Materialized, GenerationReady, owners, local
  <2>2. CASE last'.d = op.d /\ StatusHolds(op.d)
    <3>1. /\ Materialized(op.d) /\ disk.marker = op.d /\ cluster.console = op.d
          /\ provider.loaded = op.d /\ timer /\ GenerationReady(op.d)
          /\ cluster.token # "none" /\ cluster.bound # 0
      BY <2>2 DEF StatusHolds, ProviderCurrent, CredentialUsable
    <3> QED BY <1>4, <2>2, <3>1 DEF Confirm, ActivationIsWhole, Materialized, GenerationReady, owners, local
  <2> QED BY <1>5, <2>1, <2>2
<1> QED BY <1>2, <1>4, <1>5, <1>6, <1>7, OrdinaryStep DEF Confirm, Undecided, Withdrawing, world, owners

-----------------------------------------------------------------------------
(* The checks a command begins with.                                       *)

\* The decision that is resolved is the one accepted now.
LEMMA ResolveStep ==
  ASSUME IInv, Resolve
  PROVE  IInv'
<1>1. /\ At = "resolve" /\ op.todo # << >>
      /\ decision \in Decision /\ decision \in 0 .. Decisions
      /\ durable.bundle <= decision /\ decision <= decision
  BY AtHand, BoundsAssumption DEF Resolve, IInv, StateInv, WorldOK, Decision
<1>2. StateInv'
  <2>1. NoReceipt \in Receipts
    BY BoundsAssumption DEF Receipts, NoReceipt, NoDecision
  <2> QED BY <2>1 DEF Resolve, IInv, StateInv, WorldOK, RetiredStaysDown, world, owners, local
<1>3. last'.act = "none" /\ UNCHANGED <<decision, durable, disk>>
  BY DEF Resolve, NoReceipt, world, owners
<1>4. CASE op' = Idle
  BY <1>2, <1>3, <1>4, Idling DEF IInv, DecisionInv, PolicyInv, WithdrawalInv, ActiveInv, WithdrawnInv,
                                  Undecided, Withdrawing
<1>5. CASE op' = [op EXCEPT !.todo = Tail(@), !.d = decision]
  <2>1. op \in Op /\ op.todo \in Seq(StepName)
    BY DEF IInv, OpInv, Op
  <2>2. op' \in Op /\ op'.todo = Tail(op.todo) /\ op'.cmd = op.cmd /\ op'.d = decision /\ op'.seen = op.seen
    <3>1. Tail(op.todo) \in Seq(StepName)
      BY <1>1, <2>1
    <3> QED BY <1>1, <1>5, <2>1, <3>1 DEF Op
  <2>3. Onward
    BY <1>1, <2>2, GoingOn DEF IInv, Inner
  <2>4. /\ OpInv' /\ Follows(At, At')
        /\ At' = "offline" => op'.todo[2] = "policy"
    BY <1>1, <2>3, Onwards DEF IInv
  <2>5. At' \in {"offline", "policy"}
    BY <1>1, <2>4 DEF Follows
  <2>6. ~op.seen
    BY <1>1 DEF IInv, WithdrawalInv
  <2>7. DecisionInv'
    BY <1>1, <1>3, <2>2 DEF DecisionInv, Decision
  <2> QED BY <1>2, <1>3, <2>2, <2>4, <2>5, <2>6, <2>7
          DEF IInv, PolicyInv, WithdrawalInv, ActiveInv, WithdrawnInv, Undecided, Withdrawing
<1> QED BY <1>4, <1>5 DEF Resolve, Abort

\* A renewal is admitted for the decision accepted now, when it is the one on
\* disk: then an activation in force is of that decision.
LEMMA AdmitStep ==
  ASSUME IInv, Admit
  PROVE  IInv'
<1>1. /\ At = "admit" /\ op.todo # << >>
      /\ decision \in Decision /\ decision \in 0 .. Decisions
      /\ durable.bundle <= decision /\ decision <= decision
  BY AtHand, BoundsAssumption DEF Admit, IInv, StateInv, WorldOK, Decision
<1>2. StateInv'
  BY DEF Admit, IInv, StateInv, WorldOK, RetiredStaysDown, world, owners, local
<1>3. UNCHANGED <<decision, durable, disk, last>>
  BY DEF Admit, world, owners
<1>4. /\ last.act = "active" => ActivationIsWhole /\ ActivationIsWhole' /\ last.d \in Decision
      /\ last.act = "withdrawn" => RollbackIsComplete'
  BY DEF Admit, IInv, ActiveInv, WithdrawnInv, ActivationIsWhole, RollbackIsComplete, Materialized,
         GenerationReady, owners, local
<1>5. CASE op' = Idle
  BY <1>2, <1>3, <1>4, <1>5, Idling DEF IInv, DecisionInv, PolicyInv, WithdrawalInv, ActiveInv,
                                        WithdrawnInv, Undecided, Withdrawing
<1>6. CASE Materialized(decision) /\ op' = [op EXCEPT !.todo = Tail(@), !.d = decision]
  <2>1. op \in Op /\ op.todo \in Seq(StepName)
    BY DEF IInv, OpInv, Op
  <2>2. op' \in Op /\ op'.todo = Tail(op.todo) /\ op'.cmd = op.cmd /\ op'.d = decision /\ op'.seen = op.seen
    <3>1. Tail(op.todo) \in Seq(StepName)
      BY <1>1, <2>1
    <3> QED BY <1>1, <1>6, <2>1, <3>1 DEF Op
  <2>3. Onward
    BY <1>1, <2>2, GoingOn DEF IInv, Inner
  <2>4. OpInv' /\ Follows(At, At')
    BY <1>1, <2>3, Onwards DEF IInv
  <2>5. At' = "maintain"
    BY <1>1, <2>4 DEF Follows
  <2>6. ~op.seen
    BY <1>1 DEF IInv, WithdrawalInv
  <2>7. DecisionInv'
    BY <1>1, <1>3, <2>2 DEF DecisionInv, Decision
  <2>8. disk.activation # 0 /\ (last.act = "active" => last.d = decision)
    BY <1>1, <1>4, <1>6 DEF Materialized, ActivationIsWhole, Decision
  <2> QED BY <1>2, <1>3, <1>4, <2>2, <2>4, <2>5, <2>6, <2>7, <2>8
          DEF IInv, PolicyInv, WithdrawalInv, ActiveInv, WithdrawnInv, Undecided, Withdrawing
<1> QED BY <1>5, <1>6 DEF Admit, Abort

-----------------------------------------------------------------------------
(* Withdrawals.                                                            *)

\* A withdrawal goes on to the next one, and notes at most that it failed.
LEMMA Noting ==
  ASSUME IInv, NEW step, Now(step), step \in Inner,
         \/ Proceed
         \/ \E noted \in {op.failed, TRUE}, seen \in BOOLEAN, unbound \in BOOLEAN :
              op' = [op EXCEPT !.todo = Tail(@), !.failed = noted, !.seen = seen, !.unbound = unbound]
  PROVE  /\ Onward /\ At = step /\ OpInv' /\ Follows(step, At')
         /\ op.failed => op'.failed
         /\ Proceed => op'.failed = op.failed /\ op'.seen = op.seen
<1>1. At = step /\ op.todo # << >>
  BY AtHand DEF IInv
<1>2. Proceed => Onward /\ op'.failed = op.failed /\ op'.seen = op.seen
  BY <1>1, Proceeding DEF IInv
<1>3. ASSUME NEW noted \in {op.failed, TRUE}, NEW seen \in BOOLEAN, NEW unbound \in BOOLEAN,
             op' = [op EXCEPT !.todo = Tail(@), !.failed = noted, !.seen = seen, !.unbound = unbound]
      PROVE  Onward /\ (op.failed => op'.failed)
  <2>1. op \in Op /\ op.todo \in Seq(StepName)
    BY DEF IInv, OpInv, Op
  <2>2. Tail(op.todo) \in Seq(StepName)
    BY <1>1, <2>1, HeadTailProperties
  <2>3. op' \in Op /\ op'.todo = Tail(op.todo) /\ op'.cmd = op.cmd /\ op'.failed = noted
    BY <1>3, <2>1, <2>2 DEF Op
  <2> QED BY <1>1, <2>3, GoingOn DEF IInv
<1>4. Onward
  BY <1>2, <1>3
<1>5. op.failed => op'.failed
  BY <1>2, <1>3
<1> QED BY <1>1, <1>2, <1>4, <1>5, Onwards DEF IInv

\* A withdrawal that fails is noted, and the next one follows.
LEMMA Noted ==
  ASSUME IInv, NEW step, Now(step), step \in Inner, Note
  PROVE  /\ Onward /\ At = step /\ OpInv' /\ Follows(step, At')
         /\ op'.failed /\ op'.seen = op.seen
<1>1. op \in Op
  BY DEF IInv, OpInv
<1>2. op' = [op EXCEPT !.todo = Tail(@), !.failed = TRUE, !.seen = op.seen, !.unbound = op.unbound]
  BY <1>1 DEF Note, Op
<1>3. Onward /\ At = step /\ OpInv' /\ Follows(step, At')
  BY <1>1, <1>2, Noting DEF Op
<1> QED BY <1>1, <1>3 DEF Note, Op

\* It keeps the invariant when it withdraws what it should or notes a failure.
LEMMA WithdrawalStep ==
  ASSUME IInv, NEW step \in (Withdrawing \ {"conclude"}) \cup {"stopRenewal"},
         At = step, OpInv', Follows(step, At'), StateInv', last'.act = "none",
         step # "revoke" => op'.seen = op.seen,
         op'.failed \/ Withdrawn'
  PROVE  IInv'
<1>1. At' \in Withdrawing
  BY DEF Follows, Withdrawing
<1>2. At' \notin {"unbind", "hide", "stop", "purge", "conclude"} => ~op'.seen
  BY DEF IInv, WithdrawalInv, Follows, Withdrawing
<1> QED BY <1>1, <1>2 DEF IInv, DecisionInv, PolicyInv, WithdrawalInv, ActiveInv, WithdrawnInv,
                          Undecided, Withdrawing

\* What a withdrawal finds.
LEMMA Finding ==
  ASSUME IInv, NEW step, Now(step), step \in Withdrawing
  PROVE  /\ last.act = "none" /\ (op.failed \/ Withdrawn)
         /\ step \notin {"unbind", "hide", "stop", "purge", "conclude"} => ~op.seen
BY AtHand DEF IInv, WithdrawalInv

\* The timer is stopped first, or a failure noted.
LEMMA StopRenewalStep ==
  ASSUME IInv, StopRenewal
  PROVE  IInv'
<1>1. Now("stopRenewal") /\ "stopRenewal" \in Inner /\ (Proceed \/ Note)
  BY DEF StopRenewal, Inner
<1>2. /\ At = "stopRenewal" /\ OpInv' /\ Follows("stopRenewal", At') /\ op'.seen = op.seen
      /\ op'.failed \/ ~timer'
  BY <1>1, Noting, Noted DEF StopRenewal
<1>3. At' = "suspend" /\ ~op.seen
  BY <1>2 DEF Follows, IInv, WithdrawalInv
<1>4. NoReceipt \in Receipts
  BY BoundsAssumption DEF Receipts, NoReceipt, NoDecision
<1>5. StateInv'
  <2>1. timer' \in BOOLEAN /\ renewal' \in BOOLEAN
    BY DEF StopRenewal, IInv, StateInv, WorldOK
  <2>2. last' \in Receipts
    BY <1>4 DEF StopRenewal
  <2>3. WorldOK'
    BY <2>1 DEF StopRenewal, IInv, StateInv, WorldOK, world, owners
  <2> QED BY <2>2, <2>3 DEF StopRenewal, IInv, StateInv, RetiredStaysDown, world, owners
<1>6. op'.failed \/ Withdrawn'
  BY <1>2, <1>3 DEF Withdrawn
<1>7. last'.act = "none"
  BY DEF StopRenewal, NoReceipt
<1> QED BY <1>2, <1>5, <1>6, <1>7, WithdrawalStep

\* No worker is left of a generation that is drained, or of none.
LEMMA SuspendStep ==
  ASSUME IInv, Suspend
  PROVE  IInv'
<1>1. Now("suspend") /\ "suspend" \in Inner /\ "suspend" \in Withdrawing /\ (Proceed \/ Note)
  BY DEF Suspend, Inner, Withdrawing
<1>2. /\ At = "suspend" /\ OpInv' /\ Follows("suspend", At') /\ op'.seen = op.seen
      /\ op'.failed \/ (Proceed /\ op'.failed = op.failed)
  <2>1. CASE Proceed
    BY <1>1, <2>1, Noting
  <2>2. CASE Note
    BY <1>1, <2>2, Noted
  <2> QED BY <1>1, <2>1, <2>2
<1>3. At' = "withdraw" /\ ~op.seen /\ last.act = "none" /\ (op.failed \/ Withdrawn)
  BY <1>1, <1>2, Finding DEF Follows
<1>4. /\ durable.bundle \in Nat /\ durable.retired \subseteq 1 .. durable.bundle
      /\ durable.workers \in {0, durable.bundle} /\ durable.workers \notin durable.retired
      /\ durable \in [bundle : 0 .. Decisions, retired : SUBSET Decision, workers : 0 .. Decisions]
  BY BoundsAssumption DEF IInv, StateInv, WorldOK, RetiredStaysDown
<1>5. /\ Drained \in [bundle : 0 .. Decisions, retired : SUBSET Decision, workers : 0 .. Decisions]
      /\ Drained.bundle = durable.bundle /\ Drained.retired = durable.retired /\ Drained.workers = 0
  BY <1>4, BoundsAssumption DEF Drained
<1>6. /\ durable' \in [bundle : 0 .. Decisions, retired : SUBSET Decision, workers : 0 .. Decisions]
      /\ durable'.bundle = durable.bundle
      /\ durable'.workers \in {0, durable.bundle} /\ durable'.workers \notin durable'.retired
      /\ durable'.retired \subseteq 1 .. durable'.bundle
  <2>1. CASE durable' \in {durable, Drained}
    BY <1>4, <1>5, <2>1
  <2>2. CASE durable.bundle # 0 /\ durable' = Retired
    <3>1. durable.bundle \in Decision /\ durable.bundle \in 1 .. durable.bundle
      BY <1>4, <2>2, BoundsAssumption DEF Decision
    <3>2. /\ durable'.bundle = durable.bundle /\ durable'.workers = 0
          /\ durable'.retired = durable.retired \cup {durable.bundle}
          /\ durable' \in [bundle : 0 .. Decisions, retired : SUBSET Decision, workers : 0 .. Decisions]
      <4>1. durable.retired \cup {durable.bundle} \in SUBSET Decision
        BY <1>4, <3>1
      <4> QED BY <1>5, <2>2, <4>1 DEF Retired
    <3> QED BY <1>4, <3>1, <3>2
  <2> QED BY <2>1, <2>2 DEF Suspend
<1>7. StateInv'
  <2>1. WorldOK'
    BY <1>6 DEF Suspend, IInv, StateInv, WorldOK, world, local
  <2> QED BY <1>6, <2>1 DEF Suspend, IInv, StateInv, RetiredStaysDown, world, local
<1>8. Proceed => durable'.workers = 0 \/ op'.failed
  <2>1. durable'.workers = 0 \/ Note
    <3>1. Retired.workers = 0
      BY <1>5 DEF Retired
    <3> QED BY <1>4, <3>1 DEF Suspend
  <2>2. Note => op'.failed
    BY <1>1, Noted
  <2> QED BY <2>1, <2>2
<1>9. op'.failed \/ Withdrawn'
  BY <1>2, <1>3, <1>8 DEF Withdrawn, Suspend, local
<1> QED BY <1>1, <1>2, <1>3, <1>7, <1>9, WithdrawalStep DEF Suspend

\* It goes on after all that was withdrawn before, or with a failure noted.
LEMMA Withdrawal ==
  ASSUME IInv, NEW step \in Withdrawing \ {"conclude"}, Now(step), Proceed \/ Note
  PROVE  /\ At = step /\ OpInv' /\ Follows(step, At') /\ op'.seen = op.seen
         /\ last.act = "none"
         /\ step \notin {"unbind", "hide", "stop", "purge", "conclude"} => ~op.seen
         /\ Note => op'.failed
         /\ op'.failed \/ (Proceed /\ Withdrawn)
<1>1. step \in Inner /\ step \in Withdrawing
  BY DEF Inner
<1>2. Note => op'.failed /\ op'.seen = op.seen
  BY <1>1, Noted
<1>3. Proceed => op'.failed = op.failed /\ op'.seen = op.seen
  BY <1>1, Noting
<1>4. At = step /\ OpInv' /\ Follows(step, At')
  BY <1>1, Noting, Noted
<1>5. /\ last.act = "none" /\ (op.failed \/ Withdrawn)
      /\ step \notin {"unbind", "hide", "stop", "purge", "conclude"} => ~op.seen
  BY <1>1, Finding
<1> QED BY <1>2, <1>3, <1>4, <1>5

\* The model runtime is withdrawn.
LEMMA WithdrawStep ==
  ASSUME IInv, Withdraw
  PROVE  IInv'
<1> DEFINE step == "withdraw"
<1>1. /\ step \in Withdrawing \ {"conclude"} /\ Now(step) /\ (Proceed \/ Note)
      /\ cluster' \in Deployments /\ cluster'.console = cluster.console
      /\ Note \/ cluster'.models = FALSE
  BY DEF Withdraw, Withdrawing, IInv, StateInv, WorldOK, Deployments
<1>2. /\ At = step /\ OpInv' /\ Follows(step, At') /\ op'.seen = op.seen
      /\ last.act = "none" /\ ~op.seen
      /\ op'.failed \/ (cluster'.models = FALSE /\ Withdrawn)
  BY <1>1, Withdrawal
<1>3. At' = "release"
  BY <1>2 DEF Follows
<1>4. StateInv'
  <2>1. WorldOK'
    BY <1>1 DEF Withdraw, IInv, StateInv, WorldOK, Deployments, world, local
  <2> QED BY <1>1, <2>1 DEF Withdraw, IInv, StateInv, RetiredStaysDown, world
<1>5. op'.failed \/ Withdrawn'
  BY <1>2, <1>3 DEF Withdrawn, Withdraw, local
<1> QED BY <1>1, <1>2, <1>4, <1>5, WithdrawalStep DEF Withdraw

\* The record authorities are released.
LEMMA ReleaseStep ==
  ASSUME IInv, Release
  PROVE  IInv'
<1> DEFINE step == "release"
<1>1. /\ step \in Withdrawing \ {"conclude"} /\ Now(step) /\ (Proceed \/ Note)
      /\ cluster' \in Deployments /\ cluster'.console = cluster.console
      /\ cluster'.models = cluster.models
      /\ disk' \in Files /\ disk'.activation = disk.activation /\ disk'.unit = disk.unit
      /\ Note \/ cluster'.records = FALSE
  <2>1. disk \in Files /\ cluster \in Deployments
    BY DEF IInv, StateInv, WorldOK, Deployments, Files
  <2>2. step \in Withdrawing \ {"conclude"} /\ Now(step) /\ (Proceed \/ Note)
    BY DEF Release, Withdrawing
  <2>3. disk' \in Files /\ disk'.activation = disk.activation /\ disk'.unit = disk.unit
    BY <2>1 DEF Release, Files
  <2>4. /\ cluster' \in Deployments /\ cluster'.console = cluster.console
        /\ cluster'.models = cluster.models
        /\ Note \/ cluster'.records = FALSE
    BY <2>1 DEF Release, Deployments
  <2> QED BY <2>2, <2>3, <2>4
<1>2. /\ At = step /\ OpInv' /\ Follows(step, At') /\ op'.seen = op.seen
      /\ last.act = "none" /\ ~op.seen
      /\ op'.failed \/ (cluster'.records = FALSE /\ Withdrawn)
  BY <1>1, Withdrawal
<1>3. At' = "revoke"
  BY <1>2 DEF Follows
<1>4. StateInv'
  <2>1. WorldOK'
    BY <1>1 DEF Release, IInv, StateInv, WorldOK, Deployments, Files, world, local
  <2> QED BY <1>1, <2>1 DEF Release, IInv, StateInv, RetiredStaysDown, world
<1>5. op'.failed \/ Withdrawn'
  BY <1>1, <1>2, <1>3 DEF Withdrawn, Release, local
<1> QED BY <1>1, <1>2, <1>4, <1>5, WithdrawalStep DEF Release

\* A token is seen only when it is then revoked.
LEMMA RevokeStep ==
  ASSUME IInv, Revoke
  PROVE  IInv'
<1>1. "revoke" \in Inner /\ "revoke" \in Withdrawing /\ Now("revoke") /\ op \in Op
  BY DEF Revoke, Withdrawing, Inner, IInv, OpInv
<1>2. /\ cluster' \in Deployments /\ cluster'.console = cluster.console
      /\ cluster'.models = cluster.models /\ cluster'.records = cluster.records
      /\ cluster'.token \in {cluster.token, "none"}
  BY DEF Revoke, IInv, StateInv, WorldOK, Deployments
<1>3. last.act = "none" /\ ~op.seen /\ (op.failed \/ Withdrawn)
  BY <1>1, Finding
<1>4. /\ At = "revoke" /\ OpInv' /\ Follows("revoke", At')
      /\ op'.failed \/ op'.failed = op.failed
      /\ op'.seen => cluster'.token = "none"
  <2>1. CASE Proceed
    BY <1>1, <1>3, <2>1, Noting
  <2>2. CASE Note
    BY <1>1, <1>3, <2>2, Noted
  <2>3. CASE /\ op' = [op EXCEPT !.todo = Tail(@), !.seen = TRUE]
             /\ cluster' = [cluster EXCEPT !.token = "none"]
    <3>1. op' = [op EXCEPT !.todo = Tail(@), !.failed = op.failed, !.seen = TRUE, !.unbound = op.unbound]
      BY <1>1, <2>3 DEF Op
    <3>2. At = "revoke" /\ OpInv' /\ Follows("revoke", At')
      BY <1>1, <3>1, Noting DEF Op
    <3>3. op'.failed = op.failed /\ cluster'.token = "none"
      BY <1>1, <2>3 DEF Op, IInv, StateInv, WorldOK
    <3> QED BY <3>2, <3>3
  <2> QED BY <2>1, <2>2, <2>3 DEF Revoke
<1>5. At' = "unbind"
  BY <1>4 DEF Follows
<1>6. StateInv'
  <2>1. WorldOK'
    BY <1>2 DEF Revoke, IInv, StateInv, WorldOK, Deployments, world, local
  <2> QED BY <1>2, <2>1 DEF Revoke, IInv, StateInv, RetiredStaysDown, world
<1>7. op'.failed \/ Withdrawn'
  BY <1>2, <1>3, <1>4, <1>5 DEF Withdrawn, Revoke, local
<1> QED BY <1>1, <1>3, <1>4, <1>6, <1>7, WithdrawalStep DEF Revoke

\* The operator binding is withdrawn; when it fails, that is noted.
LEMMA UnbindStep ==
  ASSUME IInv, Unbind
  PROVE  IInv'
<1>1. "unbind" \in Inner /\ "unbind" \in Withdrawing /\ Now("unbind") /\ op \in Op
  BY DEF Unbind, Withdrawing, Inner, IInv, OpInv
<1>2. /\ cluster' \in Deployments /\ cluster'.console = cluster.console
      /\ cluster'.models = cluster.models /\ cluster'.records = cluster.records
      /\ cluster'.token = cluster.token
      /\ cluster'.bound = 0 \/ UNCHANGED cluster
  BY BoundsAssumption DEF Unbind, IInv, StateInv, WorldOK, Deployments
<1>3. last.act = "none" /\ (op.failed \/ Withdrawn)
  BY <1>1, Finding
<1>4. /\ At = "unbind" /\ OpInv' /\ Follows("unbind", At') /\ op'.seen = op.seen
      /\ op'.failed \/ (op'.failed = op.failed /\ cluster'.bound = 0)
  <2>1. CASE Proceed /\ cluster' = [cluster EXCEPT !.bound = 0]
    <3>1. cluster'.bound = 0
      BY <2>1 DEF IInv, StateInv, WorldOK
    <3> QED BY <1>1, <2>1, <3>1, Noting
  <2>2. CASE op' = [op EXCEPT !.todo = Tail(@), !.failed = TRUE, !.unbound = FALSE]
    <3>1. op' = [op EXCEPT !.todo = Tail(@), !.failed = TRUE, !.seen = op.seen, !.unbound = FALSE]
      BY <1>1, <2>2 DEF Op
    <3>2. At = "unbind" /\ OpInv' /\ Follows("unbind", At')
      BY <1>1, <3>1, Noting DEF Op
    <3>3. op'.failed /\ op'.seen = op.seen
      BY <1>1, <2>2 DEF Op
    <3> QED BY <3>2, <3>3
  <2> QED BY <2>1, <2>2 DEF Unbind
<1>5. At' = "hide"
  BY <1>4 DEF Follows
<1>6. StateInv'
  <2>1. WorldOK'
    BY <1>2 DEF Unbind, IInv, StateInv, WorldOK, Deployments, world, local
  <2> QED BY <1>2, <2>1 DEF Unbind, IInv, StateInv, RetiredStaysDown, world
<1>7. op'.failed \/ Withdrawn'
  BY <1>1, <1>2, <1>3, <1>4, <1>5 DEF Withdrawn, Unbind, local
<1> QED BY <1>1, <1>3, <1>4, <1>6, <1>7, WithdrawalStep DEF Unbind

\* Without an activation policy there is no unit, or no Console to stop.
LEMMA HideStep ==
  ASSUME IInv, Hide
  PROVE  IInv'
<1>1. /\ "hide" \in Withdrawing \ {"conclude"} /\ Now("hide") /\ (Proceed \/ Note)
      /\ cluster' \in Deployments /\ cluster'.console \in {cluster.console, 0}
      /\ cluster'.models = cluster.models /\ cluster'.records = cluster.records
      /\ cluster'.token = cluster.token /\ cluster'.bound = cluster.bound
  BY BoundsAssumption DEF Hide, Withdrawing, IInv, StateInv, WorldOK, Deployments
<1>2. Note \/ ~disk.unit \/ cluster'.console = 0
  BY DEF Hide, IInv, StateInv, WorldOK
<1>3. /\ At = "hide" /\ OpInv' /\ Follows("hide", At') /\ op'.seen = op.seen
      /\ last.act = "none"
      /\ op'.failed \/ ((~disk.unit \/ cluster'.console = 0) /\ Withdrawn)
  BY <1>1, <1>2, Withdrawal
<1>4. At' \in {"stop", "purge"}
  BY <1>3 DEF Follows
<1>5. StateInv'
  <2>1. WorldOK'
    BY <1>1 DEF Hide, IInv, StateInv, WorldOK, Deployments, world, local
  <2> QED BY <1>1, <2>1 DEF Hide, IInv, StateInv, RetiredStaysDown, world
<1>6. op'.failed \/ Withdrawn'
  BY <1>1, <1>3, <1>4 DEF Withdrawn, Hide, local
<1> QED BY <1>1, <1>3, <1>5, <1>6, WithdrawalStep DEF Hide

\* Only a unit that is there can be disabled; then the Console was stopped.
LEMMA StopSteps ==
  ASSUME IInv, Stop \/ Purge
  PROVE  IInv'
<1>1. PICK step \in {"stop", "purge"} : Now(step)
  BY DEF Stop, Purge
<1>2. /\ step \in Withdrawing \ {"conclude"} /\ (Proceed \/ Note)
      /\ Note \/ (disk.unit /\ provider' = [enabled |-> FALSE, loaded |-> 0])
      /\ provider' \in [enabled : BOOLEAN, loaded : 0 .. Decisions]
  <2>1. step \in Withdrawing \ {"conclude"} /\ DisableProvider
    BY <1>1 DEF Stop, Purge, Withdrawing
  <2>2. provider \in [enabled : BOOLEAN, loaded : 0 .. Decisions] /\ 0 \in 0 .. Decisions
    BY BoundsAssumption DEF IInv, StateInv, WorldOK
  <2>3. [enabled |-> FALSE, loaded |-> 0] \in [enabled : BOOLEAN, loaded : 0 .. Decisions]
    BY <2>2
  <2> QED BY <2>1, <2>2, <2>3 DEF DisableProvider
<1>3. /\ At = step /\ OpInv' /\ Follows(step, At') /\ op'.seen = op.seen
      /\ last.act = "none"
      /\ op'.failed \/ (disk.unit /\ provider' = [enabled |-> FALSE, loaded |-> 0] /\ Withdrawn)
  BY <1>1, <1>2, Withdrawal
<1>4. At' = "conclude"
  BY <1>1, <1>3 DEF Follows
<1>5. disk' \in Files /\ disk'.marker = 0 /\ (disk'.activation = disk.activation \/ ~disk'.unit)
  <2>1. disk \in Files /\ 0 \in 0 .. Decisions /\ 0 \in 0 .. Forged
    BY BoundsAssumption DEF IInv, StateInv, WorldOK, Files, Forged
  <2>2. /\ Unmarked \in Files /\ Unmarked.marker = 0
        /\ Unmarked.activation = disk.activation
    BY <2>1 DEF Unmarked, Files
  <2>3. Cleaned \in Files /\ Cleaned.marker = 0 /\ ~Cleaned.unit
    BY <2>1, <2>2 DEF Cleaned, Files
  <2> QED BY <2>2, <2>3 DEF Stop, Purge
<1>6. UNCHANGED <<world, owners, timer, renewal, last>>
  BY DEF Stop, Purge
<1>7. StateInv'
  <2>1. WorldOK'
    BY <1>2, <1>5, <1>6 DEF IInv, StateInv, WorldOK, Files, world, owners
  <2>2. disk'.unit => disk.unit
    BY DEF Stop, Purge, Unmarked, Cleaned, IInv, StateInv, WorldOK
  <2> QED BY <1>5, <1>6, <2>1, <2>2 DEF IInv, StateInv, RetiredStaysDown, world, owners
<1>8. op'.failed \/ Withdrawn'
  BY <1>1, <1>3, <1>4, <1>5, <1>6 DEF Withdrawn, owners
<1> QED BY <1>1, <1>2, <1>3, <1>6, <1>7, <1>8, WithdrawalStep

\* The receipt of a withdrawal is written when none of its steps failed.
LEMMA ConcludeStep ==
  ASSUME IInv, Conclude
  PROVE  IInv'
<1>1. /\ At = "conclude" /\ op.todo # << >> /\ "conclude" \in Withdrawing
      /\ last.act = "none" /\ (op.failed \/ Withdrawn)
      /\ op \in Op /\ op.todo \in Seq(StepName)
      /\ UNCHANGED <<world, owners, local, disk>>
  BY AtHand, Finding DEF Conclude, Withdrawing, IInv, OpInv, Op
<1>2. ~op.failed => last' = [act |-> "withdrawn", d |-> op.d, seen |-> op.seen]
  BY DEF Conclude, Receipt
<1>3. op.failed => op' = Idle /\ last' = last
  BY DEF Conclude, Abort
<1>4. StateInv'
  <2>1. WorldOK'
    BY <1>1 DEF IInv, StateInv, WorldOK, world, owners, local
  <2>2. last' \in Receipts
    BY <1>1, <1>2, <1>3 DEF IInv, StateInv, Receipts, Op
  <2> QED BY <1>1, <2>1, <2>2 DEF IInv, StateInv, RetiredStaysDown, world, owners
<1>5. last'.act = "withdrawn" => RollbackIsComplete'
  <2>1. last'.act = "withdrawn" => ~op.failed /\ Withdrawn /\ last'.seen = op.seen
    BY <1>1, <1>2, <1>3
  <2> QED BY <1>1, <2>1 DEF Withdrawn, RollbackIsComplete, owners, local
<1>6. last'.act # "active"
  BY <1>1, <1>2, <1>3
<1>7. CASE op' = Idle
  BY <1>4, <1>5, <1>6, <1>7, Idling
     DEF IInv, DecisionInv, PolicyInv, WithdrawalInv, ActiveInv, WithdrawnInv, Undecided, Withdrawing
<1>8. CASE Len(op.todo) # 1 /\ op' = [op EXCEPT !.todo = Tail(@), !.seen = FALSE]
  <2>1. Tail(op.todo) \in Seq(StepName) /\ Tail(op.todo) # << >>
    BY <1>1, <1>8, Leaving
  <2>2. op' \in Op /\ op'.todo = Tail(op.todo) /\ op'.cmd = op.cmd /\ ~op'.seen
    BY <1>1, <1>8, <2>1 DEF Op
  <2>3. OpInv' /\ Follows(At, At')
    BY <1>1, <2>1, <2>2, Onwards DEF IInv, Onward
  <2>4. At' \in {"stopRenewal", "down"}
    BY <1>1, <2>3 DEF Follows
  <2> QED BY <1>4, <1>5, <1>6, <2>2, <2>3, <2>4
          DEF IInv, DecisionInv, PolicyInv, WithdrawalInv, ActiveInv, WithdrawnInv, Undecided, Withdrawing
<1> QED BY <1>3, <1>7, <1>8 DEF Conclude

\* The composition is taken down after the receipt of the cleanup.
LEMMA DownStep ==
  ASSUME IInv, Down
  PROVE  IInv'
<1>1. At = "down" /\ op.todo # << >> /\ Proceed /\ ~op.seen
  BY AtHand DEF Down, IInv, WithdrawalInv
<1>2. \/ op' = Idle
      \/ Onward /\ op'.seen = op.seen
  BY <1>1, Proceeding DEF IInv
<1>3. OpInv' /\ At' \in {"none", "resolve"} /\ ~op'.seen
  <2>1. CASE op' = Idle
    BY <2>1, Idling
  <2>2. CASE Onward /\ op'.seen = op.seen
    BY <1>1, <2>2, Onwards DEF IInv, Follows
  <2> QED BY <1>2, <2>1, <2>2
<1>4. /\ cluster' \in Deployments /\ cluster'.console = cluster.console
      /\ cluster'.models = cluster.models /\ cluster'.records = cluster.records
      /\ cluster'.token = cluster.token /\ cluster'.bound = cluster.bound
      /\ UNCHANGED <<world, durable, local, disk, last>>
  BY DEF Down, IInv, StateInv, WorldOK, Deployments
<1>5. StateInv'
  <2>1. WorldOK'
    BY <1>4 DEF IInv, StateInv, WorldOK, Deployments, world, local
  <2> QED BY <1>4, <2>1 DEF IInv, StateInv, RetiredStaysDown, world
<1>6. /\ last'.act = "active" => ActivationIsWhole' /\ last'.d \in Decision
      /\ last'.act = "withdrawn" => RollbackIsComplete'
  <2>1. /\ last.act = "active" => ActivationIsWhole /\ last.d \in Decision
        /\ last.act = "withdrawn" => RollbackIsComplete
    BY DEF IInv, ActiveInv, WithdrawnInv
  <2>2. last'.act = "active" => ActivationIsWhole' /\ last'.d \in Decision
    BY <1>4, <2>1 DEF ActivationIsWhole, Materialized, GenerationReady, local
  <2>3. last'.act = "withdrawn" => RollbackIsComplete'
    BY <1>4, <2>1 DEF RollbackIsComplete, local
  <2> QED BY <2>2, <2>3
<1> QED BY <1>3, <1>5, <1>6
        DEF IInv, DecisionInv, PolicyInv, WithdrawalInv, ActiveInv, WithdrawnInv, Undecided, Withdrawing

-----------------------------------------------------------------------------
(* Beside the command: its end, the timer, the status and the environment. *)

\* What may change under a command without its help, and it may also end.
LEMMA Aside ==
  ASSUME IInv, op' \in {op, Idle}, WorldOK', decision <= decision',
         UNCHANGED <<timer, durable, last>>,
         disk'.policy = disk.policy, disk'.activation = disk.activation,
         disk'.marker = disk.marker, disk'.unit = disk.unit,
         cluster'.console = cluster.console, cluster'.bound = cluster.bound,
         cluster'.models = cluster.models, cluster'.records = cluster.records,
         cluster'.token = "none" <=> cluster.token = "none",
         provider'.enabled = provider.enabled,
         provider'.loaded \in {provider.loaded, 0} \/ (provider.enabled /\ provider'.loaded = disk.policy)
  PROVE  IInv'
<1>1. decision \in Nat /\ decision' \in Nat /\ durable.bundle \in Nat
  BY BoundsAssumption DEF IInv, StateInv, WorldOK, Decision
<1>2. StateInv'
  BY <1>1 DEF IInv, StateInv, RetiredStaysDown
<1>3. provider = [enabled |-> FALSE, loaded |-> 0] => provider' = provider
  <2>1. provider' \in [enabled : BOOLEAN, loaded : 0 .. Decisions]
    BY DEF WorldOK
  <2>2. ASSUME provider = [enabled |-> FALSE, loaded |-> 0]
        PROVE  provider'.enabled = FALSE /\ provider'.loaded = 0
    BY <2>2
  <2> QED BY <2>1, <2>2
<1>4. /\ last'.act = "active" => ActivationIsWhole' /\ last'.d \in Decision
      /\ last'.act = "withdrawn" => RollbackIsComplete'
  <2>1. /\ last.act = "active" => ActivationIsWhole /\ last.d \in Decision
        /\ last.act = "withdrawn" => RollbackIsComplete
    BY DEF IInv, ActiveInv, WithdrawnInv
  <2>2. last'.act = "active" => ActivationIsWhole' /\ last'.d \in Decision
    BY <2>1 DEF ActivationIsWhole, Materialized, GenerationReady
  <2>3. last'.act = "withdrawn" => RollbackIsComplete'
    BY <1>3, <2>1 DEF RollbackIsComplete
  <2> QED BY <2>2, <2>3
<1>5. CASE op' = Idle
  BY <1>2, <1>4, <1>5, Idling
     DEF IInv, DecisionInv, PolicyInv, WithdrawalInv, ActiveInv, WithdrawnInv, Undecided, Withdrawing
<1>6. CASE op' = op
  <2>1. OpInv' /\ At' = At
    BY <1>6 DEF IInv, OpInv, At
  <2>2. DecisionInv'
    <3>1. At \notin Undecided => op.d <= decision'
      BY <1>1, BoundsAssumption DEF IInv, DecisionInv, Decision
    <3> QED BY <1>6, <2>1, <3>1 DEF IInv, DecisionInv
  <2>3. PolicyInv'
    BY <1>6, <2>1 DEF IInv, PolicyInv
  <2>4. WithdrawalInv'
    <3>1. Withdrawn => Withdrawn'
      BY <1>3, <1>6, <2>1 DEF Withdrawn
    <3> QED BY <1>6, <2>1, <3>1 DEF IInv, WithdrawalInv
  <2>5. ActiveInv' /\ WithdrawnInv'
    BY <1>4, <1>6, <2>1 DEF IInv, ActiveInv, WithdrawnInv
  <2> QED BY <1>2, <2>1, <2>2, <2>3, <2>4, <2>5 DEF IInv
<1> QED BY <1>5, <1>6

\* A command begins with its plan.
LEMMA Beginning ==
  ASSUME IInv, NEW cmd \in CommandName \ {"idle"}, Begin(cmd), WorldOK',
         UNCHANGED <<decision, disk, provider, timer, cluster, durable, last>>
  PROVE  IInv'
<1>1. /\ Path(Plan(cmd)) /\ Plan(cmd) # << >>
      /\ Plan(cmd)[1] \in {"resolve", "admit", "stopRenewal"}
  BY Plans
<1>2. op' = [cmd |-> cmd, todo |-> Plan(cmd), d |-> 0, failed |-> FALSE, seen |-> FALSE, unbound |-> TRUE]
  BY DEF Begin, Idle, NoDecision
<1>3. OpInv' /\ At' \in {"resolve", "admit", "stopRenewal"} /\ ~op'.seen
  <2>1. op' \in Op
    BY <1>1, <1>2, BoundsAssumption DEF Op, Path
  <2> QED BY <1>1, <1>2, <2>1 DEF OpInv, At
<1>4. StateInv'
  BY DEF IInv, StateInv, RetiredStaysDown
<1>5. /\ last'.act = "active" => ActivationIsWhole' /\ last'.d \in Decision
      /\ last'.act = "withdrawn" => RollbackIsComplete'
  BY DEF IInv, ActiveInv, WithdrawnInv, ActivationIsWhole, RollbackIsComplete, Materialized, GenerationReady
<1> QED BY <1>3, <1>4, <1>5
        DEF IInv, DecisionInv, PolicyInv, WithdrawalInv, ActiveInv, WithdrawnInv, Undecided, Withdrawing

\* What a step leaves as it is when only requests and readers move.
LEMMA WorldKept ==
  ASSUME WorldOK, UNCHANGED <<decision, disk, provider, timer, cluster, durable>>,
         accepted' \in BOOLEAN, renewal' \in BOOLEAN, wanted' \in BOOLEAN,
         watch' \in 0 .. Decisions
  PROVE  WorldOK'
BY DEF WorldOK

\* Operators, the supervisor and the timer begin commands.
LEMMA CommandSteps ==
  ASSUME IInv, Command \/ Activate \/ Refresh
  PROVE  IInv'
<1>1. WorldOK /\ wanted \in BOOLEAN /\ renewal \in BOOLEAN /\ accepted \in BOOLEAN
      /\ watch \in 0 .. Decisions
  BY DEF IInv, StateInv, WorldOK
<1>2. CASE Command
  <2>1. PICK cmd \in CommandName \ {"idle"} : Begin(cmd)
    BY <1>2 DEF Command, Retiring, CommandName
  <2>2. WorldOK'
    BY <1>1, <1>2, WorldKept DEF Command, world, owners, local
  <2> QED BY <1>2, <2>1, <2>2, Beginning DEF Command, world, owners, local
<1>3. CASE Activate
  <2>1. WorldOK'
    BY <1>1, <1>3, WorldKept DEF Activate, owners, local
  <2> QED BY <1>3, <2>1, Beginning DEF Activate, owners, local, CommandName
<1>4. CASE Refresh
  <2>1. WorldOK'
    BY <1>1, <1>4, WorldKept DEF Refresh, world, owners
  <2> QED BY <1>4, <2>1, Beginning DEF Refresh, world, owners, CommandName
<1> QED BY <1>2, <1>3, <1>4

\* A command is refused, fails or is killed.
LEMMA EndingSteps ==
  ASSUME IInv, PolicyRefused \/ StepFails \/ Killed
  PROVE  IInv'
<1>1. op' = Idle /\ UNCHANGED <<world, owners, local, disk, last>>
  BY DEF PolicyRefused, StepFails, Killed, Abort
<1>2. WorldOK' /\ decision <= decision
  BY <1>1, BoundsAssumption DEF IInv, StateInv, WorldOK, Decision, world, owners, local
<1> QED BY <1>1, <1>2, Aside DEF world, owners, local

\* All the rest goes on without the lock.
LEMMA EnvironmentSteps ==
  ASSUME IInv, \/ Delegate \/ Tick \/ Busy \/ StatusReads \/ StatusWrites \/ NewDecision
               \/ RevokeDecision \/ TokenAges \/ ProviderDies \/ ProviderRestarts \/ Reboot
  PROVE  IInv'
<1>1. /\ WorldOK /\ decision \in Nat /\ decision <= decision /\ decision <= decision + 1
      /\ decision \in 0 .. Decisions /\ disk \in Files /\ cluster \in Deployments
      /\ 0 \in 0 .. Decisions
      /\ accepted \in BOOLEAN /\ renewal \in BOOLEAN /\ wanted \in BOOLEAN
      /\ watch \in 0 .. Decisions
  BY BoundsAssumption DEF IInv, StateInv, WorldOK, Decision, Files, Deployments
<1>2. CASE Delegate
  <2>1. disk' \in Files
    BY <1>1, <1>2 DEF Delegate, Files
  <2>2. WorldOK'
    BY <1>1, <1>2, <2>1 DEF Delegate, WorldOK, Files, owners, local
  <2> QED BY <1>1, <1>2, <2>2, Aside DEF Delegate, WorldOK, owners, local
<1>3. CASE Tick \/ Busy
  <2>1. UNCHANGED <<world, owners, provider, timer, disk, op, last>> /\ renewal' \in BOOLEAN
    BY <1>3 DEF Tick, Busy
  <2>2. WorldOK'
    BY <1>1, <2>1, WorldKept DEF world, owners
  <2> QED BY <1>1, <2>1, <2>2, Aside DEF world, owners
<1>4. CASE StatusReads
  <2>1. WorldOK'
    BY <1>1, <1>4, WorldKept DEF StatusReads, owners, local
  <2> QED BY <1>1, <1>4, <2>1, Aside DEF StatusReads, owners, local
<1>5. CASE StatusWrites
  <2>1. disk' \in Files
    BY <1>1, <1>5 DEF StatusWrites, Files, WorldOK
  <2>2. WorldOK'
    BY <1>1, <1>5, <2>1 DEF StatusWrites, NoDecision, WorldOK, Files, owners, local
  <2> QED BY <1>1, <1>5, <2>2, Aside DEF StatusWrites, WorldOK, owners, local
<1>6. CASE NewDecision
  <2>1. decision' \in Decision /\ accepted' \in BOOLEAN
    BY <1>1, <1>6, BoundsAssumption DEF NewDecision, Decision, WorldOK
  <2>2. WorldOK'
    BY <1>1, <1>6, <2>1 DEF NewDecision, WorldOK, owners, local
  <2> QED BY <1>1, <1>6, <2>2, Aside DEF NewDecision, owners, local
<1>7. CASE RevokeDecision
  <2>1. WorldOK'
    BY <1>1, <1>7, WorldKept DEF RevokeDecision, owners, local
  <2> QED BY <1>1, <1>7, <2>1, Aside DEF RevokeDecision, owners, local
<1>8. CASE TokenAges
  <2>1. cluster' \in Deployments
    BY <1>1, <1>8 DEF TokenAges, Deployments
  <2>2. WorldOK'
    BY <1>1, <1>8, <2>1 DEF TokenAges, WorldOK, Deployments, world, local
  <2>3. /\ cluster'.console = cluster.console /\ cluster'.bound = cluster.bound
        /\ cluster'.models = cluster.models /\ cluster'.records = cluster.records
        /\ cluster'.token # "none" /\ cluster.token # "none"
    BY <1>1, <1>8 DEF TokenAges, Deployments
  <2> QED BY <1>1, <1>8, <2>2, <2>3, Aside DEF TokenAges, world, local
<1>9. CASE ProviderDies
  <2>1. provider' \in [enabled : BOOLEAN, loaded : 0 .. Decisions]
    BY <1>1, <1>9 DEF ProviderDies, WorldOK
  <2>2. WorldOK'
    BY <1>1, <1>9, <2>1 DEF ProviderDies, WorldOK, world, owners
  <2>3. provider'.enabled = provider.enabled /\ provider'.loaded = 0
    BY <1>1, <1>9 DEF ProviderDies, WorldOK
  <2> QED BY <1>1, <1>9, <2>2, <2>3, Aside DEF ProviderDies, world, owners
<1>10. CASE ProviderRestarts
  <2>1. Loads = disk.policy /\ disk.policy \in 0 .. Decisions
    BY <1>1, <1>10 DEF ProviderRestarts, Loads, Files
  <2>2. /\ provider' \in [enabled : BOOLEAN, loaded : 0 .. Decisions]
        /\ provider'.enabled = provider.enabled /\ provider'.loaded = disk.policy
    BY <1>1, <1>10, <2>1 DEF ProviderRestarts, WorldOK
  <2>3. WorldOK'
    BY <1>1, <1>10, <2>2 DEF ProviderRestarts, WorldOK, world, owners
  <2> QED BY <1>1, <1>10, <2>2, <2>3, Aside DEF ProviderRestarts, world, owners
<1>11. CASE Reboot
  <2>1. /\ disk' \in Files
        /\ disk'.policy = disk.policy /\ disk'.activation = disk.activation
        /\ disk'.marker = disk.marker /\ disk'.unit = disk.unit
    BY <1>1, <1>11 DEF Reboot, Files
  <2>2. /\ provider' \in [enabled : BOOLEAN, loaded : 0 .. Decisions]
        /\ provider'.enabled = provider.enabled /\ provider'.loaded = 0
    BY <1>1, <1>11 DEF Reboot, WorldOK
  <2>3. WorldOK'
    BY <1>1, <1>11, <2>1, <2>2 DEF Reboot, WorldOK, Files, owners, NoDecision
  <2> QED BY <1>1, <1>11, <2>1, <2>2, <2>3, Aside DEF Reboot, owners
<1> QED BY <1>2, <1>3, <1>4, <1>5, <1>6, <1>7, <1>8, <1>9, <1>10, <1>11

-----------------------------------------------------------------------------
(* The theorems.                                                           *)

\* Nothing is activated at first.
LEMMA Initial == Init => IInv
<1> SUFFICES ASSUME Init PROVE IInv
  OBVIOUS
<1>1. /\ OpInv /\ At = "none" /\ ~op.seen
  <2>1. << >> \in Seq(StepName) /\ Len(<< >>) = 0
    OBVIOUS
  <2>2. Idle \in Op /\ Idle.todo = << >> /\ Idle.cmd = "idle" /\ ~Idle.seen
    BY <2>1, BoundsAssumption DEF Idle, Op, CommandName, NoDecision
  <2>3. Path(Idle.todo)
    BY <2>1, <2>2 DEF Path
  <2> QED BY <2>2, <2>3 DEF Init, OpInv, At
<1>2. WorldOK
  <2>1. 0 \in 0 .. Decisions /\ 0 \in 0 .. Forged /\ 1 \in Decision
    BY BoundsAssumption DEF Decision, Forged
  <2>2. disk \in Files
    BY <2>1 DEF Init, Files
  <2>3. cluster \in Deployments
    BY <2>1 DEF Init, Deployments
  <2> QED BY <2>1, <2>2, <2>3 DEF Init, WorldOK, NoDecision, Files, Deployments
<1>3. last \in Receipts /\ last.act = "none"
  BY BoundsAssumption DEF Init, Receipts, NoReceipt, NoDecision
<1>4. StateInv
  BY <1>2, <1>3 DEF Init, StateInv, RetiredStaysDown
<1> QED BY <1>1, <1>3, <1>4
        DEF IInv, DecisionInv, PolicyInv, WithdrawalInv, ActiveInv, WithdrawnInv, Undecided, Withdrawing

\* Every step keeps the invariant.
LEMMA Inductive == IInv /\ [Next]_vars => IInv'
<1> SUFFICES ASSUME IInv, [Next]_vars PROVE IInv'
  OBVIOUS
<1>1. CASE Step
  BY <1>1, QuietSteps, FileSteps, ClusterSteps, ProviderSteps, GenerationStep, ComposeStep,
     StartStep, ConfirmStep, ResolveStep, AdmitStep, StopRenewalStep, SuspendStep, WithdrawStep,
     ReleaseStep, RevokeStep, UnbindStep, HideStep, StopSteps, ConcludeStep, DownStep DEF Step
<1>2. CASE \/ PolicyRefused \/ StepFails \/ Killed \/ Command \/ Activate \/ Refresh
  BY <1>2, EndingSteps, CommandSteps
<1>3. CASE \/ Delegate \/ Tick \/ Busy \/ StatusReads \/ StatusWrites \/ NewDecision
           \/ RevokeDecision \/ TokenAges \/ ProviderDies \/ ProviderRestarts \/ Reboot
  BY <1>3, EnvironmentSteps
<1>4. CASE UNCHANGED vars
  <2>1. WorldOK' /\ decision <= decision
    BY <1>4, BoundsAssumption DEF vars, IInv, StateInv, WorldOK, Decision
  <2> QED BY <1>4, <2>1, Aside DEF vars
<1> QED BY <1>1, <1>2, <1>3, <1>4 DEF Next

\* The invariant holds throughout, for any number of decisions, commands,
\* kills and reboots.
THEOREM RuntimeInvariant == Spec => []IInv
<1>1. Init => IInv
  BY Initial
<1>2. IInv /\ [Next]_vars => IInv'
  BY Inductive
<1> QED BY <1>1, <1>2, PTL DEF Spec

\* A rollback, cleanup or teardown that leaves a receipt has left nothing
\* running, and it stays so until the next command
\* (console_complete_runtime.py:2189-2255).
THEOREM WithdrawalsAreComplete == Spec => []RollbackIsComplete
<1>1. IInv => RollbackIsComplete
  BY DEF IInv, WithdrawnInv, RollbackIsComplete
<1> QED BY <1>1, RuntimeInvariant, PTL

\* The receipt of an activation, a restart or the operating proof means that
\* everything was made from one decision, also after crashes of the provider
\* and late renewals (console_complete_runtime.py:1923-2124).
THEOREM ActivationsAreWhole == Spec => []ActivationIsWhole
<1>1. IInv => ActivationIsWhole
  BY DEF IInv, ActiveInv, ActivationIsWhole
<1> QED BY <1>1, RuntimeInvariant, PTL

\* No worker of a retired durable generation runs, and the lock is held exactly
\* while steps remain (console_durable_composition.py:122-203).
THEOREM GenerationsAreSound == Spec => []GenerationIsSound
<1>1. IInv => GenerationIsSound
  BY DEF IInv, StateInv, OpInv, GenerationIsSound, TypeOK
<1> QED BY <1>1, RuntimeInvariant, PTL
=============================================================================
