------------------------ MODULE ConsoleActivationProofs ------------------------
(***************************************************************************)
(* Proofs about ConsoleActivation, for any number of revisions, commands    *)
(* and faults.                                                             *)
(***************************************************************************)
EXTENDS ConsoleActivation, SequenceTheorems, TLAPS

-----------------------------------------------------------------------------
(* The invariant: the way a command goes.                                  *)

StepName ==
  Receipts \cup
    {"validate", "secret", "bind", "expose", "revokeOld", "issue", "environment", "inspect",
     "stopConsumer", "attempt", "quarantine", "compile", "build", "note", "units", "enable",
     "rollout", "relaunch", "tunnels", "retunnel", "probe", "active", "activity", "catalog",
     "served", "discard", "close", "cutTunnel", "seenLost", "joinTunnel", "add", "readBack",
     "edit", "staleDenied", "cutSession", "sessionDenied", "joinSession", "cutOwner",
     "ownerDenied", "joinOwner", "cutReadiness", "readinessDenied", "joinReadiness",
     "cutBackend", "backendDenied", "joinBackend", "unchanged", "disable", "revoke",
     "conceal", "unbind", "preserved", "gone", "files", "children", "proposed",
     "commissioned", "raise"}

\* The steps of a repair, of a withdrawal and of a rehearsal come in their
\* order, and nowhere else.
Follows(x, y) ==
  /\ x = "inspect" <=> y = "stopConsumer"
  /\ x = "stopConsumer" <=> y = "attempt"
  /\ x = "attempt" <=> y = "quarantine"
  /\ x = "quarantine" <=> y = "compile"
  /\ x = "compile" <=> y = "build"
  /\ x = "build" <=> y = "note"
  /\ x = "disable" <=> y = "revoke"
  /\ x = "revoke" <=> y = "conceal"
  /\ x = "conceal" <=> y = "unbind"
  /\ x = "unbind" <=> y = "preserved"
  /\ y = "files" => x = "preserved"
  /\ x = "cutTunnel" <=> y = "seenLost"
  /\ x = "seenLost" <=> y = "joinTunnel"
  /\ x = "cutSession" <=> y = "sessionDenied"
  /\ x = "sessionDenied" <=> y = "joinSession"
  /\ x = "cutOwner" <=> y = "ownerDenied"
  /\ x = "ownerDenied" <=> y = "joinOwner"
  /\ x = "cutReadiness" <=> y = "readinessDenied"
  /\ x = "readinessDenied" <=> y = "joinReadiness"
  /\ x = "cutBackend" <=> y = "backendDenied"
  /\ x = "backendDenied" <=> y = "joinBackend"

\* What a command ends with.
Endings == Receipts \cup {"raise"}

\* A way from one step to another.
Way(s, x, y) ==
  /\ s \in Seq(StepName) /\ Len(s) > 0 /\ s[1] = x /\ s[Len(s)] = y
  /\ \A i \in 1 .. Len(s) : i < Len(s) => Follows(s[i], s[i + 1])

Path(s) == \E x \in StepName, y \in Endings : Way(s, x, y)

At == IF op.todo = << >> THEN "none" ELSE op.todo[1]

Op == [cmd : CommandNames \cup {"idle"}, todo : Seq(StepName), arm : Joins \cup {"none"},
       failing : BOOLEAN, restoring : BOOLEAN, applied : BOOLEAN, tries : Nat,
       from : SUBSET Revision]

\* A failing command has only to reconnect, or to report.
OpInv ==
  /\ op \in Op
  /\ op.cmd = "idle" => op = Idle
  /\ op.cmd # "idle" => op.todo # << >>
  /\ ~op.failing /\ op.cmd # "idle" => Path(op.todo)
  /\ op.failing => \/ op.todo = <<op.arm>> /\ op.arm \in Joins
                   \/ op.todo = <<"raise">> /\ op.arm = "none"

\* The step between a disconnection and its reconnection.
Denied(join) ==
  CASE join = "joinTunnel"    -> "seenLost"
    [] join = "joinSession"   -> "sessionDenied"
    [] join = "joinOwner"     -> "ownerDenied"
    [] join = "joinReadiness" -> "readinessDenied"
    [] join = "joinBackend"   -> "backendDenied"

\* A reconnection is armed only until the step that carries it out.
ArmInv == op.arm # "none" => At \in {op.arm, Denied(op.arm)}

-----------------------------------------------------------------------------
(* The invariant: what holds at each step.                                 *)

Front == [state : {"none", "good", "corrupt"}, incident : {"none", "attempted", "rebuilt", "closed"},
          kept : BOOLEAN, repairs : Nat]

Types ==
  /\ TypeOK /\ OpInv /\ ArmInv
  /\ frontend \in [Revision -> Front]
  /\ catalog \in [adds : Nat, edits : Nat]
  /\ broken \subseteq Joins

\* A reconnection that is armed, or was not carried out.
Owed(join) == op.arm = join \/ join \in broken

\* What is cut has its reconnection armed, or owed since it failed.
CutInv ==
  /\ replicas.wgcf \/ Owed("joinReadiness")
  /\ replicas.backend \/ Owed("joinBackend")
  /\ enabled = Roles => /\ unit["oos"] = "running" \/ Owed("joinOwner")
                        /\ unit["wgcf"] = "running" \/ Owed("joinTunnel")

\* The units are removed only after they were disabled.
DisabledInv == At \in {"revoke", "conceal", "unbind", "preserved", "files"} => enabled = {}

\* A repair is counted until it is closed, another one begins only after that,
\* and a revision that was not checked out has no artifact.
RepairInv ==
  /\ \A r \in Revision :
       /\ frontend[r].repairs <= 1
       /\ frontend[r].incident \in {"none", "closed"} => frontend[r].repairs = 0
       /\ r > head => frontend[r].incident = "none"
  /\ At \in {"stopConsumer", "attempt", "quarantine", "compile"} => frontend[head].repairs = 0

\* The Console is down from the stop of the consumer to the quarantine.
ServeInv ==
  At \in {"attempt", "quarantine"} => console.serves = 0 /\ unit["console"] # "running"

\* A mutation that is tried again was applied.
CatalogInv == catalog.adds <= 1 /\ (op.tries # 0 => op.applied)

IInv == Types /\ CutInv /\ DisabledInv /\ RepairInv /\ ServeInv /\ CatalogInv

-----------------------------------------------------------------------------
(* The plans.                                                              *)

\* One way after another is a way, if the second may follow the first.
LEMMA Joining ==
  ASSUME NEW s, NEW t, NEW a, NEW x, NEW y, NEW b,
         Way(s, a, x), Way(t, y, b), Follows(x, y)
  PROVE  Way(s \o t, a, b)
<1> DEFINE u == s \o t
<1>1. /\ u \in Seq(StepName) /\ Len(u) = Len(s) + Len(t)
      /\ \A i \in 1 .. Len(s) : u[i] = s[i]
      /\ \A i \in 1 .. Len(t) : u[Len(s) + i] = t[i]
      /\ Len(s) \in Nat /\ Len(s) > 0 /\ Len(t) \in Nat /\ Len(t) > 0
  BY DEF Way
<1> HIDE DEF u
<1>2. ASSUME NEW i \in 1 .. Len(s) PROVE Follows(u[i], u[i + 1])
  <2>1. CASE i < Len(s)
    <3>1. u[i] = s[i] /\ u[i + 1] = s[i + 1] BY <1>1, <2>1
    <3> QED BY <2>1, <3>1 DEF Way
  <2>2. CASE i = Len(s)
    <3>1. u[i] = x /\ u[i + 1] = y BY <1>1, <2>2 DEF Way
    <3> QED BY <3>1
  <2> QED BY <1>1, <2>1, <2>2
<1>3. ASSUME NEW j \in 1 .. Len(t), j < Len(t) PROVE Follows(u[Len(s) + j], u[Len(s) + j + 1])
  <2>1. u[Len(s) + j] = t[j] /\ u[Len(s) + (j + 1)] = t[j + 1] BY <1>1, <1>3
  <2>2. Len(s) + (j + 1) = Len(s) + j + 1 BY <1>1
  <2> QED BY <1>3, <2>1, <2>2 DEF Way
<1>4. ASSUME NEW i \in 1 .. Len(u), i < Len(u) PROVE Follows(u[i], u[i + 1])
  <2>1. CASE i \in 1 .. Len(s) BY <1>2, <2>1
  <2>2. CASE i - Len(s) \in 1 .. Len(t)
    <3>1. i - Len(s) < Len(t) BY <1>1, <1>4, <2>2
    <3>2. Follows(u[Len(s) + (i - Len(s))], u[Len(s) + (i - Len(s)) + 1])
      BY <1>3, <2>2, <3>1
    <3>3. Len(s) + (i - Len(s)) = i BY <1>1
    <3> QED BY <3>2, <3>3
  <2> QED BY <1>1, <2>1, <2>2
<1>5. u[1] = a /\ u[Len(u)] = b BY <1>1 DEF Way
<1> QED BY <1>1, <1>4, <1>5 DEF Way, u

\* A single step.
LEMMA Single == ASSUME NEW x \in StepName PROVE Way(<<x>>, x, x)
BY DEF Way

LEMMA Preparing == Way(Prepare, "inspect", "note")
<1>1. Prepare \in Seq(StepName) /\ Len(Prepare) = 7 /\ Prepare[1] = "inspect" /\ Prepare[7] = "note"
  BY DEF Prepare, StepName
<1>2. \A i \in 1 .. 7 : i < 7 => Follows(Prepare[i], Prepare[i + 1])
  BY DEF Prepare, Follows
<1> QED BY <1>1, <1>2 DEF Way

LEMMA Proving == Way(Proof, "activity", "catalog")
BY DEF Way, Proof, StepName, Receipts, Follows

LEMMA Bounding == Way(Boundary, "served", "close")
BY DEF Way, Boundary, StepName, Receipts, Follows

LEMMA Activating == Way(ActivateSteps, "validate", "activate")
<1> DEFINE start == <<"validate", "secret", "bind", "expose", "revokeOld", "issue", "environment">>
           units == <<"units", "enable">>
<1>1. Way(start, "validate", "environment")
  <2>1. start \in Seq(StepName) /\ Len(start) = 7 /\ start[1] = "validate" /\ start[7] = "environment"
    BY DEF StepName
  <2>2. \A i \in 1 .. 7 : i < 7 => Follows(start[i], start[i + 1]) BY DEF Follows
  <2> QED BY <2>1, <2>2 DEF Way
<1>2. Way(units, "units", "enable") BY DEF Way, StepName, Receipts, Follows
<1>3. Way(<<"activate">>, "activate", "activate") BY Single DEF StepName, Receipts
<1>4. ActivateSteps = start \o Prepare \o units \o Proof \o Boundary \o <<"activate">>
  BY DEF ActivateSteps
<1> HIDE DEF start, units
<1>5. Way(start \o Prepare, "validate", "note") BY <1>1, Preparing, Joining DEF Follows
<1>6. Way(start \o Prepare \o units, "validate", "enable") BY <1>2, <1>5, Joining DEF Follows
<1>7. Way(start \o Prepare \o units \o Proof, "validate", "catalog")
  BY <1>6, Proving, Joining DEF Follows
<1>8. Way(start \o Prepare \o units \o Proof \o Boundary, "validate", "close")
  BY <1>7, Bounding, Joining DEF Follows
<1>9. Way(start \o Prepare \o units \o Proof \o Boundary \o <<"activate">>, "validate", "activate")
  BY <1>3, <1>8, Joining DEF Follows
<1> QED BY <1>4, <1>9

LEMMA Asking == Way(StatusSteps, "validate", "status")
<1>1. Way(<<"validate", "active">>, "validate", "active") BY DEF Way, StepName, Receipts, Follows
<1>2. Way(<<"status">>, "status", "status") BY Single DEF StepName, Receipts
<1>3. Way(<<"validate", "active">> \o Proof, "validate", "catalog")
  BY <1>1, Proving, Joining DEF Follows
<1>4. Way(<<"validate", "active">> \o Proof \o Boundary, "validate", "close")
  BY <1>3, Bounding, Joining DEF Follows
<1>5. Way(<<"validate", "active">> \o Proof \o Boundary \o <<"status">>, "validate", "status")
  BY <1>2, <1>4, Joining DEF Follows
<1> QED BY <1>5 DEF StatusSteps

LEMMA Restarting == Way(RestartSteps, "validate", "restart")
<1> DEFINE units == <<"units", "rollout", "relaunch">>
<1>1. Way(<<"validate">>, "validate", "validate") /\ Way(<<"restart">>, "restart", "restart")
  BY Single DEF StepName, Receipts
<1>2. Way(units, "units", "relaunch") BY DEF Way, StepName, Receipts, Follows
<1>3. RestartSteps = <<"validate">> \o Prepare \o units \o Proof \o Boundary \o <<"restart">>
  BY DEF RestartSteps
<1> HIDE DEF units
<1>4. Way(<<"validate">> \o Prepare, "validate", "note") BY <1>1, Preparing, Joining DEF Follows
<1>5. Way(<<"validate">> \o Prepare \o units, "validate", "relaunch")
  BY <1>2, <1>4, Joining DEF Follows
<1>6. Way(<<"validate">> \o Prepare \o units \o Proof, "validate", "catalog")
  BY <1>5, Proving, Joining DEF Follows
<1>7. Way(<<"validate">> \o Prepare \o units \o Proof \o Boundary, "validate", "close")
  BY <1>6, Bounding, Joining DEF Follows
<1>8. Way(<<"validate">> \o Prepare \o units \o Proof \o Boundary \o <<"restart">>,
          "validate", "restart")
  BY <1>1, <1>7, Joining DEF Follows
<1> QED BY <1>3, <1>8

LEMMA Rehearsing == Way(RehearseSteps, "validate", "rehearse")
<1> DEFINE cut == <<"validate", "cutTunnel", "seenLost", "joinTunnel", "activity">>
<1>1. Way(cut, "validate", "activity") BY DEF Way, StepName, Receipts, Follows
<1>2. Way(<<"rehearse">>, "rehearse", "rehearse") BY Single DEF StepName, Receipts
<1>3. RehearseSteps = cut \o Boundary \o <<"rehearse">> BY DEF RehearseSteps
<1> HIDE DEF cut
<1>4. Way(cut \o Boundary, "validate", "close") BY <1>1, Bounding, Joining DEF Follows
<1>5. Way(cut \o Boundary \o <<"rehearse">>, "validate", "rehearse")
  BY <1>2, <1>4, Joining DEF Follows
<1> QED BY <1>3, <1>5

LEMMA Editing == Way(CatalogSteps, "validate", "rehearsed")
<1> DEFINE first == <<"validate", "active", "catalog", "add", "readBack", "edit", "staleDenied">>
           session == <<"cutSession", "sessionDenied", "joinSession">>
           owner == <<"cutOwner", "ownerDenied", "joinOwner">>
           readiness == <<"catalog", "cutReadiness", "readinessDenied", "joinReadiness">>
           backend == <<"cutBackend", "backendDenied", "joinBackend">>
           back == <<"unchanged", "catalog", "activity">>
<1>1. Way(first, "validate", "staleDenied")
  <2>1. first \in Seq(StepName) /\ Len(first) = 7 /\ first[1] = "validate" /\ first[7] = "staleDenied"
    BY DEF StepName
  <2>2. \A i \in 1 .. 7 : i < 7 => Follows(first[i], first[i + 1]) BY DEF Follows
  <2> QED BY <2>1, <2>2 DEF Way
<1>2. /\ Way(session, "cutSession", "joinSession") /\ Way(owner, "cutOwner", "joinOwner")
      /\ Way(backend, "cutBackend", "joinBackend") /\ Way(back, "unchanged", "activity")
  BY DEF Way, StepName, Receipts, Follows
<1>3. Way(readiness, "catalog", "joinReadiness") BY DEF Way, StepName, Receipts, Follows
<1>4. Way(<<"rehearsed">>, "rehearsed", "rehearsed") BY Single DEF StepName, Receipts
<1>5. CatalogSteps = first \o session \o owner \o readiness \o backend \o back
                       \o Boundary \o <<"rehearsed">>
  <2>1. <<"validate", "active", "catalog", "add", "readBack", "edit", "staleDenied",
          "cutSession", "sessionDenied", "joinSession", "cutOwner", "ownerDenied",
          "joinOwner", "catalog", "cutReadiness", "readinessDenied", "joinReadiness",
          "cutBackend", "backendDenied", "joinBackend", "unchanged", "catalog",
          "activity">> = first \o session \o owner \o readiness \o backend \o back
    OBVIOUS
  <2> QED BY <2>1 DEF CatalogSteps
<1> HIDE DEF first, session, owner, readiness, backend, back
<1>6. Way(first \o session, "validate", "joinSession") BY <1>1, <1>2, Joining DEF Follows
<1>7. Way(first \o session \o owner, "validate", "joinOwner") BY <1>2, <1>6, Joining DEF Follows
<1>8. Way(first \o session \o owner \o readiness, "validate", "joinReadiness")
  BY <1>3, <1>7, Joining DEF Follows
<1>9. Way(first \o session \o owner \o readiness \o backend, "validate", "joinBackend")
  BY <1>2, <1>8, Joining DEF Follows
<1>10. Way(first \o session \o owner \o readiness \o backend \o back, "validate", "activity")
  BY <1>2, <1>9, Joining DEF Follows
<1>11. Way(first \o session \o owner \o readiness \o backend \o back \o Boundary,
           "validate", "close")
  BY <1>10, Bounding, Joining DEF Follows
<1>12. Way(first \o session \o owner \o readiness \o backend \o back \o Boundary
             \o <<"rehearsed">>, "validate", "rehearsed")
  BY <1>4, <1>11, Joining DEF Follows
<1> QED BY <1>5, <1>12

LEMMA Withdrawing ==
  Way(RollbackSteps, "disable", "rollback") /\ Way(CleanupSteps, "disable", "cleanup")
<1>1. Way(Withdrawal, "disable", "preserved") BY DEF Way, Withdrawal, StepName, Receipts, Follows
<1>2. /\ Way(<<"gone", "rollback">>, "gone", "rollback")
      /\ Way(<<"files", "gone", "cleanup">>, "files", "cleanup")
  BY DEF Way, StepName, Receipts, Follows
<1> QED BY <1>1, <1>2, Joining DEF RollbackSteps, CleanupSteps, Follows

LEMMA Commissioning == Way(CommissionSteps, "validate", "commission")
<1> DEFINE a == <<"validate">> \o ActivateSteps
           b == a \o StatusSteps
           c == b \o CatalogSteps
           d == c \o RestartSteps
           e == d \o StatusSteps
           f == e \o RollbackSteps
           g == f \o CleanupSteps
           h == g \o ActivateSteps
           i == h \o StatusSteps
<1>1. CommissionSteps = i \o Conclusion BY DEF CommissionSteps
<1>2. Way(Conclusion, "activity", "commission")
  <2>1. Way(<<"activity">>, "activity", "activity") /\ Way(<<"commission">>, "commission", "commission")
    BY Single DEF StepName, Receipts
  <2>2. Way(<<"activity">> \o Boundary, "activity", "close")
    BY <2>1, Bounding, Joining DEF Follows
  <2> QED BY <2>1, <2>2, Joining DEF Conclusion, Follows
<1>3. Way(<<"validate">>, "validate", "validate") BY Single DEF StepName, Receipts
<1>4. Way(a, "validate", "activate") BY <1>3, Activating, Joining DEF Follows
<1> HIDE DEF a
<1>5. Way(b, "validate", "status") BY <1>4, Asking, Joining DEF Follows
<1> HIDE DEF b
<1>6. Way(c, "validate", "rehearsed") BY <1>5, Editing, Joining DEF Follows
<1> HIDE DEF c
<1>7. Way(d, "validate", "restart") BY <1>6, Restarting, Joining DEF Follows
<1> HIDE DEF d
<1>8. Way(e, "validate", "status") BY <1>7, Asking, Joining DEF Follows
<1> HIDE DEF e
<1>9. Way(f, "validate", "rollback") BY <1>8, Withdrawing, Joining DEF Follows
<1> HIDE DEF f
<1>10. Way(g, "validate", "cleanup") BY <1>9, Withdrawing, Joining DEF Follows
<1> HIDE DEF g
<1>11. Way(h, "validate", "activate") BY <1>10, Activating, Joining DEF Follows
<1> HIDE DEF h
<1>12. Way(i, "validate", "status") BY <1>11, Asking, Joining DEF Follows
<1> HIDE DEF i
<1>13. Way(i \o Conclusion, "validate", "commission") BY <1>2, <1>12, Joining DEF Follows
<1> QED BY <1>1, <1>13

\* The availability that a failed commissioning restores.
LEMMA Restoring == Way(ActivateSteps \o StatusSteps \o <<"raise">>, "validate", "raise")
<1>1. Way(<<"raise">>, "raise", "raise") BY Single DEF StepName, Receipts
<1>2. Way(ActivateSteps \o StatusSteps, "validate", "status")
  BY Activating, Asking, Joining DEF Follows
<1> QED BY <1>1, <1>2, Joining DEF Follows

\* Every command is such a way and begins with a check or with the withdrawal.
LEMMA Plans ==
  ASSUME NEW cmd \in CommandNames
  PROVE  \E x \in {"validate", "disable"}, y \in Endings : Way(Plan(cmd), x, y)
<1>1. cmd = "activate" => Way(Plan(cmd), "validate", "activate") BY Activating DEF Plan
<1>2. cmd = "status" => Way(Plan(cmd), "validate", "status") BY Asking DEF Plan
<1>3. cmd = "restart" => Way(Plan(cmd), "validate", "restart") BY Restarting DEF Plan
<1>4. cmd = "refresh" => Way(Plan(cmd), "validate", "refresh")
  <2>1. Way(RefreshSteps, "validate", "refresh") BY DEF Way, RefreshSteps, StepName, Receipts, Follows
  <2> QED BY <2>1 DEF Plan
<1>5. cmd = "rehearse" => Way(Plan(cmd), "validate", "rehearse") BY Rehearsing DEF Plan
<1>6. cmd = "catalog" => Way(Plan(cmd), "validate", "rehearsed") BY Editing DEF Plan
<1>7. cmd = "rollback" => Way(Plan(cmd), "disable", "rollback") BY Withdrawing DEF Plan
<1>8. cmd = "cleanup" => Way(Plan(cmd), "disable", "cleanup") BY Withdrawing DEF Plan
<1>9. cmd = "commission" => Way(Plan(cmd), "validate", "commission") BY Commissioning DEF Plan
<1>10. cmd = "proposal" => Way(Plan(cmd), "validate", "proposal")
  <2>1. Way(ProposalSteps, "validate", "proposal") BY DEF Way, ProposalSteps, StepName, Receipts, Follows
  <2> QED BY <2>1 DEF Plan
<1>11. cmd = "verify" => Way(Plan(cmd), "validate", "verified")
  <2>1. Way(<<"validate", "commissioned">>, "validate", "commissioned") BY DEF Way, StepName, Receipts, Follows
  <2>2. Way(<<"verified">>, "verified", "verified") BY Single DEF StepName, Receipts
  <2>3. Way(<<"validate", "commissioned">> \o Proof, "validate", "catalog")
    BY <2>1, Proving, Joining DEF Follows
  <2>4. Way(<<"validate", "commissioned">> \o Proof \o Boundary, "validate", "close")
    BY <2>3, Bounding, Joining DEF Follows
  <2>5. Way(VerifySteps, "validate", "verified") BY <2>2, <2>4, Joining DEF VerifySteps, Follows
  <2> QED BY <2>5 DEF Plan
<1>12. cmd = "verifyProposal" => Way(Plan(cmd), "validate", "verified")
  <2>1. Way(VerifyProposalSteps, "validate", "verified") BY DEF Way, VerifyProposalSteps, StepName, Receipts, Follows
  <2> QED BY <2>1 DEF Plan
<1>13. \A y \in Receipts : y \in Endings BY DEF Endings
<1> QED BY <1>1, <1>2, <1>3, <1>4, <1>5, <1>6, <1>7, <1>8, <1>9, <1>10, <1>11, <1>12, <1>13
       DEF CommandNames, Receipts

-----------------------------------------------------------------------------
(* What the running command does next.                                     *)

\* The rest of a way is a way.
LEMMA Remaining ==
  ASSUME NEW s, NEW x, NEW y, Way(s, x, y), NEW i \in 1 .. Len(s)
  PROVE  /\ Way(SubSeq(s, i, Len(s)), s[i], y)
         /\ SubSeq(s, i, Len(s)) # << >> /\ SubSeq(s, i, Len(s))[1] = s[i]
<1> DEFINE t == SubSeq(s, i, Len(s))
<1>1. Len(s) \in Nat /\ s \in Seq(StepName) BY DEF Way
<1>2. /\ t \in Seq(StepName) /\ Len(t) = Len(s) - i + 1
      /\ \A j \in 1 .. Len(t) : t[j] = s[i + j - 1]
  BY <1>1
<1> HIDE DEF t
<1>3. ASSUME NEW j \in 1 .. Len(t), j < Len(t) PROVE Follows(t[j], t[j + 1])
  <2>1. t[j] = s[i + j - 1] /\ t[j + 1] = s[i + (j + 1) - 1] BY <1>2, <1>3
  <2>3. i + (j + 1) - 1 = i + j - 1 + 1 BY <1>1
  <2>2. i + j - 1 \in 1 .. Len(s) /\ i + j - 1 < Len(s) BY <1>1, <1>2, <1>3
  <2> QED BY <2>1, <2>2, <2>3 DEF Way
<1>4. t[1] = s[i] /\ t[Len(t)] = y /\ Len(t) > 0 BY <1>1, <1>2 DEF Way
<1>5. Way(t, s[i], y) BY <1>2, <1>3, <1>4 DEF Way
<1>6. t # << >> BY <1>2, <1>4
<1> QED BY <1>4, <1>5, <1>6 DEF t

LEMMA RemainingPath ==
  ASSUME NEW s, Path(s), NEW i \in 1 .. Len(s)
  PROVE  /\ Path(SubSeq(s, i, Len(s)))
         /\ SubSeq(s, i, Len(s)) # << >> /\ SubSeq(s, i, Len(s))[1] = s[i]
<1>1. PICK x \in StepName, y \in Endings : Way(s, x, y) BY DEF Path
<1>2. s[i] \in StepName BY <1>1 DEF Way
<1> QED BY <1>1, <1>2, Remaining DEF Path

\* A step that is no ending has another one after it.
LEMMA GoesOn ==
  ASSUME NEW s, Path(s), NEW i \in 1 .. Len(s), s[i] \notin Endings
  PROVE  i + 1 \in 1 .. Len(s) /\ Follows(s[i], s[i + 1])
<1>1. PICK x \in StepName, y \in Endings : Way(s, x, y) BY DEF Path
<1>2. Len(s) \in Nat /\ i < Len(s) BY <1>1 DEF Way
<1> QED BY <1>1, <1>2 DEF Way

\* A command that is at a step other than a reconnection or its report does
\* not fail and has a way to go.
LEMMA Running ==
  ASSUME OpInv, op.todo # << >>, ~op.failing \/ At \notin Joins \cup {"raise"}
  PROVE  ~op.failing /\ op.cmd # "idle" /\ Path(op.todo) /\ At = op.todo[1] /\ At \in StepName
<1>1. op.cmd # "idle" BY DEF OpInv, Idle
<1>2. ~op.failing
  <2>1. <<op.arm>>[1] = op.arm /\ <<"raise">>[1] = "raise" OBVIOUS
  <2> QED BY <2>1 DEF OpInv, At
<1>3. Path(op.todo) /\ At = op.todo[1] BY <1>1, <1>2 DEF OpInv, At, Op
<1> QED BY <1>1, <1>2, <1>3 DEF Path, Way

\* The command at its next step.
Moved(a, b, n, f) ==
  [op EXCEPT !.todo = Tail(@), !.arm = a, !.applied = b, !.tries = n, !.from = f]

\* The next step of the command.
LEMMA Moving ==
  ASSUME OpInv, op.todo # << >>, ~op.failing \/ At \notin Joins \cup {"raise"},
         At \notin Endings \/ Tail(op.todo) # << >>,
         NEW a \in Joins \cup {"none"}, NEW b \in BOOLEAN, NEW n \in Nat, NEW f \in SUBSET Revision,
         op' = Moved(a, b, n, f)
  PROVE  OpInv' /\ Follows(At, At') /\ op'.cmd # "idle" /\ ~op'.failing
<1>1. ~op.failing /\ op.cmd # "idle" /\ Path(op.todo) /\ At = op.todo[1] /\ At \in StepName
  BY Running
<1>2. op.todo \in Seq(StepName) /\ Len(op.todo) \in Nat /\ 1 \in 1 .. Len(op.todo)
  BY <1>1 DEF Path, Way
<1>3. 2 \in 1 .. Len(op.todo) /\ Follows(At, op.todo[2])
  <2>1. CASE At \notin Endings BY <1>1, <1>2, <2>1, GoesOn
  <2>2. CASE Tail(op.todo) # << >>
    <3>1. Len(op.todo) > 1 BY <1>2, <2>2
    <3>2. PICK x \in StepName, y \in Endings : Way(op.todo, x, y) BY <1>1 DEF Path
    <3> QED BY <1>1, <1>2, <3>1, <3>2 DEF Way
  <2> QED BY <2>1, <2>2
<1>4. Tail(op.todo) = SubSeq(op.todo, 2, Len(op.todo)) BY <1>2
<1>5. Path(Tail(op.todo)) /\ Tail(op.todo) # << >> /\ Tail(op.todo)[1] = op.todo[2]
  BY <1>1, <1>3, <1>4, RemainingPath
<1>6. Tail(op.todo) \in Seq(StepName) BY <1>2, <1>3
<1>7. op \in Op BY DEF OpInv
<1>8. /\ op' \in Op /\ op'.todo = Tail(op.todo) /\ op'.cmd = op.cmd /\ op'.failing = op.failing
  BY <1>6, <1>7 DEF Op, Moved
<1>9. At' = op.todo[2] BY <1>5, <1>8 DEF At
<1> QED BY <1>1, <1>3, <1>5, <1>8, <1>9 DEF OpInv

LEMMA Onward ==
  ASSUME OpInv, op.todo # << >>, At \notin Joins \cup Endings, Proceed
  PROVE  /\ OpInv' /\ Follows(At, At') /\ op'.cmd # "idle" /\ ~op'.failing
         /\ op'.arm = op.arm /\ op'.applied = op.applied /\ op'.tries = op.tries
<1>1. op \in Op BY DEF OpInv
<1>2. /\ op.arm \in Joins \cup {"none"} /\ op.applied \in BOOLEAN /\ op.tries \in Nat
      /\ op.from \in SUBSET Revision
  BY <1>1 DEF Op
<1>3. op' = Moved(op.arm, op.applied, op.tries, op.from)
  BY <1>1 DEF Op, Proceed, Rest, Moved
<1>4. OpInv' /\ Follows(At, At') /\ op'.cmd # "idle" /\ ~op'.failing
  <2>1. At \notin Joins \cup {"raise"} /\ At \notin Endings BY DEF Endings
  <2> QED BY <1>2, <1>3, <2>1, Moving
<1>5. op'.arm = op.arm /\ op'.applied = op.applied /\ op'.tries = op.tries
  BY <1>1 DEF Op, Proceed, Rest
<1> QED BY <1>4, <1>5

\* What is armed stays armed until its step.
LEMMA Armed ==
  ASSUME ArmInv, Follows(At, At'), op'.arm = op.arm, op.arm \in Joins \cup {"none"},
         At \notin Joins
  PROVE  ArmInv'
<1>1. CASE op.arm = "none" BY <1>1 DEF ArmInv
<1>2. CASE op.arm # "none" BY <1>2 DEF ArmInv, Follows, Denied, Joins
<1> QED BY <1>1, <1>2

\* The end of a failed command, or what a failed commissioning restores.
LEMMA Ending ==
  ASSUME OpInv, op.cmd # "idle", op' = Raised
  PROVE  /\ OpInv' /\ ArmInv' /\ op'.arm = "none" /\ At' \in {"none", "validate"}
         /\ op'.tries # 0 => op'.tries = op.tries /\ op'.applied = op.applied
<1>1. op \in Op BY DEF OpInv
<1>2. CASE Restores
  <2> DEFINE way == ActivateSteps \o StatusSteps \o <<"raise">>
  <2>1. way \in Seq(StepName) /\ Len(way) > 0 /\ way[1] = "validate" /\ Path(way)
    BY Restoring DEF Way, Path, StepName, Endings
  <2> HIDE DEF way
  <2>2. op' = [op EXCEPT !.todo = way, !.arm = "none", !.failing = FALSE, !.restoring = TRUE]
    BY <1>2 DEF Raised, way
  <2>3. /\ op' \in Op /\ op'.todo = way /\ op'.cmd = op.cmd /\ op'.failing = FALSE
        /\ op'.arm = "none" /\ op'.tries = op.tries /\ op'.applied = op.applied
    BY <1>1, <2>1, <2>2 DEF Op
  <2>4. way # << >> BY <2>1
  <2>5. At' = "validate" BY <2>1, <2>3, <2>4 DEF At
  <2> QED BY <2>1, <2>3, <2>4, <2>5 DEF OpInv, ArmInv
<1>3. CASE ~Restores
  <2>1. op' = Idle BY <1>3 DEF Raised
  <2>2. Idle \in Op BY DEF Op, Idle
  <2> QED BY <2>1, <2>2 DEF OpInv, ArmInv, At, Idle
<1> QED BY <1>2, <1>3

\* A step that failed, of a command that was not failing.
LEMMA Stopping ==
  ASSUME OpInv, op.todo # << >>, op' = Failed
  PROVE  /\ OpInv' /\ ArmInv' /\ op'.arm = op.arm /\ At' \in {"none", "validate"} \cup Joins
         /\ op'.tries # 0 => op'.tries = op.tries /\ op'.applied = op.applied
<1>1. op \in Op /\ op.cmd # "idle" BY DEF OpInv, Idle
<1>2. CASE op.arm # "none"
  <2>1. op' = [op EXCEPT !.todo = <<op.arm>>, !.failing = TRUE] BY <1>2 DEF Failed
  <2>2. op.arm \in Joins BY <1>1, <1>2 DEF Op
  <2>3. <<op.arm>> \in Seq(StepName) BY <2>2 DEF Joins, StepName
  <2>4. /\ op' \in Op /\ op'.todo = <<op.arm>> /\ op'.failing = TRUE /\ op'.cmd = op.cmd
        /\ op'.arm = op.arm /\ op'.tries = op.tries /\ op'.applied = op.applied
    BY <1>1, <2>1, <2>3 DEF Op
  <2>5. <<op.arm>>[1] = op.arm /\ <<op.arm>> # << >> OBVIOUS
  <2>6. At' = op.arm BY <2>4, <2>5 DEF At
  <2> QED BY <1>1, <2>2, <2>4, <2>5, <2>6 DEF OpInv, ArmInv
<1>3. CASE op.arm = "none"
  <2>1. op' = Raised BY <1>3 DEF Failed
  <2> QED BY <1>1, <1>3, <2>1, Ending
<1> QED BY <1>2, <1>3

-----------------------------------------------------------------------------
(* Steps that leave the units, the artifacts and the deployments alone.    *)

\* The steps at which something is assumed of the ones before.
Critical == {"stopConsumer", "attempt", "quarantine", "compile",
             "revoke", "conceal", "unbind", "preserved", "files"}

\* Where a step may lead without being the one that prepares what follows.
Came == At' \notin Critical \/ (At \notin {"inspect", "stopConsumer", "disable"} /\ Follows(At, At'))

\* What is owed to an owner stays owed.
Keeps == \A j \in Joins \ {"joinSession"} : Owed(j) => Owed(j)'

\* The rest of the state keeps its types.
Kept == /\ identity' \in [admitted : BOOLEAN, projection : {"none", "live", "revoked"}]
        /\ catalog' \in [adds : Nat, edits : Nat] /\ catalog'.adds <= 1
        /\ op'.tries # 0 => op'.applied

LEMMA Arms == "joinReadiness" \in Joins \ {"joinSession"} /\ "joinBackend" \in Joins \ {"joinSession"}
              /\ "joinOwner" \in Joins \ {"joinSession"} /\ "joinTunnel" \in Joins \ {"joinSession"}
BY DEF Joins

LEMMA Steady ==
  ASSUME IInv, OpInv', ArmInv', Came, Kept,
         Keeps, broken' \subseteq Joins,
         UNCHANGED <<head, unit, stalled, enabled, console, frontend, replicas>>
  PROVE  IInv'
<1>1. Types'
  <2>1. (op.cmd = "idle" <=> op.todo = << >>)' BY DEF OpInv, Idle
  <2> QED BY <2>1 DEF IInv, Types, TypeOK, Kept
<1>2. CutInv' BY Arms DEF IInv, CutInv, Keeps
<1>3. DisabledInv'
  <2>1. CASE At' \notin Critical BY <2>1 DEF DisabledInv, Critical
  <2>2. CASE At \notin {"inspect", "stopConsumer", "disable"} /\ Follows(At, At')
    BY <2>2 DEF IInv, DisabledInv, Follows
  <2> QED BY <2>1, <2>2 DEF Came
<1>4. RepairInv'
  <2>1. CASE At' \notin Critical BY <2>1 DEF IInv, RepairInv, Critical
  <2>2. CASE At \notin {"inspect", "stopConsumer", "disable"} /\ Follows(At, At')
    BY <2>2 DEF IInv, RepairInv, Follows
  <2> QED BY <2>1, <2>2 DEF Came
<1>5. ServeInv'
  <2>1. CASE At' \notin Critical BY <2>1 DEF ServeInv, Critical
  <2>2. CASE At \notin {"inspect", "stopConsumer", "disable"} /\ Follows(At, At')
    BY <2>2 DEF IInv, ServeInv, Follows
  <2> QED BY <2>1, <2>2 DEF Came
<1>6. CatalogInv' BY DEF Kept, CatalogInv
<1> QED BY <1>1, <1>2, <1>3, <1>4, <1>5, <1>6 DEF IInv

LEMMA AtStep ==
  ASSUME op \in Op, NEW step, Now(step)
  PROVE  op.todo # << >> /\ At = step
BY DEF Now, At, Op

LEMMA IInvFacts ==
  ASSUME IInv
  PROVE  /\ OpInv /\ ArmInv /\ op \in Op /\ op.arm \in Joins \cup {"none"}
         /\ op.applied \in BOOLEAN /\ op.tries \in Nat /\ op.from \in SUBSET Revision
         /\ catalog \in [adds : Nat, edits : Nat] /\ catalog.adds <= 1
         /\ op.tries # 0 => op.applied
         /\ identity \in [admitted : BOOLEAN, projection : {"none", "live", "revoked"}]
BY DEF IInv, Types, TypeOK, CatalogInv, OpInv, Op

LEMMA Breaks == ASSUME IInv PROVE broken \subseteq Joins
BY DEF IInv, Types

\* A command that goes on or fails after a step of this kind.
LEMMA Passing ==
  ASSUME IInv, op.todo # << >>, At \notin Joins \cup Endings,
         Proceed \/ Fail, At \notin {"inspect", "stopConsumer", "disable"} \/ Fail,
         identity' \in [admitted : BOOLEAN, projection : {"none", "live", "revoked"}],
         UNCHANGED <<head, unit, stalled, enabled, console, frontend, replicas, catalog, broken>>
  PROVE  IInv'
<1> USE IInvFacts
<1>1. OpInv' /\ ArmInv' /\ op'.arm = op.arm /\ Came /\ (op'.tries # 0 => op'.applied)
  <2>1. CASE Fail
    <3>1. /\ OpInv' /\ ArmInv' /\ op'.arm = op.arm /\ At' \in {"none", "validate"} \cup Joins
          /\ op'.tries # 0 => op'.tries = op.tries /\ op'.applied = op.applied
      BY <2>1, Stopping DEF Fail
    <3> QED BY <3>1 DEF Came, Critical, Joins
  <2>2. CASE Proceed /\ At \notin {"inspect", "stopConsumer", "disable"}
    <3>1. /\ OpInv' /\ Follows(At, At') /\ op'.arm = op.arm /\ op'.applied = op.applied
          /\ op'.tries = op.tries
      BY <2>2, Onward
    <3>2. ArmInv' BY <3>1, Armed
    <3> QED BY <2>2, <3>1, <3>2 DEF Came
  <2> QED BY <2>1, <2>2
<1>2. Keeps BY <1>1 DEF Keeps, Owed
<1>3. Kept BY <1>1 DEF Kept
<1> QED BY <1>1, <1>2, <1>3, Steady, Breaks

LEMMA CheckStep == ASSUME IInv, Check PROVE IInv'
<1>1. op.todo # << >> /\ At = Head(op.todo) /\ At \in DOMAIN Checks BY DEF Check, At
<1>2. At \notin Joins \cup Endings \cup {"inspect", "stopConsumer", "disable"}
  BY <1>1 DEF Checks, Joins, Endings, Receipts
<1>3. Proceed \/ Fail BY DEF Check, Require
<1>4. UNCHANGED <<head, unit, stalled, enabled, console, frontend, replicas, catalog, broken, identity>>
  BY DEF Check, files, owners, history
<1> QED BY <1>1, <1>2, <1>3, <1>4, Passing, IInvFacts

LEMMA ValidateStep == ASSUME IInv, Validate PROVE IInv'
<1>1. Now("validate") /\ Proceed
      /\ UNCHANGED <<head, unit, stalled, enabled, console, frontend, replicas, catalog, broken, identity>>
  BY DEF Validate, files, owners, history
<1>2. op.todo # << >> /\ At = "validate" BY <1>1, IInvFacts, AtStep
<1> QED BY <1>1, <1>2, Passing, IInvFacts DEF Joins, Endings, Receipts

LEMMA SourceRefusedStep == ASSUME IInv, SourceRefused PROVE IInv'
<1>1. Now("validate") /\ Fail
      /\ UNCHANGED <<head, unit, stalled, enabled, console, frontend, replicas, catalog, broken, identity>>
  BY DEF SourceRefused, files, owners, history
<1>2. op.todo # << >> /\ At = "validate" BY <1>1, IInvFacts, AtStep
<1> QED BY <1>1, <1>2, Passing, IInvFacts DEF Joins, Endings, Receipts

LEMMA IdentityRefusedStep == ASSUME IInv, IdentityRefused PROVE IInv'
<1>1. /\ Now("issue") \/ Now("revoke") \/ Now("cutSession")
      /\ Fail
      /\ UNCHANGED <<head, unit, stalled, enabled, console, frontend, replicas, catalog, broken, identity>>
  BY DEF IdentityRefused, files, owners, history
<1>2. op.todo # << >> /\ At \in {"issue", "revoke", "cutSession"} BY <1>1 DEF Now, At
<1> QED BY <1>1, <1>2, Passing, IInvFacts DEF Joins, Endings, Receipts

LEMMA ProposalRefusedStep == ASSUME IInv, ProposalRefused PROVE IInv'
<1>1. Now("children") /\ Fail
      /\ UNCHANGED <<head, unit, stalled, enabled, console, frontend, replicas, catalog, broken, identity>>
  BY DEF ProposalRefused, files, owners, history
<1>2. op.todo # << >> /\ At = "children" BY <1>1, IInvFacts, AtStep
<1> QED BY <1>1, <1>2, Passing, IInvFacts DEF Joins, Endings, Receipts

LEMMA StepFailsStep == ASSUME IInv, StepFails PROVE IInv'
<1>1. op.todo # << >> /\ Head(op.todo) \in External /\ Fail
      /\ UNCHANGED <<head, unit, stalled, enabled, console, frontend, replicas, catalog, broken, identity>>
  BY DEF StepFails, files, owners, history
<1>2. At \in External BY <1>1 DEF At
<1> QED BY <1>1, <1>2, Passing, IInvFacts DEF Joins, Endings, Receipts, External

LEMMA SecretStep == ASSUME IInv, Secret PROVE IInv'
<1>1. Now("secret") /\ Proceed
      /\ UNCHANGED <<head, unit, stalled, enabled, console, frontend, replicas, catalog, broken, identity>>
  BY DEF Secret, files, history
<1>2. op.todo # << >> /\ At = "secret" BY <1>1, IInvFacts, AtStep
<1> QED BY <1>1, <1>2, Passing, IInvFacts DEF Joins, Endings, Receipts

LEMMA KeySteps == ASSUME IInv, Bind \/ Expose \/ Environment \/ Conceal \/ Unbind PROVE IInv'
<1>1. PICK step \in {"bind", "expose", "environment", "conceal", "unbind"} :
        \E new : SetKey(step, new)
  BY DEF Bind, Expose, Environment, Conceal, Unbind
<1>2. Now(step) /\ Proceed
      /\ UNCHANGED <<head, unit, stalled, enabled, console, frontend, replicas, catalog, broken, identity>>
  BY <1>1 DEF SetKey, files, history
<1>3. op.todo # << >> /\ At = step BY <1>2, IInvFacts, AtStep
<1> QED BY <1>2, <1>3, Passing, IInvFacts DEF Joins, Endings, Receipts

LEMMA RolloutStep == ASSUME IInv, Rollout PROVE IInv'
<1>1. Now("rollout") /\ Proceed
      /\ UNCHANGED <<head, unit, stalled, enabled, console, frontend, replicas, catalog, broken, identity>>
  BY DEF Rollout, files, owners, history
<1>2. op.todo # << >> /\ At = "rollout" BY <1>1, IInvFacts, AtStep
<1> QED BY <1>1, <1>2, Passing, IInvFacts DEF Joins, Endings, Receipts

\* The identity that a session has, or no longer has.
LEMMA Identities ==
  ASSUME IInv
  PROVE  /\ Revoked \in [admitted : BOOLEAN, projection : {"none", "live", "revoked"}]
         /\ Issued \in [admitted : BOOLEAN, projection : {"none", "live", "revoked"}]
BY IInvFacts DEF Revoked, Issued

LEMMA IdentitySteps == ASSUME IInv, RevokeOld \/ Revoke \/ Issue PROVE IInv'
<1>1. PICK step \in {"revokeOld", "revoke", "issue"}, new \in {Revoked, Issued},
           next \in {Rest, Failed} :
        Now(step) /\ SetIdentity(new, next) /\ UNCHANGED broken
  BY DEF RevokeOld, Revoke, Issue
<1>2. /\ Proceed \/ Fail
      /\ identity' \in [admitted : BOOLEAN, projection : {"none", "live", "revoked"}]
      /\ UNCHANGED <<head, unit, stalled, enabled, console, frontend, replicas, catalog, broken>>
  BY <1>1, Identities DEF SetIdentity, files, Proceed, Fail
<1>3. op.todo # << >> /\ At = step BY <1>1, IInvFacts, AtStep
<1> QED BY <1>2, <1>3, Passing DEF Joins, Endings, Receipts

LEMMA CutSessionStep == ASSUME IInv, CutSession PROVE IInv'
<1>1. /\ Now("cutSession") /\ op' = [Rest EXCEPT !.arm = "joinSession"]
      /\ identity' = Revoked
      /\ UNCHANGED <<head, unit, stalled, enabled, console, frontend, replicas, catalog, broken>>
  BY DEF CutSession, SetIdentity, files
<1>2. op.todo # << >> /\ At = "cutSession" BY <1>1, IInvFacts, AtStep
<1>3. op' = Moved("joinSession", op.applied, op.tries, op.from)
  BY <1>1, IInvFacts DEF Op, Rest, Moved
<1>4. OpInv' /\ Follows(At, At')
  BY <1>2, <1>3, IInvFacts, Moving DEF Joins, Endings, Receipts
<1>5. op'.arm = "joinSession" /\ op'.tries = op.tries /\ op'.applied = op.applied
  BY <1>3, IInvFacts DEF Op, Moved
<1>6. ArmInv' BY <1>2, <1>4, <1>5 DEF ArmInv, Follows, Denied
<1>7. Keeps
  <2>1. op.arm = "none" BY <1>2, IInvFacts DEF ArmInv, Denied, Joins
  <2> QED BY <1>1, <2>1 DEF Keeps, Owed, Joins
<1>8. Kept BY <1>1, <1>5, Identities, IInvFacts DEF Kept
<1>9. Came BY <1>2, <1>4 DEF Came
<1> QED BY <1>1, <1>4, <1>6, <1>7, <1>8, <1>9, Steady, Breaks

\* The end of a reconnection.
LEMMA Reconnecting ==
  ASSUME OpInv, op.todo # << >>, At \in Joins, op' = Joined
  PROVE  /\ OpInv' /\ ArmInv' /\ op'.arm = "none" /\ At' \notin Critical
         /\ op'.tries # 0 => op'.tries = op.tries /\ op'.applied = op.applied
<1>1. op \in Op /\ op.cmd # "idle" BY DEF OpInv, Idle
<1>2. CASE op.failing
  <2>1. op' = Raised BY <1>2 DEF Joined
  <2> QED BY <1>1, <2>1, Ending DEF Critical
<1>3. CASE ~op.failing
  <2>1. op' = Moved("none", op.applied, op.tries, op.from)
    BY <1>1, <1>3 DEF Joined, Rest, Op, Moved
  <2>2. /\ op.applied \in BOOLEAN /\ op.tries \in Nat /\ op.from \in SUBSET Revision
        /\ At \notin Endings
    BY <1>1 DEF Op, Joins, Endings, Receipts
  <2>3. OpInv' /\ Follows(At, At') BY <1>3, <2>1, <2>2, Moving
  <2>4. op'.arm = "none" /\ op'.tries = op.tries /\ op'.applied = op.applied
    BY <1>1, <2>1 DEF Op, Moved
  <2>5. At' \notin Critical BY <2>3 DEF Follows, Joins, Critical
  <2> QED BY <2>3, <2>4, <2>5 DEF ArmInv
<1> QED BY <1>1, <1>2, <1>3 DEF Op

\* A reconnection that did not succeed leaves its report.
LEMMA Reporting ==
  ASSUME OpInv, op.todo # << >>,
         op' = [op EXCEPT !.arm = "none", !.todo = <<"raise">>, !.failing = TRUE]
  PROVE  /\ OpInv' /\ ArmInv' /\ At' = "raise"
         /\ op'.tries = op.tries /\ op'.applied = op.applied
<1>1. op \in Op /\ op.cmd # "idle" BY DEF OpInv, Idle
<1>2. <<"raise">> \in Seq(StepName) /\ <<"raise">> # << >> /\ <<"raise">>[1] = "raise"
  BY DEF StepName
<1>3. /\ op' \in Op /\ op'.todo = <<"raise">> /\ op'.failing = TRUE /\ op'.cmd = op.cmd
      /\ op'.arm = "none" /\ op'.tries = op.tries /\ op'.applied = op.applied
  BY <1>1, <1>2 DEF Op
<1> QED BY <1>1, <1>2, <1>3 DEF OpInv, ArmInv, At

LEMMA JoinSessionStep == ASSUME IInv, JoinSession PROVE IInv'
<1>1. /\ Now("joinSession") /\ op.todo # << >> /\ At = "joinSession"
      /\ UNCHANGED <<head, unit, stalled, enabled, console, frontend, replicas, catalog>>
  BY DEF JoinSession, SetIdentity, files, Now, At
<1>2. OpInv' /\ ArmInv' /\ At' \notin Critical /\ (op'.tries # 0 => op'.applied)
      /\ broken' \in {broken \ {"joinSession"}, broken \cup {"joinSession"}}
      /\ identity' \in [admitted : BOOLEAN, projection : {"none", "live", "revoked"}]
  <2>1. CASE identity.admitted
    <3>1. op' = Joined /\ identity' = Issued /\ broken' = broken \ {"joinSession"}
      BY <2>1 DEF JoinSession, SetIdentity
    <3> QED BY <1>1, <3>1, Reconnecting, IInvFacts, Identities DEF Joins
  <2>2. CASE ~identity.admitted
    <3>1. /\ op' = [op EXCEPT !.arm = "none", !.todo = <<"raise">>, !.failing = TRUE]
          /\ identity' = Revoked /\ broken' = broken \cup {"joinSession"}
      BY <2>2 DEF JoinSession, SetIdentity
    <3>2. OpInv' /\ ArmInv' /\ At' = "raise" /\ op'.tries = op.tries /\ op'.applied = op.applied
      BY <1>1, <3>1, Reporting, IInvFacts
    <3> QED BY <3>1, <3>2, IInvFacts, Identities DEF Critical
  <2> QED BY <2>1, <2>2
<1>3. Keeps
  <2>1. op.arm \in {"none", "joinSession"} BY <1>1, IInvFacts DEF ArmInv, Denied, Joins
  <2> QED BY <1>2, <2>1 DEF Keeps, Owed, Joins
<1>4. Kept BY <1>1, <1>2, IInvFacts DEF Kept
<1>5. broken' \subseteq Joins BY <1>2, Breaks DEF Joins
<1> QED BY <1>1, <1>2, <1>3, <1>4, <1>5, Steady, Breaks DEF Came

LEMMA JoinFailsStep == ASSUME IInv, JoinFails PROVE IInv'
<1>1. /\ op.todo # << >>
      /\ op' = [op EXCEPT !.arm = "none", !.todo = <<"raise">>, !.failing = TRUE]
      /\ At \in Joins /\ broken' = broken \cup {At}
      /\ UNCHANGED <<head, unit, stalled, enabled, console, frontend, replicas, catalog, identity>>
  BY DEF JoinFails, files, owners, At
<1>2. OpInv' /\ ArmInv' /\ At' = "raise" /\ op'.tries = op.tries /\ op'.applied = op.applied
  BY <1>1, Reporting, IInvFacts
<1>3. Came BY <1>2 DEF Came, Critical
<1>4. Kept BY <1>1, <1>2, IInvFacts DEF Kept
<1>5. Keeps
  <2>1. op.arm \in {"none", At} BY <1>1, IInvFacts DEF ArmInv, Denied, Joins
  <2> QED BY <1>1, <2>1 DEF Keeps, Owed, Joins
<1>6. broken' \subseteq Joins BY <1>1, Breaks
<1> QED BY <1>1, <1>2, <1>3, <1>4, <1>5, <1>6, Steady, Breaks

LEMMA KilledStep == ASSUME IInv, Killed PROVE IInv'
<1>1. /\ op' = Idle /\ broken' = broken \cup ({op.arm} \cap Joins)
      /\ UNCHANGED <<head, unit, stalled, enabled, console, frontend, replicas, catalog, identity>>
  BY DEF Killed, files, owners
<1>2. Idle \in Op BY DEF Op, Idle
<1>3. OpInv' /\ ArmInv' /\ At' = "none" /\ op'.tries = 0
  BY <1>1, <1>2 DEF OpInv, ArmInv, At, Idle
<1>4. Came BY <1>3 DEF Came, Critical
<1>5. Kept BY <1>1, <1>3, IInvFacts DEF Kept
<1>6. Keeps BY <1>1 DEF Keeps, Owed
<1>7. broken' \subseteq Joins BY <1>1, Breaks
<1> QED BY <1>1, <1>3, <1>4, <1>5, <1>6, <1>7, Steady, Breaks

LEMMA CommandStep == ASSUME IInv, Command PROVE IInv'
<1>1. PICK cmd \in CommandNames : op' = [Idle EXCEPT !.cmd = cmd, !.todo = Plan(cmd)]
  BY DEF Command
<1>2. /\ op.cmd = "idle"
      /\ UNCHANGED <<head, unit, stalled, enabled, console, frontend, replicas, catalog, identity,
                     broken>>
  BY DEF Command, files, owners
<1>3. PICK x \in {"validate", "disable"}, y \in Endings : Way(Plan(cmd), x, y) BY Plans
<1>4. /\ Plan(cmd) \in Seq(StepName) /\ Plan(cmd) # << >> /\ Plan(cmd)[1] = x
      /\ Path(Plan(cmd))
  BY <1>3 DEF Way, Path, StepName
<1>5. Idle \in Op BY DEF Op, Idle
<1>6. /\ op' \in Op /\ op'.cmd = cmd /\ op'.todo = Plan(cmd) /\ op'.failing = FALSE
      /\ op'.arm = "none" /\ op'.tries = 0
  BY <1>1, <1>4, <1>5 DEF Op, Idle
<1>7. cmd # "idle" BY DEF CommandNames
<1>8. OpInv' /\ ArmInv' /\ At' = x
  BY <1>4, <1>6, <1>7 DEF OpInv, ArmInv, At
<1>9. Came BY <1>8 DEF Came, Critical
<1>10. op.arm = "none" BY <1>2, IInvFacts DEF OpInv, Idle
<1>11. Keeps BY <1>2, <1>10 DEF Keeps, Owed, Joins
<1>12. Kept BY <1>2, <1>6, IInvFacts DEF Kept
<1> QED BY <1>2, <1>8, <1>9, <1>11, <1>12, Steady, Breaks

LEMMA RaiseStep == ASSUME IInv, Raise PROVE IInv'
<1>1. /\ op.todo # << >> /\ At = "raise" /\ op' = Raised
      /\ UNCHANGED <<head, unit, stalled, enabled, console, frontend, replicas, catalog, identity,
                     broken>>
  BY DEF Raise, Now, At, files, owners, history
<1>2. op.arm = "none" BY <1>1, IInvFacts DEF ArmInv, Denied, Joins
<1>3. op.cmd # "idle" BY <1>1, IInvFacts DEF OpInv, Idle
<1>4. /\ OpInv' /\ ArmInv' /\ At' \in {"none", "validate"}
      /\ op'.tries # 0 => op'.applied
  BY <1>1, <1>3, Ending, IInvFacts
<1>5. Came BY <1>4 DEF Came, Critical
<1>6. Keeps BY <1>1, <1>2 DEF Keeps, Owed, Joins
<1>7. Kept BY <1>1, <1>4, IInvFacts DEF Kept
<1> QED BY <1>1, <1>4, <1>5, <1>6, <1>7, Steady, Breaks

\* No command.
LEMMA Resting ==
  ASSUME op' = Idle
  PROVE  OpInv' /\ ArmInv' /\ op'.arm = "none" /\ op'.tries = 0 /\ At' = "none"
<1>1. Idle \in Op BY DEF Op, Idle
<1> QED BY <1>1 DEF OpInv, ArmInv, At, Idle

\* The count of the attempts is reset.
LEMMA Resetting ==
  ASSUME NEW f \in Op
  PROVE  LET g == [f EXCEPT !.applied = FALSE, !.tries = 0]
         IN  /\ g \in Op /\ g.todo = f.todo /\ g.failing = f.failing /\ g.cmd = f.cmd
             /\ g.arm = f.arm /\ g.tries = 0
BY DEF Op

\* A mutation that is not tried again.
LEMMA Abandoning ==
  ASSUME OpInv, op.todo # << >>, op' = [Failed EXCEPT !.applied = FALSE, !.tries = 0]
  PROVE  /\ OpInv' /\ ArmInv' /\ op'.arm = op.arm /\ At' \in {"none", "validate"} \cup Joins
         /\ op'.tries = 0
<1>1. op \in Op /\ op.cmd # "idle" BY DEF OpInv, Idle
<1>2. /\ Failed \in Op /\ Failed.arm = op.arm
      /\ \/ /\ op.arm # "none" /\ Failed.todo = <<op.arm>> /\ Failed.failing = TRUE
            /\ Failed.cmd = op.cmd
         \/ /\ op.arm = "none" /\ Failed.todo # << >> /\ Failed.todo[1] = "validate"
            /\ Path(Failed.todo) /\ Failed.failing = FALSE /\ Failed.cmd = op.cmd
         \/ op.arm = "none" /\ Failed = Idle
  <2>1. CASE op.arm # "none"
    <3>1. Failed = [op EXCEPT !.todo = <<op.arm>>, !.failing = TRUE] BY <2>1 DEF Failed
    <3>2. <<op.arm>> \in Seq(StepName) BY <1>1, <2>1 DEF Op, Joins, StepName
    <3> QED BY <1>1, <2>1, <3>1, <3>2 DEF Op
  <2>2. CASE op.arm = "none" /\ Restores
    <3> DEFINE way == ActivateSteps \o StatusSteps \o <<"raise">>
    <3>1. way \in Seq(StepName) /\ Len(way) > 0 /\ way[1] = "validate" /\ Path(way)
      BY Restoring DEF Way, Path, StepName, Endings
    <3> HIDE DEF way
    <3>2. Failed = [op EXCEPT !.todo = way, !.arm = "none", !.failing = FALSE, !.restoring = TRUE]
      BY <2>2 DEF Failed, Raised, way
    <3>3. way # << >> BY <3>1
    <3> QED BY <1>1, <2>2, <3>1, <3>2, <3>3 DEF Op
  <2>3. CASE op.arm = "none" /\ ~Restores BY <2>3 DEF Failed, Raised, Op, Idle
  <2> QED BY <2>1, <2>2, <2>3
<1> DEFINE f == Failed
<1>3. op' = [f EXCEPT !.applied = FALSE, !.tries = 0] /\ f \in Op BY <1>2
<1> HIDE DEF f
<1>4. /\ op' \in Op /\ op'.todo = f.todo /\ op'.failing = f.failing /\ op'.cmd = f.cmd
      /\ op'.arm = f.arm /\ op'.tries = 0
  BY Zenon, <1>3, Resetting
<1>5. CASE op.arm # "none" /\ f.todo = <<op.arm>> /\ f.failing = TRUE /\ f.cmd = op.cmd
  <2>1. op.arm \in Joins BY <1>1, <1>5 DEF Op
  <2>2. <<op.arm>>[1] = op.arm /\ <<op.arm>> # << >> OBVIOUS
  <2>3. f.arm = op.arm BY <1>2 DEF f
  <2>4. At' = op.arm BY <1>4, <1>5, <2>2 DEF At
  <2> QED BY <1>1, <1>4, <1>5, <2>1, <2>2, <2>3, <2>4 DEF OpInv, ArmInv
<1>6. CASE /\ op.arm = "none" /\ f.todo # << >> /\ f.todo[1] = "validate"
           /\ Path(f.todo) /\ f.failing = FALSE /\ f.cmd = op.cmd
  <2>1. f.arm = op.arm BY <1>2 DEF f
  <2>2. At' = "validate" BY <1>4, <1>6 DEF At
  <2> QED BY <1>1, <1>4, <1>6, <2>1, <2>2 DEF OpInv, ArmInv
<1>7. CASE op.arm = "none" /\ f = Idle
  <2>1. op' = Idle BY <1>3, <1>7 DEF Idle
  <2> QED BY Zenon, <1>7, <2>1, Resting
<1> QED BY <1>2, <1>5, <1>6, <1>7 DEF f

\* The same mutation once more.
LEMMA Repeating ==
  ASSUME OpInv, op.todo # << >>, At \in {"add", "edit"}, ArmInv,
         NEW n \in Nat, op' = [op EXCEPT !.applied = TRUE, !.tries = n]
  PROVE  OpInv' /\ ArmInv' /\ op'.arm = op.arm /\ At' = At /\ op'.applied = TRUE
<1>1. op \in Op /\ op.cmd # "idle" BY DEF OpInv, Idle
<1>2. ~op.failing /\ Path(op.todo) BY Running DEF Joins
<1>3. /\ op' \in Op /\ op'.todo = op.todo /\ op'.failing = op.failing /\ op'.cmd = op.cmd
      /\ op'.arm = op.arm /\ op'.applied = TRUE
  BY <1>1 DEF Op
<1>4. At' = At BY <1>3 DEF At
<1> QED BY <1>1, <1>2, <1>3, <1>4 DEF OpInv, ArmInv

\* What a mutation adds.
LEMMA Counting ==
  ASSUME IInv
  PROVE  /\ \A kind \in {"adds", "edits"} : Counted(kind) \in [adds : Nat, edits : Nat]
         /\ Counted("edits").adds = catalog.adds
         /\ catalog.adds = 0 \/ op.applied => Counted("adds").adds <= 1
BY IInvFacts DEF Counted, Replayed

LEMMA MutateStep ==
  ASSUME IInv,
         NEW step \in {"add", "edit"}, NEW kind \in {"adds", "edits"},
         step = "add" <=> kind = "adds", Mutate(step, kind)
  PROVE  IInv'
<1> USE IInvFacts
<1>1. /\ op.todo # << >> /\ At = step
      /\ UNCHANGED <<head, unit, stalled, enabled, console, frontend, replicas, identity, broken>>
  BY DEF Mutate, Now, At, files, history
<1>2. At \notin Joins \cup Endings \cup {"inspect", "stopConsumer", "disable"}
  BY <1>1 DEF Joins, Endings, Receipts
<1>3. /\ OpInv' /\ ArmInv' /\ op'.arm = op.arm /\ Came
      /\ op'.tries # 0 => op'.applied
      /\ catalog' \in {catalog, Counted(kind)}
      /\ step = "add" /\ catalog' = Counted(kind) => catalog.adds = 0 \/ op.applied \/ op.tries # 0
  <2>1. CASE Proceed /\ catalog' = catalog
    <3>1. /\ OpInv' /\ Follows(At, At') /\ op'.arm = op.arm /\ op'.applied = op.applied
          /\ op'.tries = op.tries
      BY <1>1, <1>2, <2>1, Onward
    <3>2. ArmInv' BY <1>2, <3>1, Armed
    <3>3. Came BY <1>2, <3>1 DEF Came
    <3>4. step = "add" /\ catalog' = Counted(kind) => catalog.adds = 0 \/ op.applied \/ op.tries # 0
      BY <2>1 DEF Counted, Replayed
    <3> QED BY <2>1, <3>1, <3>2, <3>3, <3>4
  <2>2. CASE /\ op' = [Failed EXCEPT !.applied = FALSE, !.tries = 0]
             /\ step = "add" => catalog.adds = 0 \/ op.applied \/ op.tries # 0
             /\ catalog' \in {catalog, Counted(kind)}
    <3>1. /\ OpInv' /\ ArmInv' /\ op'.arm = op.arm /\ At' \in {"none", "validate"} \cup Joins
          /\ op'.tries = 0
      BY <1>1, <2>2, Abandoning
    <3>2. Came BY <3>1 DEF Came, Critical, Joins
    <3> QED BY <2>2, <3>1, <3>2
  <2>3. CASE /\ op' = Answered
             /\ step = "add" => catalog.adds = 0 \/ op.applied \/ op.tries # 0
             /\ catalog' = Counted(kind)
    <3>1. op' = Moved(op.arm, FALSE, 0, op.from)
      BY <2>3 DEF Answered, Rest, Op, Moved
    <3>2. OpInv' /\ Follows(At, At') BY <1>1, <1>2, <3>1, Moving DEF Endings
    <3>3. op'.arm = op.arm /\ op'.tries = 0 BY <3>1 DEF Op, Moved
    <3>4. ArmInv' BY <1>2, <3>2, <3>3, Armed
    <3> QED BY <1>2, <2>3, <3>2, <3>3, <3>4 DEF Came
  <2>4. CASE /\ op' = [op EXCEPT !.applied = TRUE, !.tries = @ + 1]
             /\ step = "add" => catalog.adds = 0 \/ op.applied \/ op.tries # 0
             /\ catalog' = Counted(kind)
    <3>1. op' = [op EXCEPT !.applied = TRUE, !.tries = op.tries + 1] /\ op.tries + 1 \in Nat
      BY <2>4 DEF Op
    <3>2. OpInv' /\ ArmInv' /\ op'.arm = op.arm /\ At' = At /\ op'.applied = TRUE
      BY <1>1, <3>1, Repeating
    <3>3. Came BY <1>1, <3>2 DEF Came, Critical
    <3> QED BY <2>4, <3>2, <3>3
  <2>5. \/ Proceed /\ catalog' = catalog
        \/ /\ op' = [Failed EXCEPT !.applied = FALSE, !.tries = 0]
           /\ step = "add" => catalog.adds = 0 \/ op.applied \/ op.tries # 0
           /\ catalog' \in {catalog, Counted(kind)}
        \/ /\ op' = Answered
           /\ step = "add" => catalog.adds = 0 \/ op.applied \/ op.tries # 0
           /\ catalog' = Counted(kind)
        \/ /\ op' = [op EXCEPT !.applied = TRUE, !.tries = @ + 1]
           /\ step = "add" => catalog.adds = 0 \/ op.applied \/ op.tries # 0
           /\ catalog' = Counted(kind)
    BY Zenon DEF Mutate
  <2> QED BY <2>1, <2>2, <2>3, <2>4, <2>5
<1>4. Kept
  <2>1. catalog' \in [adds : Nat, edits : Nat] /\ catalog'.adds <= 1
    <3>1. CASE catalog' = catalog BY <3>1
    <3>2. CASE catalog' = Counted(kind) /\ step = "add"
      <4>1. catalog.adds = 0 \/ op.applied BY <1>3, <3>2
      <4> QED BY <3>2, <4>1, Counting
    <3>3. CASE catalog' = Counted(kind) /\ step = "edit" BY <3>3, Counting
    <3> QED BY <1>3, <3>1, <3>2, <3>3
  <2> QED BY <1>1, <1>3, <2>1 DEF Kept
<1>5. Keeps BY <1>1, <1>3 DEF Keeps, Owed
<1> QED BY <1>1, <1>3, <1>4, <1>5, Steady, Breaks

LEMMA AddStep == ASSUME IInv, Add PROVE IInv'
BY MutateStep DEF Add

LEMMA EditStep == ASSUME IInv, Edit PROVE IInv'
BY MutateStep DEF Edit

LEMMA ReceiptStep == ASSUME IInv, Receipt PROVE IInv'
<1> USE IInvFacts
<1> DEFINE next == [Rest EXCEPT !.from = @ \cup {head}]
<1>1. /\ op.todo # << >> /\ At \in Receipts
      /\ op' = IF next.todo = << >> THEN Idle ELSE next
      /\ UNCHANGED <<head, unit, stalled, enabled, console, frontend, replicas, catalog, identity,
                     broken>>
  BY DEF Receipt, At, files, owners
<1>2. head \in Revision BY DEF IInv, Types, TypeOK
<1>3. next = Moved(op.arm, op.applied, op.tries, op.from \cup {head})
  BY DEF Rest, Op, Moved
<1>4. next.todo = Tail(op.todo) /\ next.arm = op.arm /\ next.tries = op.tries
      /\ next.applied = op.applied
  BY <1>3 DEF Op, Moved
<1> HIDE DEF next
<1>5. op.arm = "none" BY <1>1 DEF ArmInv, Denied, Joins, Receipts
<1>6. OpInv' /\ ArmInv' /\ op'.arm = "none" /\ Came /\ (op'.tries # 0 => op'.applied)
  <2>1. CASE next.todo = << >>
    <3>1. op' = Idle /\ Idle \in Op BY <1>1, <2>1 DEF Op, Idle
    <3> QED BY <3>1 DEF OpInv, ArmInv, At, Idle, Came, Critical
  <2>2. CASE next.todo # << >>
    <3>1. op' = Moved(op.arm, op.applied, op.tries, op.from \cup {head})
      BY <1>1, <1>3, <2>2
    <3>2. At \notin Joins \cup {"raise"} BY <1>1 DEF Receipts, Joins
    <3>3. op.from \cup {head} \in SUBSET Revision BY <1>2
    <3>4. OpInv' /\ Follows(At, At') BY ZenonT(60), <1>1, <1>4, <2>2, <3>1, <3>2, <3>3, Moving
    <3>5. At' \notin Critical BY <1>1, <3>4 DEF Follows, Receipts, Critical
    <3>6. op' = next BY <1>1, <2>2
    <3> QED BY <1>4, <1>5, <3>4, <3>5, <3>6 DEF ArmInv, Came
  <2> QED BY <2>1, <2>2
<1>7. Keeps BY <1>1, <1>5 DEF Keeps, Owed, Joins
<1>8. Kept BY <1>1, <1>6 DEF Kept
<1> QED BY <1>1, <1>6, <1>7, <1>8, Steady, Breaks

-----------------------------------------------------------------------------
(* The frontend.                                                           *)

LEMMA InspectStep == ASSUME IInv, Inspect PROVE IInv'
<1> USE IInvFacts
<1>1. /\ op.todo # << >> /\ At = "inspect"
      /\ UNCHANGED <<head, unit, stalled, enabled, console, frontend, replicas, catalog, identity,
                     broken>>
  BY DEF Inspect, Now, At, files, owners, history
<1>2. At \notin Joins \cup Endings BY <1>1 DEF Joins, Endings, Receipts
<1>3. CASE Fail
  BY <1>1, <1>2, <1>3, Passing
<1>4. CASE Proceed /\ ~Consumed
  <2>1. /\ OpInv' /\ Follows(At, At') /\ op'.arm = op.arm /\ op'.applied = op.applied
        /\ op'.tries = op.tries
    BY <1>1, <1>2, <1>4, Onward
  <2>2. ArmInv' BY <1>2, <2>1, Armed
  <2>3. At' = "stopConsumer" BY <1>1, <2>1 DEF Follows
  <2>4. frontend[head].repairs = 0
    BY <1>4 DEF IInv, Types, TypeOK, RepairInv, Consumed, Front
  <2>5. Types'
    <3>1. (op.cmd = "idle" <=> op.todo = << >>)' BY <2>1 DEF OpInv, Idle
    <3> QED BY <1>1, <2>1, <2>2, <3>1 DEF IInv, Types, TypeOK
  <2>6. CutInv' BY <1>1, <2>1 DEF IInv, CutInv, Owed
  <2>7. DisabledInv' BY <2>3 DEF DisabledInv
  <2>8. RepairInv' BY <1>1, <2>4 DEF IInv, RepairInv
  <2>9. ServeInv' BY <2>3 DEF ServeInv
  <2>10. CatalogInv' BY <1>1, <2>1 DEF CatalogInv
  <2> QED BY <2>5, <2>6, <2>7, <2>8, <2>9, <2>10 DEF IInv
<1> DEFINE s == op.todo
<1>5. /\ Path(s) /\ At = s[1] /\ s \in Seq(StepName) /\ Len(s) \in Nat /\ 1 \in 1 .. Len(s)
      /\ ~op.failing /\ op.cmd # "idle"
  <2>1. Path(s) /\ At = s[1] /\ ~op.failing /\ op.cmd # "idle" BY <1>1, <1>2, Running DEF Endings
  <2> QED BY <2>1 DEF Path, Way
<1>6. /\ 7 \in 1 .. Len(s) /\ s[2] = "stopConsumer" /\ s[3] = "attempt" /\ s[4] = "quarantine"
      /\ s[5] = "compile" /\ s[6] = "build" /\ s[7] = "note"
  <2> HIDE DEF s
  <2>1. 2 \in 1 .. Len(s) /\ s[2] = "stopConsumer"
    BY <1>1, <1>2, <1>5, GoesOn DEF Follows
  <2>2. 3 \in 1 .. Len(s) /\ s[3] = "attempt"
    BY SMTT(30), <1>5, <2>1, GoesOn DEF Follows, Endings, Receipts
  <2>3. 4 \in 1 .. Len(s) /\ s[4] = "quarantine"
    BY <1>5, <2>2, GoesOn DEF Follows, Endings, Receipts
  <2>4. 5 \in 1 .. Len(s) /\ s[5] = "compile"
    BY <1>5, <2>3, GoesOn DEF Follows, Endings, Receipts
  <2>5. 6 \in 1 .. Len(s) /\ s[6] = "build"
    BY <1>5, <2>4, GoesOn DEF Follows, Endings, Receipts
  <2>6. 7 \in 1 .. Len(s) /\ s[7] = "note"
    BY <1>5, <2>5, GoesOn DEF Follows, Endings, Receipts
  <2> QED BY <2>1, <2>2, <2>3, <2>4, <2>5, <2>6
<1>7. ASSUME NEW i \in {4, 7}, Skip(s[i])
      PROVE  /\ OpInv' /\ ArmInv' /\ Keeps /\ At' = s[i + 1] /\ Follows(s[i], At')
             /\ op'.tries = op.tries /\ op'.applied = op.applied
  <2> DEFINE t == SubSeq(s, i + 1, Len(s))
  <2>1. After(s[i]) = t
    <3> DEFINE First(j) == s[j] = s[i] /\ \A k \in 1 .. (j - 1) : s[k] # s[i]
    <3>1. i \in 1 .. Len(s) /\ First(i) BY SMTT(30), <1>1, <1>5, <1>6
    <3>2. ASSUME NEW j \in 1 .. Len(s), First(j) PROVE j = i
      <4>1. ~(i < j) BY <1>5, <3>1, <3>2
      <4>2. ~(j < i) BY <1>5, <3>1, <3>2
      <4> QED BY <1>5, <3>1, <4>1, <4>2
    <3>3. (CHOOSE j \in 1 .. Len(s) : First(j)) = i BY <3>1, <3>2
    <3> QED BY <3>3 DEF After
  <2>2. s[i] \notin Endings BY <1>6 DEF Endings, Receipts
  <2>3. i \in 1 .. Len(s) BY <1>5, <1>6
  <2>4. i + 1 \in 1 .. Len(s) /\ Follows(s[i], s[i + 1]) BY <1>5, <2>2, <2>3, GoesOn
  <2>5. Path(t) /\ t # << >> /\ t[1] = s[i + 1]
    <3>1. i + 1 \in 1 .. Len(s) /\ Path(s) BY <1>5, <2>4
    <3> QED BY ONLY <3>1, RemainingPath
  <2>6. t \in Seq(StepName) BY <1>5, <2>4
  <2> HIDE DEF t
  <2>7. op' = [op EXCEPT !.todo = t] BY <1>7, <2>1 DEF Skip
  <2>8. /\ op' \in Op /\ op'.todo = t /\ op'.cmd = op.cmd /\ op'.failing = op.failing
        /\ op'.arm = op.arm /\ op'.tries = op.tries /\ op'.applied = op.applied
    BY <2>6, <2>7 DEF Op
  <2>9. op.arm = "none" BY <1>1, <1>2 DEF ArmInv, Denied, Joins
  <2>10. At' = s[i + 1] BY <2>5, <2>8 DEF At
  <2> QED BY <1>1, <1>5, <2>4, <2>5, <2>8, <2>9, <2>10 DEF OpInv, ArmInv, Keeps, Owed, Joins
<1>8. CASE Skip("note")
  <2>1. /\ OpInv' /\ ArmInv' /\ Keeps /\ Follows("note", At')
        /\ op'.tries = op.tries /\ op'.applied = op.applied
    BY <1>6, <1>7, <1>8
  <2>2. Came BY <2>1 DEF Came, Follows, Critical
  <2>3. Kept BY <1>1, <2>1 DEF Kept
  <2> QED BY <1>1, <2>1, <2>2, <2>3, Steady, Breaks
<1>9. CASE Skip("quarantine") /\ ~Consumed
  <2>1. /\ OpInv' /\ ArmInv' /\ Keeps /\ At' = "compile"
        /\ op'.tries = op.tries /\ op'.applied = op.applied
    BY <1>6, <1>7, <1>9
  <2>2. frontend[head].repairs = 0
    BY <1>9 DEF IInv, Types, TypeOK, RepairInv, Consumed, Front
  <2>3. Types'
    <3>1. (op.cmd = "idle" <=> op.todo = << >>)' BY <2>1 DEF OpInv, Idle
    <3> QED BY <1>1, <2>1, <3>1 DEF IInv, Types, TypeOK
  <2>4. CutInv' BY <1>1, <2>1, Arms DEF IInv, CutInv, Keeps
  <2>5. DisabledInv' BY <2>1 DEF DisabledInv
  <2>6. RepairInv' BY <1>1, <2>2 DEF IInv, RepairInv
  <2>7. ServeInv' BY <2>1 DEF ServeInv
  <2>8. CatalogInv' BY <1>1, <2>1 DEF CatalogInv
  <2> QED BY <2>3, <2>4, <2>5, <2>6, <2>7, <2>8 DEF IInv
<1> QED BY <1>3, <1>4, <1>8, <1>9 DEF Inspect

LEMMA Frontal ==
  ASSUME IInv,
         NEW step \in {"attempt", "quarantine", "compile", "build", "note", "discard", "close"},
         NEW new \in Front, SetFrontend(step, new), new.repairs <= 1,
         new.incident \in {"none", "closed"} => new.repairs = 0,
         step \in {"attempt", "quarantine"} => new.repairs = 0
  PROVE  IInv'
<1> USE IInvFacts
<1>1. /\ op.todo # << >> /\ At = step /\ Proceed
      /\ frontend' = [frontend EXCEPT ![head] = new]
      /\ UNCHANGED <<head, unit, stalled, enabled, console, replicas, catalog, identity, broken>>
  BY DEF SetFrontend, Now, At, owners, history
<1>2. At \notin Joins \cup Endings BY <1>1 DEF Joins, Endings, Receipts
<1>3. /\ OpInv' /\ Follows(At, At') /\ op'.arm = op.arm /\ op'.applied = op.applied
      /\ op'.tries = op.tries
  BY <1>1, <1>2, Onward
<1>4. ArmInv' BY <1>2, <1>3, Armed
<1>5. head \in Revision /\ frontend \in [Revision -> Front] BY DEF IInv, Types, TypeOK
<1>6. frontend' \in [Revision -> Front] /\ frontend'[head] = new
      /\ \A r \in Revision : r # head => frontend'[r] = frontend[r]
  BY <1>1, <1>5
<1>7. Types'
  <2>1. (op.cmd = "idle" <=> op.todo = << >>)' BY <1>3 DEF OpInv, Idle
  <2>2. \A r \in Revision : /\ frontend'[r].state \in {"none", "good", "corrupt"}
                            /\ frontend'[r].incident \in {"none", "attempted", "rebuilt", "closed"}
    BY <1>6 DEF Front
  <2> QED BY <1>1, <1>3, <1>4, <1>6, <2>1, <2>2 DEF IInv, Types, TypeOK, Revision
<1>8. CutInv' BY <1>1, <1>3 DEF IInv, CutInv, Owed
<1>9. DisabledInv' BY <1>1, <1>3 DEF IInv, DisabledInv, Follows
<1>10. RepairInv'
  <2>1. \A r \in Revision : /\ frontend'[r].repairs <= 1
                            /\ frontend'[r].incident \in {"none", "closed"}
                                 => frontend'[r].repairs = 0
                            /\ r > head => frontend'[r].incident = "none"
    <3> TAKE r \in Revision
    <3>1. CASE r = head BY <1>5, <1>6, <3>1 DEF Revision
    <3>2. CASE r # head BY <1>6, <3>2 DEF IInv, RepairInv
    <3> QED BY <3>1, <3>2
  <2>2. At' \in {"stopConsumer", "attempt", "quarantine", "compile"} => new.repairs = 0
    BY <1>1, <1>3 DEF Follows
  <2> QED BY <1>1, <1>6, <2>1, <2>2 DEF RepairInv
<1>11. ServeInv' BY <1>1, <1>3 DEF IInv, ServeInv, Follows
<1>12. CatalogInv' BY <1>1, <1>3 DEF CatalogInv
<1> QED BY <1>7, <1>8, <1>9, <1>10, <1>11, <1>12 DEF IInv

LEMMA FrontendFacts ==
  ASSUME IInv
  PROVE  /\ frontend[head] \in Front /\ frontend[head].repairs <= 1
         /\ frontend[head].incident \in {"none", "closed"} => frontend[head].repairs = 0
         /\ At \in {"stopConsumer", "attempt", "quarantine", "compile"} =>
              frontend[head].repairs = 0
BY DEF IInv, Types, TypeOK, RepairInv

LEMMA AttemptStep == ASSUME IInv, Attempt PROVE IInv'
<1> DEFINE new == [frontend[head] EXCEPT !.incident = "attempted"]
<1>1. At = "attempt" BY DEF Attempt, SetFrontend, Now, At
<1>2. new \in Front /\ new.repairs = 0 BY <1>1, FrontendFacts DEF Front
<1>3. SetFrontend("attempt", new) BY DEF Attempt
<1> HIDE DEF new
<1> QED BY <1>2, <1>3, Frontal

LEMMA QuarantineStep == ASSUME IInv, Quarantine PROVE IInv'
<1> DEFINE new == [frontend[head] EXCEPT !.state = "none", !.kept = TRUE]
<1>1. At = "quarantine" BY DEF Quarantine, SetFrontend, Now, At
<1>2. new \in Front /\ new.repairs = 0 BY <1>1, FrontendFacts DEF Front
<1>3. SetFrontend("quarantine", new) BY DEF Quarantine
<1> HIDE DEF new
<1> QED BY <1>2, <1>3, Frontal

LEMMA CompileStep == ASSUME IInv, Compile PROVE IInv'
<1> DEFINE new == IF frontend[head].incident = "attempted"
                    THEN [frontend[head] EXCEPT !.repairs = @ + 1]
                    ELSE frontend[head]
<1>1. At = "compile" BY DEF Compile, SetFrontend, Now, At
<1>2. /\ new \in Front /\ new.repairs <= 1
      /\ new.incident \in {"none", "closed"} => new.repairs = 0
  <2>1. CASE frontend[head].incident = "attempted"
    <3>1. new = [frontend[head] EXCEPT !.repairs = 1] BY <1>1, <2>1, FrontendFacts DEF Front
    <3> QED BY <2>1, <3>1, FrontendFacts DEF Front
  <2>2. CASE frontend[head].incident # "attempted" BY <2>2, FrontendFacts
  <2> QED BY <2>1, <2>2
<1>3. SetFrontend("compile", new) BY DEF Compile
<1> HIDE DEF new
<1> QED BY <1>2, <1>3, Frontal

LEMMA BuildStep == ASSUME IInv, Build PROVE IInv'
<1> DEFINE new == [frontend[head] EXCEPT !.state = "good"]
<1>1. /\ new \in Front /\ new.repairs <= 1
      /\ new.incident \in {"none", "closed"} => new.repairs = 0
  BY FrontendFacts DEF Front
<1>2. SetFrontend("build", new) BY DEF Build
<1> HIDE DEF new
<1> QED BY <1>1, <1>2, Frontal

LEMMA NoteStep == ASSUME IInv, Note PROVE IInv'
<1> DEFINE new == [frontend[head] EXCEPT
                     !.incident = IF frontend[head].kept THEN "rebuilt" ELSE @]
<1>1. /\ new \in Front /\ new.repairs <= 1
      /\ new.incident \in {"none", "closed"} => new.repairs = 0
  BY FrontendFacts DEF Front
<1>2. SetFrontend("note", new) BY DEF Note
<1> HIDE DEF new
<1> QED BY <1>1, <1>2, Frontal

LEMMA DiscardStep == ASSUME IInv, Discard PROVE IInv'
<1> DEFINE new == IF frontend[head].incident = "rebuilt"
                    THEN [frontend[head] EXCEPT !.kept = FALSE] ELSE frontend[head]
<1>1. /\ new \in Front /\ new.repairs <= 1
      /\ new.incident \in {"none", "closed"} => new.repairs = 0
  BY FrontendFacts DEF Front
<1>2. SetFrontend("discard", new) BY DEF Discard
<1> HIDE DEF new
<1> QED BY <1>1, <1>2, Frontal

LEMMA CloseStep == ASSUME IInv, Close PROVE IInv'
<1> DEFINE new == IF frontend[head].incident = "rebuilt"
                    THEN [frontend[head] EXCEPT !.incident = "closed", !.repairs = 0]
                    ELSE frontend[head]
<1>1. /\ new \in Front /\ new.repairs <= 1
      /\ new.incident \in {"none", "closed"} => new.repairs = 0
  <2>1. CASE frontend[head].incident = "rebuilt"
    <3>1. new = [frontend[head] EXCEPT !.incident = "closed", !.repairs = 0] BY <2>1
    <3> HIDE DEF new
    <3>2. new \in Front BY <3>1, FrontendFacts DEF Front
    <3>3. new.repairs = 0 BY <3>1, FrontendFacts DEF Front
    <3> QED BY <3>2, <3>3
  <2>2. CASE frontend[head].incident # "rebuilt" BY <2>2, FrontendFacts
  <2> QED BY <2>1, <2>2
<1>2. SetFrontend("close", new) BY DEF Close
<1> HIDE DEF new
<1> QED BY <1>1, <1>2, Frontal

-----------------------------------------------------------------------------
(* The units and the deployments.                                          *)

\* A step that leads nowhere critical.
LEMMA Linking ==
  ASSUME IInv, OpInv', ArmInv', CutInv', At' \notin Critical,
         op'.tries # 0 => op'.applied,
         unit' \in [Roles -> {"absent", "stopped", "running"}], stalled' \subseteq Roles \ {"console"},
         console' \in [names : 0 .. Revisions, serves : 0 .. Revisions],
         replicas' \in [wgcf : BOOLEAN, backend : BOOLEAN],
         UNCHANGED <<head, enabled, frontend, identity, catalog>>, broken' \subseteq Joins
  PROVE  IInv'
<1>1. (op.cmd = "idle" <=> op.todo = << >>)' BY DEF OpInv, Idle
<1>2. Types' BY <1>1 DEF IInv, Types, TypeOK
<1>3. DisabledInv' /\ ServeInv' BY DEF DisabledInv, ServeInv, Critical
<1>4. RepairInv' BY DEF IInv, RepairInv, Critical
<1>5. CatalogInv' BY DEF IInv, CatalogInv
<1> QED BY <1>2, <1>3, <1>4, <1>5 DEF IInv

LEMMA UnitFacts ==
  ASSUME IInv
  PROVE  /\ unit \in [Roles -> {"absent", "stopped", "running"}]
         /\ stalled \subseteq Roles \ {"console"} /\ enabled \subseteq Roles
         /\ console \in [names : 0 .. Revisions, serves : 0 .. Revisions]
         /\ replicas \in [wgcf : BOOLEAN, backend : BOOLEAN]
         /\ head \in Revision /\ head \in 0 .. Revisions /\ Revisions \in Nat
         /\ \A n \in 0 .. Revisions : Started(n) \in 0 .. Revisions
         /\ 0 \in 0 .. Revisions
BY BoundsAssumption DEF IInv, Types, TypeOK, Started, Revision

\* A command that starts or stops units and goes on.
LEMMA Turning ==
  ASSUME IInv, op.todo # << >>, At \notin Joins \cup Endings \cup {"inspect", "attempt"},
         Proceed \/ Fail,
         unit' \in [Roles -> {"absent", "stopped", "running"}], stalled' \subseteq Roles \ {"console"},
         console' \in [names : 0 .. Revisions, serves : 0 .. Revisions],
         enabled' \subseteq Roles,
         identity' \in [admitted : BOOLEAN, projection : {"none", "live", "revoked"}],
         enabled' = Roles => \A r \in {"oos", "wgcf"} :
                               \/ unit'[r] = "running"
                               \/ enabled = Roles /\ unit[r] # "running",
         At # "enable" => enabled' \subseteq enabled,
         At = "disable" => enabled' = {},
         At = "stopConsumer" => console'.serves = 0 /\ unit'["console"] # "running",
         UNCHANGED <<head, frontend, replicas, catalog, broken>>
  PROVE  IInv'
<1> USE IInvFacts
<1>1. /\ OpInv' /\ ArmInv' /\ op'.arm = op.arm /\ (op'.tries # 0 => op'.applied)
      /\ At' \notin Critical \/ Follows(At, At')
  <2>1. CASE Fail
    <3>1. /\ OpInv' /\ ArmInv' /\ op'.arm = op.arm /\ At' \in {"none", "validate"} \cup Joins
          /\ op'.tries # 0 => op'.tries = op.tries /\ op'.applied = op.applied
      BY <2>1, Stopping DEF Fail
    <3> QED BY <3>1 DEF Critical, Joins
  <2>2. CASE Proceed
    <3>1. /\ OpInv' /\ Follows(At, At') /\ op'.arm = op.arm /\ op'.applied = op.applied
          /\ op'.tries = op.tries
      BY <2>2, Onward
    <3>2. ArmInv' BY <3>1, Armed
    <3> QED BY <3>1, <3>2
  <2> QED BY <2>1, <2>2
<1>2. Types'
  <2>1. (op.cmd = "idle" <=> op.todo = << >>)' BY <1>1 DEF OpInv, Idle
  <2> QED BY <1>1, <2>1 DEF IInv, Types, TypeOK
<1>3. CutInv'
  <2>1. \A j \in Joins : Owed(j)' <=> Owed(j) BY <1>1 DEF Owed
  <2>2. enabled' = Roles => /\ unit'["oos"] = "running" \/ Owed("joinOwner")
                            /\ unit'["wgcf"] = "running" \/ Owed("joinTunnel")
    BY DEF IInv, CutInv
  <2> QED BY <2>1, <2>2, Arms DEF IInv, CutInv
<1>4. DisabledInv'
  <2>1. CASE At' \notin Critical BY <2>1 DEF DisabledInv, Critical
  <2>2. CASE Follows(At, At') BY <2>2 DEF IInv, DisabledInv, Follows
  <2> QED BY <1>1, <2>1, <2>2
<1>5. RepairInv'
  <2>1. CASE At' \notin Critical BY <2>1 DEF IInv, RepairInv, Critical
  <2>2. CASE Follows(At, At') BY <2>2 DEF IInv, RepairInv, Follows
  <2> QED BY <1>1, <2>1, <2>2
<1>6. ServeInv'
  <2>1. CASE At' \notin Critical BY <2>1 DEF ServeInv, Critical
  <2>2. CASE Follows(At, At') BY <2>2 DEF ServeInv, Follows
  <2> QED BY <1>1, <2>1, <2>2
<1>7. CatalogInv' BY <1>1 DEF CatalogInv
<1> QED BY <1>2, <1>3, <1>4, <1>5, <1>6, <1>7 DEF IInv

LEMMA StopConsumerStep == ASSUME IInv, StopConsumer PROVE IInv'
<1> USE IInvFacts, UnitFacts
<1>1. /\ op.todo # << >> /\ At = "stopConsumer" /\ (Proceed \/ Fail)
      /\ unit' = [unit EXCEPT !["console"] = IF @ = "absent" THEN @ ELSE "stopped"]
      /\ console' = [console EXCEPT !.serves = 0]
      /\ UNCHANGED <<head, stalled, enabled, frontend, replicas, catalog, identity, broken>>
  BY DEF StopConsumer, Now, At, Require, owners, history
<1>2. At \notin Joins \cup Endings \cup {"inspect", "attempt"} BY <1>1 DEF Joins, Endings, Receipts
<1>3. /\ unit' \in [Roles -> {"absent", "stopped", "running"}] /\ unit'["console"] # "running"
      /\ unit'["oos"] = unit["oos"] /\ unit'["wgcf"] = unit["wgcf"]
  BY <1>1 DEF Roles
<1>4. console' \in [names : 0 .. Revisions, serves : 0 .. Revisions] /\ console'.serves = 0
  BY <1>1
<1> QED BY <1>1, <1>2, <1>3, <1>4, Turning

LEMMA WriteUnitsStep == ASSUME IInv, WriteUnits PROVE IInv'
<1> USE IInvFacts, UnitFacts
<1>1. /\ op.todo # << >> /\ At = "units" /\ Proceed
      /\ unit' = [r \in Roles |-> Present(r)]
      /\ console' = [console EXCEPT !.names = head]
      /\ UNCHANGED <<head, stalled, enabled, frontend, replicas, catalog, identity, broken>>
  BY DEF WriteUnits, Now, At, owners, history
<1>2. At \notin Joins \cup Endings \cup {"inspect", "attempt"} BY <1>1 DEF Joins, Endings, Receipts
<1>3. /\ unit' \in [Roles -> {"absent", "stopped", "running"}]
      /\ \A r \in {"oos", "wgcf"} : unit[r] = "running" => unit'[r] = "running"
  BY <1>1 DEF Roles, Present
<1>4. console' \in [names : 0 .. Revisions, serves : 0 .. Revisions] BY <1>1
<1> QED BY <1>1, <1>2, <1>3, <1>4, Turning

LEMMA StartSteps == ASSUME IInv, Enable \/ Relaunch PROVE IInv'
<1> USE IInvFacts, UnitFacts
<1>1. PICK step \in {"enable", "relaunch"} :
        /\ step = "enable" \/ enabled' = enabled
        /\ Now(step) /\ Proceed /\ enabled' \in {Roles, enabled}
        /\ unit' = [r \in Roles |-> "running"] /\ stalled' = {}
        /\ console' = [console EXCEPT !.serves = Started(console.names)]
        /\ UNCHANGED <<head, frontend, replicas, catalog, identity, broken>>
  BY DEF Enable, Relaunch, Start, owners, history
<1>2. op.todo # << >> /\ At = step BY <1>1, IInvFacts, AtStep
<1>3. At \notin Joins \cup Endings \cup {"inspect", "attempt"} BY <1>2 DEF Joins, Endings, Receipts
<1>4. /\ unit' \in [Roles -> {"absent", "stopped", "running"}]
      /\ unit'["oos"] = "running" /\ unit'["wgcf"] = "running"
  BY <1>1 DEF Roles
<1>5. console' \in [names : 0 .. Revisions, serves : 0 .. Revisions] BY <1>1
<1> QED BY <1>1, <1>2, <1>3, <1>4, <1>5, Turning

LEMMA TunnelSteps == ASSUME IInv, Tunnels \/ Retunnel PROVE IInv'
<1> USE IInvFacts, UnitFacts
<1>1. PICK step \in {"tunnels", "retunnel"} :
        /\ Now(step) /\ Proceed /\ stalled' \in {stalled, {}}
        /\ \/ unit' = [r \in Roles |-> IF r = "console" THEN unit[r] ELSE Present(r)]
           \/ unit' = [r \in Roles |-> IF r = "console" THEN unit[r] ELSE "running"]
        /\ UNCHANGED <<head, enabled, console, frontend, replicas, catalog, identity, broken>>
  BY DEF Tunnels, Retunnel, files, owners, history
<1>2. op.todo # << >> /\ At = step BY <1>1, IInvFacts, AtStep
<1>3. At \notin Joins \cup Endings \cup {"inspect", "attempt"} BY <1>2 DEF Joins, Endings, Receipts
<1>4. /\ unit' \in [Roles -> {"absent", "stopped", "running"}]
      /\ \A r \in {"oos", "wgcf"} : unit[r] = "running" => unit'[r] = "running"
  BY <1>1 DEF Roles, Present
<1> QED BY <1>1, <1>2, <1>3, <1>4, Turning

LEMMA DisableStep == ASSUME IInv, Disable PROVE IInv'
<1> USE IInvFacts, UnitFacts
<1>1. /\ op.todo # << >> /\ At = "disable" /\ Proceed
      /\ unit' = [r \in Roles |-> IF unit[r] = "absent" THEN "absent" ELSE "stopped"]
      /\ console' = [console EXCEPT !.serves = 0] /\ enabled' = {}
      /\ UNCHANGED <<head, stalled, frontend, replicas, catalog, identity, broken>>
  BY DEF Disable, Now, At, owners, history
<1>2. At \notin Joins \cup Endings \cup {"inspect", "attempt"} BY <1>1 DEF Joins, Endings, Receipts
<1>3. unit' \in [Roles -> {"absent", "stopped", "running"}] BY <1>1
<1>4. console' \in [names : 0 .. Revisions, serves : 0 .. Revisions] BY <1>1
<1>5. enabled' # Roles BY <1>1 DEF Roles
<1> QED BY <1>1, <1>2, <1>3, <1>4, <1>5, Turning

LEMMA RemoveFilesStep == ASSUME IInv, RemoveFiles PROVE IInv'
<1> USE IInvFacts, UnitFacts
<1>1. /\ op.todo # << >> /\ At = "files" /\ Proceed
      /\ unit' = [r \in Roles |-> "absent"]
      /\ identity' = [identity EXCEPT !.projection = "none"]
      /\ UNCHANGED <<head, stalled, enabled, console, frontend, replicas, catalog, broken>>
  BY DEF RemoveFiles, Now, At, files, history
<1>2. At \notin Joins \cup Endings \cup {"inspect", "attempt"} BY <1>1 DEF Joins, Endings, Receipts
<1>3. unit' \in [Roles -> {"absent", "stopped", "running"}] BY <1>1
<1>4. identity' \in [admitted : BOOLEAN, projection : {"none", "live", "revoked"}] BY <1>1
<1>5. enabled' # Roles BY <1>1 DEF IInv, DisabledInv, Roles
<1> QED BY <1>1, <1>2, <1>3, <1>4, <1>5, Turning

\* What a disconnection arms.
LEMMA Cutting ==
  ASSUME IInv, NEW step \in {"cutTunnel", "cutOwner", "cutReadiness", "cutBackend"},
         NEW join \in Joins, Cut(step, join),
         step = "cutTunnel" => join = "joinTunnel", step = "cutOwner" => join = "joinOwner",
         step = "cutReadiness" => join = "joinReadiness",
         step = "cutBackend" => join = "joinBackend"
  PROVE  /\ OpInv' /\ ArmInv' /\ op.arm = "none" /\ op'.arm = join /\ At' \notin Critical
         /\ op'.tries # 0 => op'.applied
<1> USE IInvFacts
<1>1. op.todo # << >> /\ At = step BY DEF Cut, Now, At
<1>2. op' = Moved(join, op.applied, op.tries, op.from)
  BY DEF Cut, Rest, Op, Moved
<1>3. At \notin Joins \cup Endings BY <1>1 DEF Joins, Endings, Receipts
<1>4. OpInv' /\ Follows(At, At') BY <1>1, <1>2, <1>3, Moving DEF Endings
<1>5. op'.arm = join /\ op'.tries = op.tries /\ op'.applied = op.applied BY <1>2 DEF Op, Moved
<1>6. op.arm = "none" BY <1>1 DEF ArmInv, Denied, Joins
<1>7. At' = Denied(join) /\ At' \notin Critical BY <1>1, <1>4 DEF Follows, Denied, Critical
<1> QED BY <1>4, <1>5, <1>6, <1>7 DEF ArmInv

LEMMA CutUnitSteps == ASSUME IInv, CutTunnel \/ CutOwner PROVE IInv'
<1> USE IInvFacts, UnitFacts
<1>1. UNCHANGED <<head, enabled, console, frontend, identity, catalog, broken, replicas>>
  BY DEF CutTunnel, CutOwner, CutUnit, SetUnit, files, owners
<1>2. PICK role \in {"oos", "wgcf"} : SetUnit(role, "stopped")
  BY DEF CutTunnel, CutOwner, CutUnit
<1>3. /\ unit' \in [Roles -> {"absent", "stopped", "running"}]
      /\ stalled' \subseteq Roles \ {"console"}
  BY <1>2 DEF SetUnit, Roles
<1>4. CASE CutTunnel
  <2>1. Cut("cutTunnel", "joinTunnel") /\ SetUnit("wgcf", "stopped") BY <1>4 DEF CutTunnel, CutUnit
  <2>2. /\ OpInv' /\ ArmInv' /\ op.arm = "none" /\ op'.arm = "joinTunnel" /\ At' \notin Critical
        /\ op'.tries # 0 => op'.applied
    BY <2>1, Cutting DEF Joins
  <2>3. unit'["oos"] = unit["oos"] BY <2>1 DEF SetUnit, Roles
  <2>4. CutInv' BY <1>1, <2>2, <2>3 DEF IInv, CutInv, Owed
  <2> QED BY <1>1, <1>3, <2>2, <2>4, Linking, Breaks
<1>5. CASE CutOwner
  <2>1. Cut("cutOwner", "joinOwner") /\ SetUnit("oos", "stopped") BY <1>5 DEF CutOwner, CutUnit
  <2>2. /\ OpInv' /\ ArmInv' /\ op.arm = "none" /\ op'.arm = "joinOwner" /\ At' \notin Critical
        /\ op'.tries # 0 => op'.applied
    BY <2>1, Cutting DEF Joins
  <2>3. unit'["wgcf"] = unit["wgcf"] BY <2>1 DEF SetUnit, Roles
  <2>4. CutInv' BY <1>1, <2>2, <2>3 DEF IInv, CutInv, Owed
  <2> QED BY <1>1, <1>3, <2>2, <2>4, Linking, Breaks
<1> QED BY <1>4, <1>5

\* A reconnection, and what was armed for it.
LEMMA Rejoining ==
  ASSUME IInv, NEW step \in {"joinTunnel", "joinOwner", "joinReadiness", "joinBackend"},
         Join(step)
  PROVE  /\ OpInv' /\ ArmInv' /\ op.arm \in {"none", step} /\ op'.arm = "none"
         /\ broken' = broken \ {step} /\ broken' \subseteq Joins
         /\ At' \notin Critical /\ (op'.tries # 0 => op'.applied)
<1> USE IInvFacts
<1>1. op.todo # << >> /\ At = step /\ op' = Joined BY DEF Join, Now, At
<1>2. At \in Joins BY <1>1 DEF Joins
<1>3. /\ OpInv' /\ ArmInv' /\ op'.arm = "none" /\ At' \notin Critical
      /\ op'.tries # 0 => op'.tries = op.tries /\ op'.applied = op.applied
  BY <1>1, <1>2, Reconnecting
<1>4. op.arm \in {"none", step} BY <1>1 DEF ArmInv, Denied, Joins
<1>5. broken' = broken \ {step} /\ broken' \subseteq Joins BY Breaks DEF Join
<1> QED BY <1>3, <1>4, <1>5

LEMMA JoinOwnerStep == ASSUME IInv, JoinOwner PROVE IInv'
<1> USE UnitFacts
<1>1. /\ Join("joinOwner") /\ SetUnit("oos", "running")
      /\ UNCHANGED <<head, enabled, console, frontend, identity, catalog, replicas>>
  BY DEF JoinOwner, SetUnit, files, owners
<1>2. /\ OpInv' /\ ArmInv' /\ op.arm \in {"none", "joinOwner"} /\ op'.arm = "none"
      /\ broken' = broken \ {"joinOwner"} /\ broken' \subseteq Joins
      /\ At' \notin Critical /\ (op'.tries # 0 => op'.applied)
  BY <1>1, Rejoining
<1>3. /\ unit' \in [Roles -> {"absent", "stopped", "running"}]
      /\ stalled' \subseteq Roles \ {"console"}
      /\ unit'["oos"] = "running" /\ unit'["wgcf"] = unit["wgcf"]
  BY <1>1 DEF SetUnit, Roles
<1>4. CutInv' BY <1>1, <1>2, <1>3 DEF IInv, CutInv, Owed
<1> QED BY <1>1, <1>2, <1>3, <1>4, Linking, Breaks

LEMMA JoinTunnelStep == ASSUME IInv, JoinTunnel PROVE IInv'
<1> USE UnitFacts
<1>1. /\ Join("joinTunnel")
      /\ unit' = [unit EXCEPT !["wgcf"] = "running", !["console"] = "running"]
      /\ stalled' = stalled \ {"wgcf"}
      /\ console' = [console EXCEPT !.serves = IF @ = 0 THEN Started(console.names) ELSE @]
      /\ UNCHANGED <<head, enabled, frontend, identity, catalog, replicas>>
  BY DEF JoinTunnel, owners, history
<1>2. /\ OpInv' /\ ArmInv' /\ op.arm \in {"none", "joinTunnel"} /\ op'.arm = "none"
      /\ broken' = broken \ {"joinTunnel"} /\ broken' \subseteq Joins
      /\ At' \notin Critical /\ (op'.tries # 0 => op'.applied)
  BY <1>1, Rejoining
<1>3. /\ unit' \in [Roles -> {"absent", "stopped", "running"}]
      /\ unit'["wgcf"] = "running" /\ unit'["oos"] = unit["oos"]
  BY <1>1 DEF Roles
<1>4. console' \in [names : 0 .. Revisions, serves : 0 .. Revisions] BY <1>1
<1>5. CutInv' BY <1>1, <1>2, <1>3 DEF IInv, CutInv, Owed
<1> QED BY <1>1, <1>2, <1>3, <1>4, <1>5, Linking, Breaks

LEMMA JoinReplicasSteps == ASSUME IInv, JoinReadiness \/ JoinBackend PROVE IInv'
<1> USE UnitFacts
<1>1. UNCHANGED <<head, stalled, unit, enabled, console, frontend, identity, catalog>>
  BY DEF JoinReadiness, JoinBackend, SetReplicas, files
<1>2. CASE JoinReadiness
  <2>1. Join("joinReadiness") /\ replicas' = [replicas EXCEPT !["wgcf"] = TRUE]
    BY <1>2 DEF JoinReadiness, SetReplicas
  <2>2. /\ OpInv' /\ ArmInv' /\ op.arm \in {"none", "joinReadiness"} /\ op'.arm = "none"
        /\ broken' = broken \ {"joinReadiness"} /\ broken' \subseteq Joins
        /\ At' \notin Critical /\ (op'.tries # 0 => op'.applied)
    BY <2>1, Rejoining
  <2>3. /\ replicas' \in [wgcf : BOOLEAN, backend : BOOLEAN]
        /\ replicas'.wgcf /\ replicas'.backend = replicas.backend
    BY <2>1
  <2>4. CutInv' BY <1>1, <2>2, <2>3 DEF IInv, CutInv, Owed
  <2> QED BY <1>1, <2>2, <2>3, <2>4, Linking, Breaks
<1>3. CASE JoinBackend
  <2>1. Join("joinBackend") /\ replicas' = [replicas EXCEPT !["backend"] = TRUE]
    BY <1>3 DEF JoinBackend, SetReplicas
  <2>2. /\ OpInv' /\ ArmInv' /\ op.arm \in {"none", "joinBackend"} /\ op'.arm = "none"
        /\ broken' = broken \ {"joinBackend"} /\ broken' \subseteq Joins
        /\ At' \notin Critical /\ (op'.tries # 0 => op'.applied)
    BY <2>1, Rejoining
  <2>3. /\ replicas' \in [wgcf : BOOLEAN, backend : BOOLEAN]
        /\ replicas'.backend /\ replicas'.wgcf = replicas.wgcf
    BY <2>1
  <2>4. CutInv' BY <1>1, <2>2, <2>3 DEF IInv, CutInv, Owed
  <2> QED BY <1>1, <2>2, <2>3, <2>4, Linking, Breaks
<1> QED BY <1>2, <1>3

LEMMA CutReadinessStep == ASSUME IInv, CutReadiness PROVE IInv'
<1> USE IInvFacts, UnitFacts
<1>1. CASE Cut("cutReadiness", "joinReadiness") /\ SetReplicas("wgcf", FALSE) /\ broken' = broken
  <2>1. /\ replicas' = [replicas EXCEPT !["wgcf"] = FALSE]
        /\ UNCHANGED <<head, stalled, unit, enabled, console, frontend, identity, catalog, broken>>
    BY <1>1 DEF SetReplicas, files
  <2>2. /\ OpInv' /\ ArmInv' /\ op.arm = "none" /\ op'.arm = "joinReadiness"
        /\ At' \notin Critical /\ (op'.tries # 0 => op'.applied)
    BY <1>1, Cutting DEF Joins
  <2>3. /\ replicas' \in [wgcf : BOOLEAN, backend : BOOLEAN] /\ replicas'.backend = replicas.backend
    BY <2>1
  <2>4. CutInv' BY <2>1, <2>2, <2>3 DEF IInv, CutInv, Owed
  <2> QED BY <2>1, <2>2, <2>3, <2>4, Linking, Breaks
<1>2. CASE Now("cutReadiness") /\ Fail
           /\ UNCHANGED <<head, stalled, unit, enabled, files, owners, history, spent>>
  <2>1. op.todo # << >> /\ At = "cutReadiness" BY <1>2, IInvFacts, AtStep
  <2>2. UNCHANGED <<head, unit, stalled, enabled, console, frontend, replicas, catalog, broken,
                    identity>>
    BY <1>2 DEF files, owners, history
  <2> QED BY <1>2, <2>1, <2>2, Passing DEF Joins, Endings, Receipts
<1> QED BY <1>1, <1>2 DEF CutReadiness, CutReplicas

LEMMA CutBackendStep == ASSUME IInv, CutBackend PROVE IInv'
<1> USE IInvFacts, UnitFacts
<1>1. CASE Cut("cutBackend", "joinBackend") /\ SetReplicas("backend", FALSE) /\ broken' = broken
  <2>1. /\ replicas' = [replicas EXCEPT !["backend"] = FALSE]
        /\ UNCHANGED <<head, stalled, unit, enabled, console, frontend, identity, catalog, broken>>
    BY <1>1 DEF SetReplicas, files
  <2>2. /\ OpInv' /\ ArmInv' /\ op.arm = "none" /\ op'.arm = "joinBackend"
        /\ At' \notin Critical /\ (op'.tries # 0 => op'.applied)
    BY <1>1, Cutting DEF Joins
  <2>3. /\ replicas' \in [wgcf : BOOLEAN, backend : BOOLEAN] /\ replicas'.wgcf = replicas.wgcf
    BY <2>1
  <2>4. CutInv' BY <2>1, <2>2, <2>3 DEF IInv, CutInv, Owed
  <2> QED BY <2>1, <2>2, <2>3, <2>4, Linking, Breaks
<1>2. CASE Now("cutBackend") /\ Fail
           /\ UNCHANGED <<head, stalled, unit, enabled, files, owners, history, spent>>
  <2>1. op.todo # << >> /\ At = "cutBackend" BY <1>2, IInvFacts, AtStep
  <2>2. UNCHANGED <<head, unit, stalled, enabled, console, frontend, replicas, catalog, broken,
                    identity>>
    BY <1>2 DEF files, owners, history
  <2> QED BY <1>2, <2>1, <2>2, Passing DEF Joins, Endings, Receipts
<1> QED BY <1>1, <1>2 DEF CutBackend, CutReplicas

\* A disconnection that took effect and failed: nothing is armed.
LEMMA FailingCut ==
  ASSUME IInv, NEW step \in {"cutTunnel", "cutOwner", "cutReadiness", "cutBackend"},
         NEW join \in Joins, FailedCut(step, join)
  PROVE  /\ OpInv' /\ ArmInv' /\ At' \notin Critical /\ (op'.tries # 0 => op'.applied)
         /\ op'.arm = op.arm /\ broken' = broken \cup {join} /\ broken' \subseteq Joins
<1> USE IInvFacts
<1>1. op.todo # << >> /\ At = step /\ Fail BY DEF FailedCut, Now, At
<1>2. At \notin Joins \cup Endings BY <1>1 DEF Joins, Endings, Receipts
<1>3. /\ OpInv' /\ ArmInv' /\ op'.arm = op.arm /\ At' \in {"none", "validate"} \cup Joins
      /\ op'.tries # 0 => op'.tries = op.tries /\ op'.applied = op.applied
  BY <1>1, <1>2, Stopping DEF Fail
<1> QED BY <1>3, Breaks DEF FailedCut, Critical, Joins

LEMMA CutFailsStep == ASSUME IInv, CutFails PROVE IInv'
<1> USE IInvFacts, UnitFacts
<1>1. CASE FailedCut("cutTunnel", "joinTunnel") /\ SetUnit("wgcf", "stopped")
  <2>1. /\ UNCHANGED <<head, enabled, console, frontend, identity, catalog, replicas>>
        /\ unit' \in [Roles -> {"absent", "stopped", "running"}]
        /\ stalled' \subseteq Roles \ {"console"} /\ unit'["oos"] = unit["oos"]
    BY <1>1 DEF SetUnit, files, owners, Roles
  <2>2. /\ OpInv' /\ ArmInv' /\ At' \notin Critical /\ (op'.tries # 0 => op'.applied)
        /\ op'.arm = op.arm /\ broken' = broken \cup {"joinTunnel"} /\ broken' \subseteq Joins
    BY <1>1, FailingCut DEF Joins
  <2>3. CutInv' BY <2>1, <2>2 DEF IInv, CutInv, Owed
  <2> QED BY <2>1, <2>2, <2>3, Linking, Breaks
<1>2. CASE FailedCut("cutOwner", "joinOwner") /\ SetUnit("oos", "stopped")
  <2>1. /\ UNCHANGED <<head, enabled, console, frontend, identity, catalog, replicas>>
        /\ unit' \in [Roles -> {"absent", "stopped", "running"}]
        /\ stalled' \subseteq Roles \ {"console"} /\ unit'["wgcf"] = unit["wgcf"]
    BY <1>2 DEF SetUnit, files, owners, Roles
  <2>2. /\ OpInv' /\ ArmInv' /\ At' \notin Critical /\ (op'.tries # 0 => op'.applied)
        /\ op'.arm = op.arm /\ broken' = broken \cup {"joinOwner"} /\ broken' \subseteq Joins
    BY <1>2, FailingCut DEF Joins
  <2>3. CutInv' BY <2>1, <2>2 DEF IInv, CutInv, Owed
  <2> QED BY <2>1, <2>2, <2>3, Linking, Breaks
<1>3. CASE FailedCut("cutReadiness", "joinReadiness") /\ SetReplicas("wgcf", FALSE)
  <2>1. /\ UNCHANGED <<head, stalled, unit, enabled, console, frontend, identity, catalog>>
        /\ replicas' = [replicas EXCEPT !["wgcf"] = FALSE]
    BY <1>3 DEF SetReplicas, files
  <2>2. /\ OpInv' /\ ArmInv' /\ At' \notin Critical /\ (op'.tries # 0 => op'.applied)
        /\ op'.arm = op.arm /\ broken' = broken \cup {"joinReadiness"} /\ broken' \subseteq Joins
    BY <1>3, FailingCut DEF Joins
  <2>3. /\ replicas' \in [wgcf : BOOLEAN, backend : BOOLEAN] /\ replicas'.backend = replicas.backend
    BY <2>1
  <2>4. CutInv' BY <2>1, <2>2, <2>3 DEF IInv, CutInv, Owed
  <2> QED BY <2>1, <2>2, <2>3, <2>4, Linking, Breaks
<1>4. CASE FailedCut("cutBackend", "joinBackend") /\ SetReplicas("backend", FALSE)
  <2>1. /\ UNCHANGED <<head, stalled, unit, enabled, console, frontend, identity, catalog>>
        /\ replicas' = [replicas EXCEPT !["backend"] = FALSE]
    BY <1>4 DEF SetReplicas, files
  <2>2. /\ OpInv' /\ ArmInv' /\ At' \notin Critical /\ (op'.tries # 0 => op'.applied)
        /\ op'.arm = op.arm /\ broken' = broken \cup {"joinBackend"} /\ broken' \subseteq Joins
    BY <1>4, FailingCut DEF Joins
  <2>3. /\ replicas' \in [wgcf : BOOLEAN, backend : BOOLEAN] /\ replicas'.wgcf = replicas.wgcf
    BY <2>1
  <2>4. CutInv' BY <2>1, <2>2, <2>3 DEF IInv, CutInv, Owed
  <2> QED BY <2>1, <2>2, <2>3, <2>4, Linking, Breaks
<1> QED BY <1>1, <1>2, <1>3, <1>4 DEF CutFails

-----------------------------------------------------------------------------
(* The surroundings.                                                       *)

LEMMA Ambient ==
  ASSUME IInv, RepairInv', head' \in Revision,
         frontend' \in [Revision -> Front], stalled' \subseteq Roles \ {"console"},
         console' \in [names : 0 .. Revisions, serves : 0 .. Revisions],
         identity' \in [admitted : BOOLEAN, projection : {"none", "live", "revoked"}],
         At \in {"attempt", "quarantine"} => console'.serves = 0,
         UNCHANGED <<op, unit, enabled, replicas, catalog, broken>>
  PROVE  IInv'
<1>1. At' = At BY DEF At
<1>2. Types'
  <2>1. OpInv' BY DEF IInv, Types, OpInv
  <2>2. ArmInv' BY <1>1 DEF IInv, Types, ArmInv
  <2>3. \A r \in Revision : /\ frontend'[r].state \in {"none", "good", "corrupt"}
                            /\ frontend'[r].incident \in {"none", "attempted", "rebuilt", "closed"}
    BY DEF Front
  <2> QED BY <2>1, <2>2, <2>3 DEF IInv, Types, TypeOK, Revision
<1>3. CutInv' /\ CatalogInv' BY DEF IInv, CutInv, Owed, CatalogInv
<1>4. DisabledInv' BY <1>1 DEF IInv, DisabledInv
<1>5. ServeInv' BY <1>1 DEF IInv, ServeInv
<1> QED BY <1>2, <1>3, <1>4, <1>5 DEF IInv

LEMMA AmbientFacts ==
  ASSUME IInv
  PROVE  /\ frontend \in [Revision -> Front] /\ RepairInv
         /\ At \in {"attempt", "quarantine"} => console.serves = 0 /\ unit["console"] # "running"
BY DEF IInv, Types, ServeInv

LEMMA SourceMovesStep == ASSUME IInv, SourceMoves PROVE IInv'
<1>0. head \in 1 .. Revisions /\ Revisions \in Nat BY UnitFacts DEF Revision
<1>1. /\ head < Revisions /\ head' = head + 1
      /\ UNCHANGED <<unit, stalled, enabled, console, frontend, identity, replicas, catalog, op,
                     broken>>
  BY DEF SourceMoves, files, owners, history
<1>2. head' \in Revision /\ head' > head BY <1>0, <1>1 DEF Revision
<1>3. frontend[head'].repairs = 0 BY <1>2, AmbientFacts DEF RepairInv
<1>4. At' = At BY <1>1 DEF At
<1>5. \A r \in Revision : r > head' => r > head BY <1>0, <1>1 DEF Revision
<1>6. RepairInv' BY <1>1, <1>3, <1>4, <1>5, AmbientFacts DEF RepairInv
<1> QED BY <1>1, <1>2, <1>6, Ambient, IInvFacts, UnitFacts, AmbientFacts

LEMMA DamageStep == ASSUME IInv, Damage PROVE IInv'
<1> USE IInvFacts, UnitFacts, AmbientFacts
<1>1. PICK d \in Revision : frontend' = [frontend EXCEPT ![d].state = "corrupt"] BY DEF Damage
<1>2. UNCHANGED <<head, unit, stalled, enabled, console, identity, replicas, catalog, op, broken>>
  BY DEF Damage, owners, history
<1>3. /\ frontend' \in [Revision -> Front]
      /\ \A r \in Revision : /\ frontend'[r].repairs = frontend[r].repairs
                             /\ frontend'[r].incident = frontend[r].incident
  BY <1>1 DEF Front
<1>4. At' = At BY <1>2 DEF At
<1>5. RepairInv' BY <1>2, <1>3, <1>4 DEF RepairInv
<1> QED BY <1>2, <1>3, <1>5, Ambient

LEMMA SurroundingSteps ==
  ASSUME IInv, SessionExpires \/ TunnelStalls \/ TunnelRecycled \/ ConsoleExits \/ ConsoleStarts
  PROVE  IInv'
<1> USE IInvFacts, UnitFacts, AmbientFacts
<1>1. UNCHANGED <<head, frontend, op, unit, enabled, replicas, catalog, broken>>
  BY DEF SessionExpires, TunnelStalls, TunnelRecycled, ConsoleExits, ConsoleStarts, files, owners,
         history
<1>2. RepairInv'
  <2>1. At' = At BY <1>1 DEF At
  <2> QED BY <1>1, <2>1 DEF RepairInv
<1>3. CASE SessionExpires
  <2>1. identity' = [identity EXCEPT !.admitted = FALSE] /\ stalled' = stalled /\ console' = console
    BY <1>3 DEF SessionExpires, files
  <2>2. identity' \in [admitted : BOOLEAN, projection : {"none", "live", "revoked"}] BY <2>1
  <2> QED BY <1>1, <1>2, <2>1, <2>2, Ambient
<1>4. CASE TunnelStalls \/ TunnelRecycled
  <2>1. /\ stalled' \subseteq Roles \ {"console"} /\ identity' = identity /\ console' = console
    BY <1>4 DEF TunnelStalls, TunnelRecycled, files, owners
  <2> QED BY <1>1, <1>2, <2>1, Ambient
<1>5. CASE ConsoleExits
  <2>1. console' = [console EXCEPT !.serves = 0] /\ stalled' = stalled /\ identity' = identity
    BY <1>5 DEF ConsoleExits, owners
  <2>2. console' \in [names : 0 .. Revisions, serves : 0 .. Revisions] /\ console'.serves = 0
    BY <2>1
  <2> QED BY <1>1, <1>2, <2>1, <2>2, Ambient
<1>6. CASE ConsoleStarts
  <2>1. /\ console' = [console EXCEPT !.serves = console.names] /\ unit["console"] = "running"
        /\ stalled' = stalled /\ identity' = identity
    BY <1>6 DEF ConsoleStarts, owners
  <2>2. console' \in [names : 0 .. Revisions, serves : 0 .. Revisions] BY <2>1
  <2>3. At \notin {"attempt", "quarantine"} BY <2>1
  <2> QED BY <1>1, <1>2, <2>1, <2>2, <2>3, Ambient
<1> QED BY <1>3, <1>4, <1>5, <1>6

-----------------------------------------------------------------------------
(* The theorems.                                                           *)

LEMMA Initial == Init => IInv
<1> SUFFICES ASSUME Init PROVE IInv OBVIOUS
<1>1. 1 \in Revision /\ Revisions \in Nat BY BoundsAssumption DEF Revision
<1>2. Idle \in Op BY DEF Op, Idle
<1>3. op = Idle /\ Idle.todo = << >> /\ Idle.cmd = "idle" /\ Idle.arm = "none" /\ Idle.failing = FALSE
      /\ Idle.tries = 0
  BY DEF Init, Idle
<1>4. OpInv /\ ArmInv /\ At = "none" BY <1>2, <1>3 DEF OpInv, ArmInv, At
<1>5. frontend = [r \in Revision |->
                    [state |-> "none", incident |-> "none", kept |-> FALSE, repairs |-> 0]]
  BY DEF Init
<1>6. frontend \in [Revision -> Front] BY <1>5 DEF Front
<1>7. Types
  <2>1. \A r \in Revision : /\ frontend[r].state \in {"none", "good", "corrupt"}
                            /\ frontend[r].incident \in {"none", "attempted", "rebuilt", "closed"}
    BY <1>5
  <2>2. console \in [names : 0 .. Revisions, serves : 0 .. Revisions] BY <1>1 DEF Init
  <2>3. /\ unit \in [Roles -> {"absent", "stopped", "running"}]
        /\ identity \in [admitted : BOOLEAN, projection : {"none", "live", "revoked"}]
        /\ replicas \in [wgcf : BOOLEAN, backend : BOOLEAN]
        /\ catalog \in [adds : Nat, edits : Nat] /\ broken = {}
        /\ stalled \subseteq Roles \ {"console"} /\ enabled \subseteq Roles /\ head = 1
    BY DEF Init
  <2> QED BY <1>1, <1>3, <1>4, <1>6, <2>1, <2>2, <2>3 DEF Types, TypeOK
<1>8. CutInv BY DEF Init, CutInv, Roles
<1>9. DisabledInv /\ ServeInv BY <1>4 DEF DisabledInv, ServeInv
<1>10. RepairInv BY <1>4, <1>5 DEF RepairInv
<1>11. CatalogInv BY <1>3 DEF Init, CatalogInv
<1> QED BY <1>7, <1>8, <1>9, <1>10, <1>11 DEF IInv

LEMMA Stuttering == ASSUME IInv, UNCHANGED vars PROVE IInv'
BY DEF vars, IInv, Types, TypeOK, OpInv, ArmInv, At, CutInv, Owed, DisabledInv, RepairInv, ServeInv,
       CatalogInv

LEMMA StepKeeps == ASSUME IInv, Step PROVE IInv'
BY Zenon, ValidateStep, CheckStep, SecretStep, KeySteps, IdentitySteps, InspectStep,
   StopConsumerStep, AttemptStep, QuarantineStep, CompileStep, BuildStep, NoteStep,
   WriteUnitsStep, StartSteps, RolloutStep, TunnelSteps, DiscardStep, CloseStep, DisableStep,
   RemoveFilesStep, CutUnitSteps, JoinTunnelStep, JoinOwnerStep, CutSessionStep, JoinSessionStep,
   CutReadinessStep, CutBackendStep, JoinReplicasSteps, AddStep, EditStep, ReceiptStep, RaiseStep
   DEF Step

LEMMA Inductive == IInv /\ [Next]_vars => IInv'
<1> SUFFICES ASSUME IInv, [Next]_vars PROVE IInv' OBVIOUS
<1>1. CASE Step BY <1>1, StepKeeps
<1>2. CASE UNCHANGED vars BY <1>2, Stuttering
<1>3. CASE Next /\ ~Step
  BY Zenon, <1>3, SourceRefusedStep, IdentityRefusedStep, ProposalRefusedStep, StepFailsStep,
     CutFailsStep, JoinFailsStep, KilledStep, CommandStep, SourceMovesStep, DamageStep, SurroundingSteps
     DEF Next
<1> QED BY <1>1, <1>2, <1>3

\* The state a command leaves at each of its steps, whatever failed before.
THEOREM Invariant == Spec => []IInv
BY Initial, Inductive, PTL DEF Spec

\* What a rehearsal disconnected is connected again when the command ends,
\* unless its own disconnection or reconnection failed or was killed.
THEOREM Reconnected == Spec => []DisconnectionEnds
<1>1. IInv => DisconnectionEnds
  <2> SUFFICES ASSUME IInv, op.cmd = "idle" PROVE DisconnectionEnds
    BY DEF DisconnectionEnds
  <2>1. op.arm = "none" BY IInvFacts DEF OpInv, Idle
  <2> QED BY <2>1 DEF IInv, CutInv, Owed, DisconnectionEnds
<1> QED BY <1>1, Invariant, PTL

\* The repository is added to the Catalog once, however often it is tried.
THEOREM Once == Spec => []AddedOnce
<1>1. IInv => AddedOnce BY DEF IInv, CatalogInv, AddedOnce
<1> QED BY <1>1, Invariant, PTL

\* A repaired frontend is verified before it may be repaired again.
THEOREM Repairs == Spec => []RepairIsSound
<1>1. IInv => RepairIsSound BY DEF IInv, Types, RepairInv, RepairIsSound, RepairedOnce
<1> QED BY <1>1, Invariant, PTL

\* No step other than a quarantine takes an artifact away.
LEMMA TakenAway ==
  ASSUME IInv, [Next]_vars, NEW r \in Revision,
         frontend'[r].state = "none", frontend[r].state # "none"
  PROVE  Quarantine /\ r = head
<1>1. frontend' # frontend OBVIOUS
<1>2. /\ frontend \in [Revision -> Front] /\ head \in Revision BY AmbientFacts, UnitFacts
<1>3. ASSUME NEW step, NEW new, SetFrontend(step, new) PROVE r = head /\ new.state = "none"
  BY <1>2, <1>3 DEF SetFrontend
<1>4. ~Damage BY <1>2 DEF Damage, Front
<1>5. ~(Attempt \/ Compile \/ Build \/ Note \/ Discard \/ Close)
  <2>1. frontend[head] \in Front BY <1>2
  <2>2. SetFrontend("attempt", [frontend[head] EXCEPT !.incident = "attempted"]) => FALSE
    BY <1>3, <2>1 DEF Front
  <2>3. ~Attempt BY <2>2 DEF Attempt
  <2>4. ~Compile BY <1>3, <2>1 DEF Compile, Front
  <2>5. ~Build BY <1>3, <2>1 DEF Build, Front
  <2>6. ~Note BY <1>3, <2>1 DEF Note, Front
  <2>7. ~Discard BY <1>3, <2>1 DEF Discard, Front
  <2>8. ~Close
    <3>1. [frontend[head] EXCEPT !.incident = "closed", !.repairs = 0].state = frontend[head].state
      BY <2>1 DEF Front
    <3>2. CASE frontend[head].incident = "rebuilt" BY <1>3, <3>1, <3>2 DEF Close
    <3>3. CASE frontend[head].incident # "rebuilt" BY <1>3, <3>3 DEF Close
    <3> QED BY <3>2, <3>3
  <2> QED BY <2>3, <2>4, <2>5, <2>6, <2>7, <2>8
<1>6. Quarantine
  <2>1. CASE Step
    BY <1>1, <1>5, <2>1
       DEF Step, Validate, Check, Secret, Bind, Expose, Environment, Conceal, Unbind, SetKey,
           RevokeOld, Revoke, Issue, SetIdentity, Inspect, StopConsumer, WriteUnits, Enable,
           Relaunch, Start, Rollout, Tunnels, Retunnel, Disable, RemoveFiles, CutTunnel,
           CutOwner, JoinOwner, JoinTunnel, CutSession, JoinSession, CutReadiness, CutBackend,
           CutReplicas, JoinReadiness, JoinBackend, SetReplicas, Add, Edit, Mutate, Receipt,
           Raise, CutUnit, SetUnit, files
  <2>2. CASE Next /\ ~Step
    BY <1>1, <1>4, <2>2
       DEF Next, SourceRefused, IdentityRefused, ProposalRefused, StepFails, CutFails, JoinFails,
           Killed, SetUnit, SetReplicas, FailedCut,
           Command, SourceMoves, SessionExpires, ConsoleExits, ConsoleStarts, TunnelStalls,
           TunnelRecycled, files
  <2> QED BY <1>1, <2>1, <2>2 DEF vars
<1>7. r = head BY <1>3, <1>6 DEF Quarantine
<1> QED BY <1>6, <1>7

\* An artifact is quarantined only once the process that serves it was stopped,
\* and nothing starts that process in between.
THEOREM Undisturbed == Spec => ServedStays
<1>1. IInv /\ [Next]_vars =>
        [\A r \in Revision :
           frontend'[r].state = "none" /\ frontend[r].state # "none" => console.serves # r]_vars
  <2> SUFFICES ASSUME IInv, [Next]_vars, NEW r \in Revision,
                      frontend'[r].state = "none", frontend[r].state # "none"
               PROVE  console.serves # r
    OBVIOUS
  <2>1. Quarantine BY TakenAway
  <2>2. At = "quarantine" BY <2>1 DEF Quarantine, SetFrontend, Now, At
  <2>3. console.serves = 0 BY <2>2, AmbientFacts
  <2> QED BY <2>3 DEF Revision
<1> QED BY <1>1, Invariant, PTL DEF Spec, ServedStays
=============================================================================
