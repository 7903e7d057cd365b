----------------------- MODULE RuntimeIdentitiesProofs -----------------------
(***************************************************************************)
(* Proofs about RuntimeIdentities, for any identities of each kind and any  *)
(* number of commands, ticks, sessions and faults.                         *)
(***************************************************************************)
EXTENDS RuntimeIdentities, SequenceTheorems, TLAPS

-----------------------------------------------------------------------------
(* The invariant: the way a command goes.                                  *)

StepName ==
  {"running", "prior", "read", "mint", "apply", "readiness", "settle", "patch", "restart",
   "rollout", "retire", "receipt", "revoke", "unpatch", "delete", "unready", "pause",
   "pauseReadiness", "return", "probe", "discard", "discardPrior"}

\* The plan a command follows.
Kind(o) ==
  IF o.failing THEN IF o.id \in Workflows THEN "workflow cleanup" ELSE "cleanup"
  ELSE IF o.cmd = "deliver"
    THEN IF o.id \in Plain THEN "plain delivery"
         ELSE IF o.id \in Intakes THEN "intake delivery" ELSE "workflow delivery"
  ELSE IF o.cmd = "revoke"
    THEN IF o.id \in Plain THEN "plain revocation"
         ELSE IF o.id \in Intakes THEN "intake revocation" ELSE "workflow revocation"
  ELSE o.cmd

\* What each step of a plan is followed by.
Follows(k, x, y) ==
  /\ k = "plain delivery" =>
       (x = "running" /\ y = "mint") \/ (x = "mint" /\ y = "apply")
       \/ (x = "apply" /\ y = "receipt")
  /\ k = "intake delivery" =>
       (x = "running" /\ y = "mint") \/ (x = "mint" /\ y = "apply")
       \/ (x = "apply" /\ y = "patch") \/ (x = "patch" /\ y = "rollout")
       \/ (x = "rollout" /\ y = "receipt")
  /\ k = "workflow delivery" =>
       (x = "prior" /\ y = "mint") \/ (x = "mint" /\ y = "apply")
       \/ (x = "apply" /\ y = "readiness") \/ (x = "readiness" /\ y = "settle")
       \/ (x = "settle" /\ y = "patch") \/ (x = "patch" /\ y = "restart")
       \/ (x = "restart" /\ y = "rollout") \/ (x = "rollout" /\ y = "retire")
       \/ (x = "retire" /\ y = "receipt")
  /\ k = "plain revocation" =>
       (x = "read" /\ y = "revoke") \/ (x = "revoke" /\ y = "delete")
       \/ (x = "delete" /\ y = "receipt")
  /\ k = "intake revocation" =>
       (x = "read" /\ y = "revoke") \/ (x = "revoke" /\ y = "unpatch")
       \/ (x = "unpatch" /\ y = "rollout") \/ (x = "rollout" /\ y = "delete")
       \/ (x = "delete" /\ y = "receipt")
  /\ k = "workflow revocation" =>
       (x = "read" /\ y = "revoke") \/ (x = "revoke" /\ y = "unpatch")
       \/ (x = "unpatch" /\ y = "rollout") \/ (x = "rollout" /\ y = "delete")
       \/ (x = "delete" /\ y = "unready") \/ (x = "unready" /\ y = "settle")
       \/ (x = "settle" /\ y = "receipt")
  /\ k = "suspend" =>
       (x = "read" /\ y = "pause") \/ (x = "pause" /\ y = "rollout")
       \/ (x = "rollout" /\ y = "pauseReadiness") \/ (x = "pauseReadiness" /\ y = "settle")
       \/ (x = "settle" /\ y = "receipt")
  /\ k = "commission" =>
       (x = "mint" /\ y = "return") \/ (x = "return" /\ y = "receipt")
  /\ k = "status" =>
       (x = "read" /\ y = "probe") \/ (x = "probe" /\ y = "receipt")
  /\ k = "cleanup" =>
       (x = "discard" /\ y = "delete")
  /\ k = "workflow cleanup" =>
       (x = "discard" /\ y = "discardPrior") \/ (x = "discardPrior" /\ y = "unpatch")
       \/ (x = "unpatch" /\ y = "rollout") \/ (x = "rollout" /\ y = "delete")
       \/ (x = "delete" /\ y = "unready") \/ (x = "unready" /\ y = "settle")
  /\ k # "idle"

\* The step it ends with.
Ending(k, x) ==
  IF k = "cleanup" THEN x \in {"discard", "delete"}
  ELSE IF k = "workflow cleanup" THEN x \in {"discardPrior", "settle"} ELSE x = "receipt"

Path(k, s) ==
  /\ s \in Seq(StepName)
  /\ \A n \in 1 .. Len(s) : IF n < Len(s) THEN Follows(k, s[n], s[n + 1]) ELSE Ending(k, s[n])

Step == IF op.todo = << >> THEN "none" ELSE Head(op.todo)

-----------------------------------------------------------------------------
(* The invariant: types.                                                   *)

TokenOrNone == Token \cup {NoToken}
Binding == [token : TokenOrNone, session : 0 .. session]
Commanded == {"idle", "deliver", "revoke", "suspend", "commission", "status"}

Op == [cmd : Commanded, id : Ids \cup {"none"}, todo : Seq(StepName), token : TokenOrNone,
       prior : TokenOrNone, applied : BOOLEAN, failing : BOOLEAN]

OpInv ==
  /\ op \in Op /\ Path(Kind(op), op.todo)
  /\ op.cmd = "idle" => op = Idle
  /\ op.cmd # "idle" => op.id \in Ids /\ op.todo # << >>
  /\ op.cmd = "suspend" => op.id \in Workflows
  /\ op.cmd = "status" => op.id \in Intakes
  /\ op.failing => op.cmd = "deliver"
  /\ op.token # NoToken => op.token.id = op.id
  /\ op.prior # NoToken => op.prior.id = op.id

Broker == [want : [Ids -> Modes], has : [Ids -> Modes], rolled : BOOLEAN,
           stamp : [Ids -> TokenOrNone], mount : [Ids -> TokenOrNone]]
Wgcf == [want : [Workflows -> Modes], has : [Workflows -> Modes], rolled : BOOLEAN]

RenewalTodo ==
  {<< >>, <<"gather", "decide">>, <<"decide">>, Replacement,
   <<"project", "consume", "rollout", "status", "retire">>,
   <<"consume", "rollout", "status", "retire">>, <<"rollout", "status", "retire">>,
   <<"status", "retire">>, <<"retire">>, <<"consume", "rollout", "observe">>,
   <<"rollout", "observe">>, <<"observe">>, <<"status">>, <<"release">>}

\* It has not yet decided to replace anything.
Looking == {<<"gather", "decide">>, <<"decide">>, <<"consume", "rollout", "observe">>,
            <<"rollout", "observe">>, <<"observe">>}

Renewal == [todo : RenewalTodo, force : BOOLEAN,
            seen : [Group -> [token : TokenOrNone, session : 0 .. Sessions]],
            due : SUBSET Group, fresh : [Group -> TokenOrNone], done : SUBSET Group]

Step1 == IF renewal.todo = << >> THEN "none" ELSE Head(renewal.todo)

\* What a renewal observed names the identity, and it goes on with a token for
\* each it will replace.
RenewalInv ==
  /\ renewal \in Renewal
  /\ Step1 = "none" => renewal = Asleep
  /\ renewal.todo \in Looking => renewal.due = {}
  /\ \A i \in Group :
       /\ Step1 \notin {"none", "gather"} => renewal.seen[i] # None
       /\ renewal.seen[i] # None =>
            renewal.seen[i].token \in Token /\ renewal.seen[i].token.id = i
       /\ renewal.fresh[i] # NoToken => renewal.fresh[i] = MintedFor(i)
  /\ Step1 = "project" => \A i \in renewal.due : renewal.fresh[i] # NoToken
  /\ renewal.done \subseteq renewal.due

Types ==
  /\ TypeOK /\ OpInv /\ RenewalInv
  /\ broker \in Broker /\ wgcf \in Wgcf
  /\ spent \in [commands : Nat, ticks : Nat, faults : Nat]
  /\ removed \subseteq Ids

-----------------------------------------------------------------------------
(* The invariant: what is enabled.                                         *)

\* Pods are those of the template once it rolled out, and a workflow that the
\* template or the pods of the broker enable is enabled in both of WGCF.
CoverInv ==
  /\ broker.rolled => broker.has = broker.want
  /\ wgcf.rolled => wgcf.has = wgcf.want
  /\ \A i \in Workflows : broker.want[i] = "on" \/ broker.has[i] = "on" =>
       wgcf.want[i] = "on" /\ wgcf.has[i] = "on"

Delivering == op.cmd = "deliver" /\ ~op.failing
Withdrawing == op.failing \/ op.cmd \in {"revoke", "suspend"}

\* The readiness runtime comes before the broker, and goes after it.
OrderInv ==
  op.id \in Workflows =>
    /\ Delivering /\ Step \in {"settle", "patch"} => wgcf.want[op.id] = "on"
    /\ Delivering /\ Step = "patch" => wgcf.has[op.id] = "on"
    /\ Withdrawing /\ Step \in {"rollout", "delete", "unready", "pauseReadiness"} =>
         broker.want[op.id] # "on"
    /\ Withdrawing /\ Step \in {"delete", "unready", "pauseReadiness"} =>
         broker.has[op.id] # "on"

\* What a revocation has taken away when it is done.
RemovalInv ==
  /\ \A i \in Plain : broker.want[i] = "off" /\ broker.has[i] = "off"
  /\ op.cmd = "revoke" =>
       /\ Step \in {"rollout", "delete", "unready", "settle", "receipt"} =>
            broker.want[op.id] = "off"
       /\ Step \in {"delete", "unready", "settle", "receipt"} => broker.has[op.id] = "off"
       /\ Step \in {"unready", "settle", "receipt"} => secret[op.id] = None
  /\ Step = "pause" => secret[op.id] # None
  /\ RevokedStaysAway

-----------------------------------------------------------------------------
(* The invariant: tokens.                                                  *)

Minting == op.cmd \in {"deliver", "commission"} /\ op.token = NoToken

\* A token is not the one that the command or the tick has still to mint.
Old(t) ==
  /\ t \in Token
  /\ t.from = "command" => t.n <= spent.commands /\ (Minting => t.n < spent.commands)
  /\ t.from = "tick" =>
       /\ t.n <= spent.ticks
       /\ t.n = spent.ticks /\ renewal.todo # << >> => t.id \in Group /\ renewal.fresh[t.id] = t

OldInv ==
  /\ \A t \in live \cup aging : Old(t)
  /\ \A i \in Ids : secret[i] # None => Old(secret[i].token)
  /\ \A i \in Group : renewal.seen[i] # None => Old(renewal.seen[i].token)
  /\ op.token # NoToken => Old(op.token)
  /\ op.prior # NoToken => Old(op.prior)

\* What the pods mount and the template carries is as old, and of its identity.
PodsInv ==
  \A i \in Ids :
    /\ broker.mount[i] # NoToken => Old(broker.mount[i]) /\ broker.mount[i].id = i
    /\ broker.stamp[i] # NoToken => Old(broker.stamp[i])

Unmounted == {"running", "prior", "mint"}
Applied == {"readiness", "settle", "patch", "restart", "rollout", "retire", "receipt"}

\* As long as the Secret holds the token of the delivery nobody revokes it, and
\* only a renewal takes it out of the Secret.
DeliveryInv ==
  Delivering =>
    /\ Step \in Unmounted <=> op.token = NoToken
    /\ op.token # NoToken =>
         /\ op.token.from = "command" /\ op.token.n = spent.commands
         /\ op.prior # op.token
         /\ Step = "apply" \/ secret[op.id].token = op.token => op.token \in live
         /\ op.id \in renewal.done /\ renewal.seen[op.id].token = op.token =>
              secret[op.id].token # op.token
    /\ Step = "apply" =>
         /\ secret[op.id].token # op.token
         /\ op.id \in Group => /\ renewal.seen[op.id].token # op.token
                               /\ broker.stamp[op.id] # op.token
    /\ Step \in Applied =>
         /\ secret[op.id].token = op.token
              \/ (op.id \in Group /\ secret[op.id].token.from = "tick")
         /\ secret[op.id].token # op.prior

\* The pods run with what the delivery wrote, or with what replaced it.
Carried ==
  /\ Delivering /\ op.id \in Group
  /\ \/ Step \in {"retire", "receipt"}
     \/ Step = "rollout" /\ broker.rolled
     \/ /\ op.id \in Intakes /\ Step = "patch" /\ broker.rolled
        /\ broker.stamp[op.id] = op.token /\ broker.want[op.id] # "off"

\* Its rollout replaces the pods that mount anything else.
MountInv ==
  /\ Delivering /\ op.id \in Group /\ Step \in {"restart", "rollout", "retire", "receipt"} =>
       broker.want[op.id] = "on"
  /\ Carried =>
       /\ secret[op.id].token = op.token => broker.mount[op.id] = op.token
       /\ broker.mount[op.id] = op.token \/ broker.mount[op.id].from = "tick"
       /\ broker.mount[op.id] # op.prior

\* The tokens of a renewal that it did not project are its own.
Held(i) == /\ renewal.fresh[i] # NoToken /\ i \notin renewal.done
           /\ Step1 \in {"mint", "project"} \/ spent.faults = 0

FreshInv ==
  /\ renewal.todo \in Looking => \A i \in Group : renewal.fresh[i] = NoToken
  /\ \A i \in Group : Held(i) =>
       renewal.fresh[i] \notin {secret[i].token, op.token, op.prior, broker.mount[i]}

\* A token that a revocation has ended and whose Secret it will delete.
Condemned(i) ==
  /\ op.cmd = "revoke" /\ op.id = i /\ op.token = secret[i].token
  /\ Step \in {"unpatch", "rollout", "delete"}

SecretsLive ==
  \A i \in Ids : secret[i] # None => secret[i].token \in live \cup aging \/ Condemned(i)

WantedThere == \A i \in Ids : broker.want[i] # "off" => secret[i] # None

\* The token of a commission is in no Secret.
CommissionInv ==
  op.cmd = "commission" =>
    /\ Step = "mint" => op.token = NoToken
    /\ op.token # NoToken => secret[op.id].token # op.token

\* GitHub accepts what a renewal has still to project.
FreshLive ==
  \A i \in Group : renewal.fresh[i] # NoToken /\ i \notin renewal.done => renewal.fresh[i] \in live

\* What a renewal will end is in no Secret, and once it was found consumed in no
\* pod.
DoneInv ==
  \A i \in renewal.done :
    /\ secret[i].token # renewal.seen[i].token
    /\ Step1 = "retire" => broker.mount[i] # renewal.seen[i].token

\* GitHub accepts what the Secret and the pods of a delivery hold.
CarriedLive ==
  /\ Delivering /\ op.id \in Group /\ Step \in Applied => secret[op.id].token \in live
  /\ Carried => broker.mount[op.id] \in live

\* Without failed calls every Secret holds a token that nobody ended, and no pod
\* waits for a Secret that is missing.
UnfailedInv ==
  spent.faults = 0 =>
    /\ op.failing = FALSE
    /\ SecretsLive /\ WantedThere /\ CommissionInv /\ FreshLive /\ DoneInv /\ CarriedLive

IInv ==
  Types /\ CoverInv /\ OrderInv /\ RemovalInv /\ OldInv /\ PodsInv
  /\ DeliveryInv /\ MountInv /\ FreshInv /\ UnfailedInv

-----------------------------------------------------------------------------
(* The plans.                                                              *)

\* A plan given step by step, the last one included.
LEMMA Literal ==
  ASSUME NEW k, NEW s \in Seq(StepName),
         \A n \in 1 .. Len(s) : n < Len(s) => Follows(k, s[n], s[n + 1]),
         s # << >>, Ending(k, s[Len(s)])
  PROVE  Path(k, s)
BY DEF Path

\* The command that an operator gives.
Order(cmd, i) == [Idle EXCEPT !.cmd = cmd, !.id = i, !.todo = Plan(cmd, i)]

\* Every command starts on the plan of its kind, from the first step of it
\* (the command_ functions of the identity scripts).
LEMMA Plans ==
  ASSUME NEW cmd \in Commanded \ {"idle"}, NEW i \in Ids,
         cmd = "suspend" => i \in Workflows, cmd = "status" => i \in Intakes
  PROVE  LET o == Order(cmd, i) IN
         /\ o \in Op /\ Path(Kind(o), o.todo) /\ o.todo \in Seq(StepName) \ {<< >>}
         /\ Head(o.todo) \in {"running", "prior", "read", "mint"}
         /\ Head(o.todo) = "mint" => cmd = "commission"
         /\ cmd \in {"revoke", "suspend", "status"} <=> Head(o.todo) = "read"
<1> DEFINE o == Order(cmd, i)
<1>1. /\ o.cmd = cmd /\ o.id = i /\ o.todo = Plan(cmd, i) /\ o.failing = FALSE
      /\ o.token = NoToken /\ o.prior = NoToken /\ o.applied = FALSE
  BY DEF Idle, Order
<1>2. Kind(o) = IF cmd = "deliver"
                  THEN IF i \in Plain THEN "plain delivery"
                       ELSE IF i \in Intakes THEN "intake delivery" ELSE "workflow delivery"
                ELSE IF cmd = "revoke"
                  THEN IF i \in Plain THEN "plain revocation"
                       ELSE IF i \in Intakes THEN "intake revocation" ELSE "workflow revocation"
                ELSE cmd
  BY <1>1 DEF Kind
<1>3. Path("plain delivery", PlainDelivery) /\ PlainDelivery # << >> /\ Head(PlainDelivery) = "running"
  <2>1. PlainDelivery \in Seq(StepName)
    BY DEF PlainDelivery, StepName
  <2>2. PlainDelivery # << >> /\ Len(PlainDelivery) = 4 /\ Head(PlainDelivery) = "running" /\ PlainDelivery[4] = "receipt"
    BY DEF PlainDelivery
  <2>3. ASSUME NEW n \in 1 .. 4
        PROVE  n < 4 => Follows("plain delivery", PlainDelivery[n], PlainDelivery[n + 1])
    BY DEF PlainDelivery, Follows
  <2> QED BY <2>1, <2>2, <2>3, Literal DEF Ending
<1>4. Path("intake delivery", IntakeDelivery) /\ IntakeDelivery # << >> /\ Head(IntakeDelivery) = "running"
  <2>1. IntakeDelivery \in Seq(StepName)
    BY DEF IntakeDelivery, StepName
  <2>2. IntakeDelivery # << >> /\ Len(IntakeDelivery) = 6 /\ Head(IntakeDelivery) = "running" /\ IntakeDelivery[6] = "receipt"
    BY DEF IntakeDelivery
  <2>3. ASSUME NEW n \in 1 .. 6
        PROVE  n < 6 => Follows("intake delivery", IntakeDelivery[n], IntakeDelivery[n + 1])
    BY DEF IntakeDelivery, Follows
  <2> QED BY <2>1, <2>2, <2>3, Literal DEF Ending
<1>5. Path("workflow delivery", WorkflowDelivery) /\ WorkflowDelivery # << >> /\ Head(WorkflowDelivery) = "prior"
  <2>1. WorkflowDelivery \in Seq(StepName)
    BY DEF WorkflowDelivery, StepName
  <2>2. WorkflowDelivery # << >> /\ Len(WorkflowDelivery) = 10 /\ Head(WorkflowDelivery) = "prior" /\ WorkflowDelivery[10] = "receipt"
    BY DEF WorkflowDelivery
  <2>3. ASSUME NEW n \in 1 .. 10
        PROVE  n < 10 => Follows("workflow delivery", WorkflowDelivery[n], WorkflowDelivery[n + 1])
    BY DEF WorkflowDelivery, Follows
  <2> QED BY <2>1, <2>2, <2>3, Literal DEF Ending
<1>6. Path("plain revocation", PlainRevocation) /\ PlainRevocation # << >> /\ Head(PlainRevocation) = "read"
  <2>1. PlainRevocation \in Seq(StepName)
    BY DEF PlainRevocation, StepName
  <2>2. PlainRevocation # << >> /\ Len(PlainRevocation) = 4 /\ Head(PlainRevocation) = "read" /\ PlainRevocation[4] = "receipt"
    BY DEF PlainRevocation
  <2>3. ASSUME NEW n \in 1 .. 4
        PROVE  n < 4 => Follows("plain revocation", PlainRevocation[n], PlainRevocation[n + 1])
    BY DEF PlainRevocation, Follows
  <2> QED BY <2>1, <2>2, <2>3, Literal DEF Ending
<1>7. Path("intake revocation", IntakeRevocation) /\ IntakeRevocation # << >> /\ Head(IntakeRevocation) = "read"
  <2>1. IntakeRevocation \in Seq(StepName)
    BY DEF IntakeRevocation, StepName
  <2>2. IntakeRevocation # << >> /\ Len(IntakeRevocation) = 6 /\ Head(IntakeRevocation) = "read" /\ IntakeRevocation[6] = "receipt"
    BY DEF IntakeRevocation
  <2>3. ASSUME NEW n \in 1 .. 6
        PROVE  n < 6 => Follows("intake revocation", IntakeRevocation[n], IntakeRevocation[n + 1])
    BY DEF IntakeRevocation, Follows
  <2> QED BY <2>1, <2>2, <2>3, Literal DEF Ending
<1>8. Path("workflow revocation", WorkflowRevocation) /\ WorkflowRevocation # << >> /\ Head(WorkflowRevocation) = "read"
  <2>1. WorkflowRevocation \in Seq(StepName)
    BY DEF WorkflowRevocation, Removal, StepName
  <2>2. WorkflowRevocation # << >> /\ Len(WorkflowRevocation) = 8 /\ Head(WorkflowRevocation) = "read" /\ WorkflowRevocation[8] = "receipt"
    BY DEF WorkflowRevocation, Removal
  <2>3. ASSUME NEW n \in 1 .. 8
        PROVE  n < 8 => Follows("workflow revocation", WorkflowRevocation[n], WorkflowRevocation[n + 1])
    <3>1. /\ WorkflowRevocation[1] = "read" /\ WorkflowRevocation[2] = "revoke"
          /\ WorkflowRevocation[3] = "unpatch" /\ WorkflowRevocation[4] = "rollout"
          /\ WorkflowRevocation[5] = "delete" /\ WorkflowRevocation[6] = "unready"
          /\ WorkflowRevocation[7] = "settle"
      BY DEF WorkflowRevocation, Removal
    <3> QED BY <2>2, <3>1 DEF Follows
  <2> QED BY <2>1, <2>2, <2>3, Literal DEF Ending
<1>9. Path("suspend", SuspendSteps) /\ SuspendSteps # << >> /\ Head(SuspendSteps) = "read"
  <2>1. SuspendSteps \in Seq(StepName)
    BY DEF SuspendSteps, StepName
  <2>2. SuspendSteps # << >> /\ Len(SuspendSteps) = 6 /\ Head(SuspendSteps) = "read" /\ SuspendSteps[6] = "receipt"
    BY DEF SuspendSteps
  <2>3. ASSUME NEW n \in 1 .. 6
        PROVE  n < 6 => Follows("suspend", SuspendSteps[n], SuspendSteps[n + 1])
    BY DEF SuspendSteps, Follows
  <2> QED BY <2>1, <2>2, <2>3, Literal DEF Ending
<1>10. Path("commission", CommissionSteps) /\ CommissionSteps # << >> /\ Head(CommissionSteps) = "mint"
  <2>1. CommissionSteps \in Seq(StepName)
    BY DEF CommissionSteps, StepName
  <2>2. CommissionSteps # << >> /\ Len(CommissionSteps) = 3 /\ Head(CommissionSteps) = "mint" /\ CommissionSteps[3] = "receipt"
    BY DEF CommissionSteps
  <2>3. ASSUME NEW n \in 1 .. 3
        PROVE  n < 3 => Follows("commission", CommissionSteps[n], CommissionSteps[n + 1])
    BY DEF CommissionSteps, Follows
  <2> QED BY <2>1, <2>2, <2>3, Literal DEF Ending
<1>11. Path("status", StatusSteps) /\ StatusSteps # << >> /\ Head(StatusSteps) = "read"
  <2>1. StatusSteps \in Seq(StepName)
    BY DEF StatusSteps, StepName
  <2>2. StatusSteps # << >> /\ Len(StatusSteps) = 3 /\ Head(StatusSteps) = "read" /\ StatusSteps[3] = "receipt"
    BY DEF StatusSteps
  <2>3. ASSUME NEW n \in 1 .. 3
        PROVE  n < 3 => Follows("status", StatusSteps[n], StatusSteps[n + 1])
    BY DEF StatusSteps, Follows
  <2> QED BY <2>1, <2>2, <2>3, Literal DEF Ending
<1>12. /\ Path(Kind(o), Plan(cmd, i)) /\ Plan(cmd, i) # << >>
       /\ Head(Plan(cmd, i)) \in {"running", "prior", "read", "mint"}
       /\ Head(Plan(cmd, i)) = "mint" => cmd = "commission"
       /\ cmd \in {"revoke", "suspend", "status"} <=> Head(Plan(cmd, i)) = "read"
  BY <1>2, <1>3, <1>4, <1>5, <1>6, <1>7, <1>8, <1>9, <1>10, <1>11
     DEF Plan, Commanded, DeliverSteps, RevokeSteps
<1>13. o \in Op
  <2>1. Plan(cmd, i) \in Seq(StepName) BY <1>12 DEF Path
  <2> QED BY <1>1, <2>1 DEF Op, Idle, TokenOrNone, Order
<1>14. o.todo \in Seq(StepName) \ {<< >>}
  BY <1>1, <1>12 DEF Path
<1> QED BY <1>1, <1>12, <1>13, <1>14

\* One step further on a path.
LEMMA Onwards ==
  ASSUME NEW k, NEW s, Path(k, s), s # << >>
  PROVE  /\ Head(s) \in StepName /\ Tail(s) \in Seq(StepName) /\ Path(k, Tail(s))
         /\ IF Tail(s) = << >> THEN Ending(k, Head(s)) ELSE Follows(k, Head(s), Head(Tail(s)))
<1>1. s \in Seq(StepName) /\ Len(s) \in Nat \ {0}
  BY EmptySeq DEF Path
<1>2. /\ Head(s) = s[1] /\ Tail(s) \in Seq(StepName) /\ Len(Tail(s)) = Len(s) - 1
      /\ \A n \in 1 .. Len(s) - 1 : Tail(s)[n] = s[n + 1]
  BY <1>1
<1>3. Path(k, Tail(s))
  BY <1>1, <1>2 DEF Path
<1>4. CASE Tail(s) = << >>
  <2>1. Len(s) = 1
    <3>1. Len(Tail(s)) = 0 BY <1>2, <1>4, EmptySeq
    <3>2. Len(Tail(s)) = Len(s) - 1 BY <1>2
    <3> QED BY <1>1, <3>1, <3>2
  <2> QED BY <1>1, <1>2, <1>4, <2>1 DEF Path
<1>5. CASE Tail(s) # << >>
  <2>1. Len(s) > 1 /\ Head(Tail(s)) = s[2]
    BY <1>1, <1>2, <1>5, EmptySeq
  <2> QED BY <1>1, <1>2, <1>3, <1>5, <2>1 DEF Path
<1> QED BY <1>1, <1>2, <1>3, <1>4, <1>5

\* What a failed delivery undoes is a plan of its own.
LEMMA Cleanups ==
  ASSUME OpInv, op.cmd = "deliver", NEW o, o = [op EXCEPT !.todo = Cleanup, !.failing = TRUE]
  PROVE  /\ o \in Op /\ Path(Kind(o), o.todo)
         /\ o.cmd = op.cmd /\ o.id = op.id /\ o.failing
         /\ o.token = op.token /\ o.prior = op.prior
         /\ o.todo # << >> /\ Head(o.todo) = "discard"
<1>1. op \in Op /\ op.id \in Ids
  BY DEF OpInv
<1>2. /\ o.todo = Cleanup /\ o.failing = TRUE /\ o.cmd = op.cmd /\ o.id = op.id
      /\ o.token = op.token /\ o.prior = op.prior /\ o.applied = op.applied
  BY <1>1 DEF Op
<1>3. Kind(o) = IF op.id \in Workflows THEN "workflow cleanup" ELSE "cleanup"
  BY <1>2 DEF Kind
<1>4. Path(Kind(o), Cleanup) /\ Cleanup # << >> /\ Head(Cleanup) = "discard"
  <2>1. CASE op.id \notin Workflows /\ ~op.applied
    <3> DEFINE c == <<"discard">>
    <3>1. c \in Seq(StepName) BY DEF StepName
    <3>2. c # << >> /\ Len(c) = 1 /\ c[1] = "discard" /\ Head(c) = "discard" OBVIOUS
    <3>3. Cleanup = c
      BY <2>1 DEF Cleanup
    <3> HIDE DEF c
    <3>4. \A n \in 1 .. Len(c) : n < Len(c) => Follows("cleanup", c[n], c[n + 1])
      BY <3>2
    <3>5. Ending("cleanup", c[Len(c)])
      BY <3>2 DEF Ending
    <3> QED BY <1>3, <2>1, <3>1, <3>2, <3>3, <3>4, <3>5, Literal
  <2>2. CASE op.id \notin Workflows /\ op.applied
    <3> DEFINE c == <<"discard">> \o <<"delete">>
    <3>1. c \in Seq(StepName) BY DEF StepName
    <3>2. c # << >> /\ Len(c) = 2 /\ c[1] = "discard" /\ c[2] = "delete" /\ Head(c) = "discard"
      OBVIOUS
    <3>3. Cleanup = c
      BY <2>2 DEF Cleanup
    <3>4. Follows("cleanup", "discard", "delete") /\ Ending("cleanup", "delete")
      BY DEF Follows, Ending
    <3> HIDE DEF c
    <3>5. ASSUME NEW n \in 1 .. 2, n < 2 PROVE Follows("cleanup", c[n], c[n + 1])
      <4>1. n = 1 /\ n + 1 = 2 BY <3>5
      <4> QED BY <3>2, <3>4, <4>1
    <3> QED BY <1>3, <2>2, <3>1, <3>2, <3>3, <3>4, <3>5, Literal
  <2>3. CASE op.id \in Workflows /\ ~op.applied
    <3> DEFINE c == <<"discard", "discardPrior">> \o << >>
    <3>1. c \in Seq(StepName) BY DEF StepName
    <3>2. /\ c # << >> /\ Len(c) = 2 /\ c[1] = "discard" /\ c[2] = "discardPrior"
          /\ Head(c) = "discard"
      OBVIOUS
    <3>3. Cleanup = c
      BY <2>3 DEF Cleanup, WorkflowCleanup
    <3>4. /\ Follows("workflow cleanup", "discard", "discardPrior")
          /\ Ending("workflow cleanup", "discardPrior")
      BY DEF Follows, Ending
    <3> HIDE DEF c
    <3>5. ASSUME NEW n \in 1 .. 2, n < 2 PROVE Follows("workflow cleanup", c[n], c[n + 1])
      <4>1. n = 1 /\ n + 1 = 2 BY <3>5
      <4> QED BY <3>2, <3>4, <4>1
    <3> QED BY <1>3, <2>3, <3>1, <3>2, <3>3, <3>4, <3>5, Literal
  <2>4. CASE op.id \in Workflows /\ op.applied
    <3> DEFINE c == <<"discard", "discardPrior">> \o Removal
    <3>1. c \in Seq(StepName) BY DEF StepName, Removal
    <3>2. c # << >> /\ Len(c) = 7 /\ Head(c) = "discard"
      BY DEF Removal
    <3>3. /\ c[1] = "discard" /\ c[2] = "discardPrior" /\ c[3] = "unpatch" /\ c[4] = "rollout"
          /\ c[5] = "delete" /\ c[6] = "unready" /\ c[7] = "settle"
      BY DEF Removal
    <3>4. Cleanup = c
      BY <2>4 DEF Cleanup, WorkflowCleanup
    <3> HIDE DEF c
    <3>5. \A n \in 1 .. 7 : n < 7 => Follows("workflow cleanup", c[n], c[n + 1])
      BY <3>3 DEF Follows
    <3>6. Ending("workflow cleanup", c[7])
      BY <3>3 DEF Ending
    <3> QED BY <1>3, <2>4, <3>1, <3>2, <3>4, <3>5, <3>6, Literal
  <2> QED BY <1>1, <2>1, <2>2, <2>3, <2>4 DEF Op
<1>5. o \in Op
  <2>1. Cleanup \in Seq(StepName) BY <1>4 DEF Path
  <2> QED BY <1>1, <2>1 DEF Op
<1> QED BY <1>1, <1>2, <1>4, <1>5

-----------------------------------------------------------------------------
(* How the command moves.                                                  *)

\* The command goes on to its next step, possibly with a token.
Onto == /\ op'.cmd = op.cmd /\ op'.id = op.id /\ op'.failing = op.failing
        /\ Follows(Kind(op), Step, Step')

Fresh == op'.token = op.token /\ op'.prior = op.prior

\* It ends.
Ended == op' = Idle

\* It starts to undo what it delivered.
Undoing ==
  /\ Delivering /\ op.token # NoToken /\ Step \notin {"none"}
  /\ op'.cmd = "deliver" /\ op'.failing /\ op'.id = op.id /\ Fresh /\ Step' = "discard"

\* The idle command.
LEMMA IdleCommand ==
  /\ Idle \in Op /\ Idle.todo = << >> /\ Idle.cmd = "idle" /\ Idle.failing = FALSE
  /\ Idle.token = NoToken /\ Idle.prior = NoToken /\ Path(Kind(Idle), Idle.todo)
<1>1. /\ Idle \in Op /\ Idle.todo = << >> /\ Idle.cmd = "idle" /\ Idle.failing = FALSE
      /\ Idle.token = NoToken /\ Idle.prior = NoToken
  BY DEF Idle, Op, TokenOrNone, Commanded
<1>2. Path(Kind(Idle), << >>)
  BY DEF Path
<1> QED BY <1>1, <1>2

\* A command that ends leaves nothing to do.
LEMMA Ending1 ==
  ASSUME op' = Idle
  PROVE  /\ OpInv' /\ op'.cmd = "idle" /\ Step' = "none" /\ op'.failing = FALSE
         /\ op'.token = NoToken /\ op'.prior = NoToken
BY IdleCommand DEF OpInv, Step

\* A command whose next step follows keeps to its plan.
LEMMA Going ==
  ASSUME OpInv, op.todo # << >>, NEW o, o \in Op, o.todo = Tail(op.todo), o.todo # << >>,
         o.cmd = op.cmd, o.id = op.id, o.failing = op.failing, op' = o,
         o.token # NoToken => o.token.id = op.id, o.prior # NoToken => o.prior.id = op.id
  PROVE  OpInv' /\ Onto
<1>1. /\ Path(Kind(op), Tail(op.todo))
      /\ Follows(Kind(op), Head(op.todo), Head(Tail(op.todo)))
  BY Onwards DEF OpInv
<1>2. Kind(o) = Kind(op)
  BY DEF Kind
<1>3. Kind(op') = Kind(op) /\ op'.todo = Tail(op.todo) /\ op'.todo # << >>
  BY <1>2
<1>4. op.cmd # "idle"
  BY IdleCommand DEF OpInv
<1>5. Follows(Kind(op), Step, Step')
  BY <1>1, <1>3 DEF Step
<1> QED BY <1>1, <1>3, <1>4, <1>5 DEF OpInv, Onto

\* The rest of the plan, where a step is not its last.
LEMMA Rests ==
  ASSUME OpInv, op.todo # << >>, ~Ending(Kind(op), Step)
  PROVE  /\ Rest \in Op /\ Rest.todo = Tail(op.todo) /\ Rest.todo # << >>
         /\ Rest.cmd = op.cmd /\ Rest.id = op.id /\ Rest.failing = op.failing
         /\ Rest.token = op.token /\ Rest.prior = op.prior /\ Rest.applied = op.applied
<1>1. op \in Op /\ Tail(op.todo) \in Seq(StepName) /\ Tail(op.todo) # << >>
  BY Onwards DEF OpInv, Step
<1> QED BY <1>1 DEF Rest, Op

\* A command goes on after a step, or its cleanup ends.
LEMMA Proceeding ==
  ASSUME OpInv, op.todo # << >>, op' = Settled(Rest), Step # "receipt"
  PROVE  /\ OpInv'
         /\ \/ Onto /\ Fresh
            \/ Ended /\ op.failing /\ Step \in {"discard", "discardPrior", "delete", "settle"}
<1>1. CASE Ending(Kind(op), Step)
  <2>1. op \in Op /\ Step = Head(op.todo) /\ Step \in StepName /\ Tail(op.todo) \in Seq(StepName)
    BY Onwards DEF OpInv, Step
  <2>2. op.failing /\ Step \in {"discard", "discardPrior", "delete", "settle"}
    BY <1>1, <2>1 DEF Ending, Kind, Op, Commanded
  <2>3. Rest \in Op /\ Rest.todo = Tail(op.todo)
    BY <2>1 DEF Rest, Op
  <2>4. CASE Tail(op.todo) = << >>
    <3>1. Ended BY <2>3, <2>4 DEF Settled, Ended
    <3> QED BY <2>2, <3>1, Ending1 DEF Ended
  <2>5. CASE Tail(op.todo) # << >>
    <3>1. op' = Rest BY <2>3, <2>5 DEF Settled
    <3>2. /\ Rest.cmd = op.cmd /\ Rest.id = op.id /\ Rest.failing = op.failing
          /\ Rest.token = op.token /\ Rest.prior = op.prior
      BY <2>1 DEF Rest, Op
    <3>3. OpInv' /\ Onto
      BY <2>3, <2>5, <3>1, <3>2, Going DEF OpInv
    <3> QED BY <3>1, <3>2, <3>3 DEF Fresh
  <2> QED BY <2>4, <2>5
<1>2. CASE ~Ending(Kind(op), Step)
  <2>1. op' = Rest BY <1>2, Rests DEF Settled
  <2>2. OpInv' /\ Onto
    BY <1>2, <2>1, Rests, Going DEF OpInv
  <2> QED BY <1>2, <2>1, <2>2, Rests DEF Fresh
<1> QED BY <1>1, <1>2

\* A command that fails ends, or undoes its delivery.
LEMMA Failing ==
  ASSUME OpInv, op.todo # << >>, op' = Failed
  PROVE  OpInv' /\ (Ended \/ Undoing)
<1>1. CASE op.cmd = "deliver" /\ op.token # NoToken /\ ~op.failing
  <2>1. op' = [op EXCEPT !.todo = Cleanup, !.failing = TRUE]
    BY <1>1 DEF Failed
  <2>2. /\ op' \in Op /\ Path(Kind(op'), op'.todo)
        /\ op'.cmd = op.cmd /\ op'.id = op.id /\ op'.failing
        /\ op'.token = op.token /\ op'.prior = op.prior
        /\ op'.todo # << >> /\ Head(op'.todo) = "discard"
    BY <1>1, <2>1, Cleanups
  <2>3. Head(op.todo) \in StepName
    BY Onwards DEF OpInv
  <2>4. Step \notin {"none"}
    BY <2>3 DEF Step, StepName
  <2>5. OpInv' /\ Undoing
    BY <1>1, <2>2, <2>4 DEF OpInv, Undoing, Delivering, Fresh, Step
  <2> QED BY <2>5
<1>2. CASE ~(op.cmd = "deliver" /\ op.token # NoToken /\ ~op.failing)
  BY <1>2, Ending1 DEF Failed, Ended
<1> QED BY <1>1, <1>2

\* What each kind of command does in a step, and where that step is.
LEMMA Steps ==
  ASSUME OpInv
  PROVE  /\ Step = "none" <=> op.todo = << >>
         /\ Step = "none" <=> op.cmd = "idle"
         /\ \A x \in StepName : Now(x) <=> Step = x
         /\ op.cmd \in Commanded /\ op.failing \in BOOLEAN
<1>1. op \in Op BY DEF OpInv
<1>2. op.todo # << >> => Head(op.todo) \in StepName /\ Head(op.todo) # "none"
  <2>1. op.todo # << >> => Head(op.todo) \in StepName
    BY Onwards DEF OpInv
  <2> QED BY <2>1 DEF StepName
<1>3. op.cmd = "idle" <=> op.todo = << >>
  BY IdleCommand DEF OpInv
<1> QED BY <1>1, <1>2, <1>3 DEF Step, Now, Op, StepName

\* What each action does to the command.
Ends1 == {"revoke", "return", "discard", "retire", "discardPrior"}

\* A step that only goes on.
LEMMA Plainly ==
  ASSUME OpInv, NEW x \in StepName \ {"receipt"}, Now(x), Proceed
  PROVE  /\ OpInv' /\ Step = x
         /\ \/ Onto /\ Fresh
            \/ Ended /\ op.failing /\ x \in {"discard", "discardPrior", "delete", "settle"}
<1>1. Step = x /\ op.todo # << >>
  BY Steps DEF Now, StepName
<1> QED BY <1>1, Proceeding DEF Proceed

\* A step that is not the last of its plan, and notes something.
LEMMA Noting ==
  ASSUME OpInv, NEW x \in {"prior", "read", "mint", "apply"}, Now(x),
         NEW o, o \in Op, o.todo = Rest.todo, o.cmd = op.cmd, o.id = op.id,
         o.failing = op.failing, op' = o,
         o.token # NoToken => o.token.id = op.id, o.prior # NoToken => o.prior.id = op.id
  PROVE  OpInv' /\ Onto /\ Step = x
<1>1. x \in StepName
  BY DEF StepName
<1>2. Step = x /\ op.todo # << >> /\ Step # "none"
  BY <1>1, Steps DEF Now
<1>3. ~Ending(Kind(op), Step)
  BY <1>2 DEF Ending
<1> QED BY <1>2, <1>3, Rests, Going

LEMMA PriorMoves ==
  ASSUME Types, Prior
  PROVE  /\ OpInv' /\ Step = "prior" /\ Onto
         /\ op'.token = op.token /\ op'.prior = secret[op.id].token
<1>1. op \in Op /\ op.id \in Ids /\ Now("prior") /\ op.todo # << >>
  BY Steps DEF Types, OpInv, Prior, Now
<1>2. secret[op.id].token \in TokenOrNone
      /\ (secret[op.id].token # NoToken => secret[op.id].token.id = op.id)
  BY <1>1 DEF Types, TypeOK, TokenOrNone, None
<1>3. Step = "prior" /\ ~Ending(Kind(op), Step)
  BY <1>1, Steps DEF Types, StepName, Ending
<1>4. /\ Rest \in Op /\ Rest.cmd = op.cmd /\ Rest.id = op.id /\ Rest.failing = op.failing
      /\ Rest.token = op.token
  BY <1>1, <1>3, Rests DEF Types
<1>5. /\ op' \in Op /\ op'.todo = Rest.todo /\ op'.cmd = op.cmd /\ op'.id = op.id
      /\ op'.failing = op.failing /\ op'.token = op.token /\ op'.prior = secret[op.id].token
  BY <1>2, <1>4 DEF Prior, Op
<1>6. op.token # NoToken => op.token.id = op.id
  BY DEF Types, OpInv
<1> QED BY <1>1, <1>2, <1>3, <1>5, <1>6, Noting DEF Types

LEMMA ReadMoves ==
  ASSUME Types, Read
  PROVE  /\ OpInv' /\ Step = "read"
         /\ \/ Ended
            \/ Onto /\ secret[op.id] # None /\ op'.token = secret[op.id].token /\ op'.prior = op.prior
<1>1. op \in Op /\ op.id \in Ids /\ Now("read") /\ op.todo # << >>
  BY Steps DEF Types, OpInv, Read, Now
<1>2. secret[op.id].token \in TokenOrNone
      /\ (secret[op.id].token # NoToken => secret[op.id].token.id = op.id)
  BY <1>1 DEF Types, TypeOK, TokenOrNone, None
<1>3. Step = "read" /\ ~Ending(Kind(op), Step)
  BY <1>1, Steps DEF Types, StepName, Ending
<1>4. /\ Rest \in Op /\ Rest.cmd = op.cmd /\ Rest.id = op.id /\ Rest.failing = op.failing
      /\ Rest.prior = op.prior
  BY <1>1, <1>3, Rests DEF Types
<1>5. CASE op' = Idle
  BY <1>3, <1>5, Ending1 DEF Ended
<1>6. CASE op' # Idle
  <2>1. secret[op.id] # None /\ op' = [Rest EXCEPT !.token = secret[op.id].token]
    BY <1>6 DEF Read
  <2>2. /\ op' \in Op /\ op'.todo = Rest.todo /\ op'.cmd = op.cmd /\ op'.id = op.id
        /\ op'.failing = op.failing /\ op'.token = secret[op.id].token /\ op'.prior = op.prior
    BY <1>2, <1>4, <2>1 DEF Op
  <2>3. op.prior # NoToken => op.prior.id = op.id
    BY DEF Types, OpInv
  <2> QED BY <1>1, <1>2, <1>3, <2>1, <2>2, <2>3, Noting DEF Types
<1> QED BY <1>5, <1>6

LEMMA MintMoves ==
  ASSUME Types, Mint
  PROVE  /\ OpInv' /\ Step = "mint" /\ Onto /\ Minted \in Token /\ Minted.id = op.id
         /\ op'.token = Minted /\ op'.prior = op.prior
<1>1. op \in Op /\ op.id \in Ids /\ Now("mint") /\ op.todo # << >>
  BY Steps DEF Types, OpInv, Mint, Now
<1>2. Minted \in Token /\ Minted.id = op.id
  BY <1>1 DEF Types, Minted, Token
<1>3. Step = "mint" /\ ~Ending(Kind(op), Step)
  BY <1>1, Steps DEF Types, StepName, Ending
<1>4. /\ Rest \in Op /\ Rest.cmd = op.cmd /\ Rest.id = op.id /\ Rest.failing = op.failing
      /\ Rest.prior = op.prior
  BY <1>1, <1>3, Rests DEF Types
<1>5. /\ op' \in Op /\ op'.todo = Rest.todo /\ op'.cmd = op.cmd /\ op'.id = op.id
      /\ op'.failing = op.failing /\ op'.token = Minted /\ op'.prior = op.prior
  BY <1>2, <1>4 DEF Mint, Op, TokenOrNone
<1>6. op.prior # NoToken => op.prior.id = op.id
  BY DEF Types, OpInv
<1> QED BY <1>1, <1>2, <1>3, <1>5, <1>6, Noting DEF Types

LEMMA ApplyMoves ==
  ASSUME Types, Apply
  PROVE  OpInv' /\ Step = "apply" /\ Onto /\ Fresh
<1>1. op \in Op /\ op.id \in Ids /\ Now("apply") /\ op.todo # << >>
  BY Steps DEF Types, OpInv, Apply, Now
<1>3. Step = "apply" /\ ~Ending(Kind(op), Step)
  BY <1>1, Steps DEF Types, StepName, Ending
<1>4. /\ Rest \in Op /\ Rest.cmd = op.cmd /\ Rest.id = op.id /\ Rest.failing = op.failing
      /\ Rest.prior = op.prior /\ Rest.token = op.token
  BY <1>1, <1>3, Rests DEF Types
<1>5. /\ op' \in Op /\ op'.todo = Rest.todo /\ op'.cmd = op.cmd /\ op'.id = op.id
      /\ op'.failing = op.failing /\ op'.token = op.token /\ op'.prior = op.prior
  BY <1>4 DEF Apply, Op
<1>6. /\ op.prior # NoToken => op.prior.id = op.id
      /\ op.token # NoToken => op.token.id = op.id
  BY DEF Types, OpInv
<1> QED BY <1>1, <1>3, <1>5, <1>6, Noting DEF Types, Fresh

\* A failure of a step, and its end without one.
LEMMA FailMoves ==
  ASSUME Types, op.todo # << >>, op' = Failed \/ op' = Idle
  PROVE  OpInv' /\ (Ended \/ Undoing)
BY Failing, Ending1 DEF Types, Ended

LEMMA RevokeMoves ==
  ASSUME Types, op.todo # << >>, Head(op.todo) \in Ends1, op' = Settled(Rest)
  PROVE  /\ OpInv' /\ Step = Head(op.todo)
         /\ (Onto /\ Fresh) \/ (Ended /\ op.failing)
<1>1. Step = Head(op.todo) /\ Step # "receipt"
  BY DEF Step, Ends1
<1> QED BY <1>1, Proceeding DEF Types

LEMMA CommandMoves ==
  ASSUME Types, Command
  PROVE  /\ OpInv' /\ op.cmd = "idle" /\ op'.cmd \in Commanded \ {"idle"} /\ op'.failing = FALSE
         /\ op'.token = NoToken /\ op'.prior = NoToken
         /\ Step' \in {"running", "prior", "read", "mint"}
         /\ Step' = "mint" => op'.cmd = "commission"
         /\ op'.cmd \in {"revoke", "suspend", "status"} <=> Step' = "read"
<1>1. PICK cmd \in Commanded \ {"idle"}, i \in Ids :
        /\ cmd = "suspend" => i \in Workflows
        /\ cmd = "status" => i \in Intakes
        /\ op' = Order(cmd, i)
  BY DEF Command, Commanded, Order
<1>2. /\ op' \in Op /\ Path(Kind(op'), op'.todo)
      /\ op'.cmd = cmd /\ op'.id = i /\ op'.failing = FALSE
      /\ op'.token = NoToken /\ op'.prior = NoToken
      /\ op'.todo # << >> /\ Head(op'.todo) \in {"running", "prior", "read", "mint"}
      /\ Head(op'.todo) = "mint" => cmd = "commission"
      /\ cmd \in {"revoke", "suspend", "status"} <=> Head(op'.todo) = "read"
  <2>1. /\ op'.cmd = cmd /\ op'.id = i /\ op'.failing = FALSE
        /\ op'.token = NoToken /\ op'.prior = NoToken
    BY <1>1 DEF Order, Idle
  <2>2. op' \in Op /\ Path(Kind(op'), op'.todo) /\ op'.todo \in Seq(StepName) \ {<< >>}
    BY <1>1, Plans
  <2>3. Head(op'.todo) \in {"running", "prior", "read", "mint"}
    BY <1>1, Plans
  <2>4. /\ Head(op'.todo) = "mint" => cmd = "commission"
        /\ cmd \in {"revoke", "suspend", "status"} <=> Head(op'.todo) = "read"
    BY <1>1, Plans
  <2> QED BY <2>1, <2>2, <2>3, <2>4
<1> QED BY <1>1, <1>2 DEF OpInv, Step, Command

-----------------------------------------------------------------------------
(* How the renewal moves.                                                  *)

\* The steps of a renewal, one after the other.
LEMMA RenewalPlans ==
  ASSUME NEW s \in RenewalTodo, s # << >>
  PROVE  /\ Tail(s) \in RenewalTodo
         /\ Tail(s) \in Looking => s \in Looking
         /\ Head(s) \in {"gather", "decide", "mint", "project", "consume", "rollout", "observe",
                         "status", "retire", "release"}
         /\ Head(s) = "gather" => Tail(s) = <<"decide">>
         /\ Head(s) \in {"gather", "decide", "observe"} => s \in Looking
         /\ Head(s) = "mint" => Tail(s) = <<"project", "consume", "rollout", "status", "retire">>
         /\ Head(s) \in {"mint", "project", "consume", "rollout"} => Tail(s) # << >>
         /\ Tail(s) # << >> =>
              Head(Tail(s)) \in {"decide", "project", "consume", "rollout", "observe", "status", "retire"}
         /\ Tail(s) # << >> /\ Head(Tail(s)) = "project" => Head(s) = "mint"
         /\ Tail(s) # << >> /\ Head(Tail(s)) = "retire" => Head(s) = "status"
<1>1. CASE s = <<"gather", "decide">> BY <1>1 DEF RenewalTodo, Looking, Replacement
<1>2. CASE s = <<"decide">> BY <1>2 DEF RenewalTodo, Looking, Replacement
<1>3. CASE s = Replacement BY <1>3 DEF RenewalTodo, Looking, Replacement
<1>4. CASE s = <<"project", "consume", "rollout", "status", "retire">>
  BY <1>4 DEF RenewalTodo, Looking, Replacement
<1>5. CASE s = <<"consume", "rollout", "status", "retire">>
  BY <1>5 DEF RenewalTodo, Looking, Replacement
<1>6. CASE s = <<"rollout", "status", "retire">> BY <1>6 DEF RenewalTodo, Looking, Replacement
<1>7. CASE s = <<"status", "retire">> BY <1>7 DEF RenewalTodo, Looking, Replacement
<1>8. CASE s = <<"retire">> BY <1>8 DEF RenewalTodo, Looking, Replacement
<1>9. CASE s = <<"consume", "rollout", "observe">> BY <1>9 DEF RenewalTodo, Looking, Replacement
<1>10. CASE s = <<"rollout", "observe">> BY <1>10 DEF RenewalTodo, Looking, Replacement
<1>11. CASE s = <<"observe">> BY <1>11 DEF RenewalTodo, Looking, Replacement
<1>12. CASE s = <<"status">> BY <1>12 DEF RenewalTodo, Looking, Replacement
<1>13. CASE s = <<"release">> BY <1>13 DEF RenewalTodo, Looking, Replacement
<1> QED
  BY <1>1, <1>2, <1>3, <1>4, <1>5, <1>6, <1>7, <1>8, <1>9, <1>10, <1>11, <1>12, <1>13
     DEF RenewalTodo

\* The timer at rest.
LEMMA AtRest ==
  /\ Asleep \in Renewal /\ Asleep.todo = << >> /\ Asleep.due = {} /\ Asleep.done = {}
  /\ \A i \in Group : Asleep.seen[i] = None /\ Asleep.fresh[i] = NoToken
<1>1. /\ Asleep.todo = << >> /\ Asleep.due = {} /\ Asleep.done = {}
      /\ Asleep.seen = [i \in Group |-> None] /\ Asleep.fresh = [i \in Group |-> NoToken]
  BY DEF Asleep
<1>2. None \in [token : TokenOrNone, session : 0 .. Sessions]
  BY IdentitiesAssumption DEF None, TokenOrNone
<1>3. << >> \in RenewalTodo
  BY DEF RenewalTodo
<1>4. Asleep \in Renewal
  BY <1>2, <1>3 DEF Asleep, Renewal, TokenOrNone
<1> QED BY <1>1, <1>4

LEMMA Sleeping ==
  ASSUME renewal' = Asleep
  PROVE  RenewalInv' /\ Step1' = "none"
<1>1. Step1' = "none" /\ renewal'.todo = << >> BY AtRest DEF Step1
<1>2. renewal'.todo \notin Looking
  BY <1>1 DEF Looking
<1> QED BY <1>1, <1>2, AtRest DEF RenewalInv

\* Where the renewal is.
LEMMA Steps1 ==
  ASSUME RenewalInv
  PROVE  /\ renewal.todo # << >> <=> Step1 # "none"
         /\ renewal.todo # << >> => Step1 = Head(renewal.todo)
         /\ \A x \in {"gather", "decide", "mint", "project", "consume", "rollout", "observe",
                      "status", "retire", "release"} : Next1(x) <=> Step1 = x
<1>1. renewal.todo # << >> =>
        Head(renewal.todo) \in {"gather", "decide", "mint", "project", "consume", "rollout",
                                "observe", "status", "retire", "release"}
  BY RenewalPlans DEF RenewalInv, Renewal
<1> QED BY <1>1 DEF Step1, Next1

\* A renewal that goes on with the rest of its steps and all it knows.
LEMMA Proceeding1 ==
  ASSUME RenewalInv, renewal.todo # << >>, Proceed1, UNCHANGED spent, Tail(renewal.todo) # << >>,
         Step1 # "gather", Step1 = "mint" => \A i \in renewal.due : renewal.fresh[i] # NoToken
  PROVE  /\ RenewalInv' /\ Step1' \notin {"none", "gather"}
         /\ renewal'.seen = renewal.seen /\ renewal'.due = renewal.due
         /\ renewal'.fresh = renewal.fresh /\ renewal'.done = renewal.done
<1>1. renewal \in Renewal /\ renewal.todo \in RenewalTodo
  BY DEF RenewalInv, Renewal
<1>2. /\ renewal' \in Renewal /\ renewal'.todo = Tail(renewal.todo)
      /\ renewal'.seen = renewal.seen /\ renewal'.due = renewal.due
      /\ renewal'.fresh = renewal.fresh /\ renewal'.done = renewal.done
  BY <1>1, RenewalPlans DEF Proceed1, Rest1, Renewal
<1>3. Step1 = Head(renewal.todo) /\ Step1' = Head(Tail(renewal.todo))
  BY <1>2 DEF Step1
<1>4. /\ Step1' \in {"decide", "project", "consume", "rollout", "observe", "status", "retire"}
      /\ Step1' = "project" => Step1 = "mint"
  BY <1>1, <1>3, RenewalPlans
<1>5. renewal'.todo \in Looking => renewal.todo \in Looking
  BY <1>1, <1>2, RenewalPlans
<1>6. \A i : MintedFor(i)' = MintedFor(i)
  BY DEF MintedFor
<1>7. Step1 \notin {"none", "gather"}
  BY Steps1
<1> QED BY <1>2, <1>4, <1>5, <1>6, <1>7 DEF RenewalInv

\* A renewal that fails.
LEMMA Failing1 ==
  ASSUME RenewalInv, renewal.todo # << >>, renewal' = Failed1, spent'.ticks = spent.ticks
  PROVE  /\ RenewalInv'
         /\ \/ renewal' = Asleep
            \/ /\ Step1' = "release" /\ renewal'.seen = renewal.seen /\ renewal'.due = renewal.due
               /\ renewal'.fresh = renewal.fresh /\ renewal'.done = renewal.done
               /\ Unprojected # {}
<1>1. CASE Unprojected = {}
  BY <1>1, Sleeping DEF Failed1
<1>2. CASE Unprojected # {}
  <2>1. renewal \in Renewal /\ renewal' = [renewal EXCEPT !.todo = <<"release">>]
    BY <1>2 DEF RenewalInv, Failed1
  <2>2. <<"release">> \in RenewalTodo /\ <<"release">> \notin Looking /\ <<"release">> # << >>
        /\ Head(<<"release">>) = "release"
    BY DEF RenewalTodo, Looking
  <2>3. /\ renewal' \in Renewal /\ renewal'.todo = <<"release">>
        /\ renewal'.seen = renewal.seen /\ renewal'.due = renewal.due
        /\ renewal'.fresh = renewal.fresh /\ renewal'.done = renewal.done
    BY <2>1, <2>2 DEF Renewal
  <2>4. Step1' = "release"
    BY <2>2, <2>3 DEF Step1
  <2>5. \A i : MintedFor(i)' = MintedFor(i)
    BY DEF MintedFor
  <2>6. Step1 \notin {"none", "gather"}
    <3>1. PICK i \in Group : renewal.fresh[i] # NoToken /\ i \in renewal.due
      BY <1>2, <2>1 DEF Unprojected, Renewal
    <3>2. renewal.todo \notin Looking
      BY <3>1 DEF RenewalInv
    <3> QED BY <3>2, RenewalPlans, Steps1 DEF RenewalInv, Renewal
  <2> QED BY <1>2, <2>2, <2>3, <2>4, <2>5, <2>6 DEF RenewalInv
<1> QED BY <1>1, <1>2

LEMMA TickMoves ==
  ASSUME Types, Tick
  PROVE  /\ RenewalInv' /\ Step1' = "gather" /\ renewal = Asleep
         /\ renewal'.due = {} /\ renewal'.done = {}
         /\ \A i \in Group : renewal'.seen[i] = None /\ renewal'.fresh[i] = NoToken
<1>0. PICK force \in BOOLEAN :
        renewal' = [Asleep EXCEPT !.todo = <<"gather", "decide">>, !.force = force]
  BY DEF Tick
<1>1. renewal = Asleep
  BY Steps1 DEF Tick, Types, RenewalInv
<1>2. /\ <<"gather", "decide">> \in RenewalTodo /\ Head(<<"gather", "decide">>) = "gather"
      /\ <<"gather", "decide">> # << >>
  BY DEF RenewalTodo
<1>3. /\ renewal' \in Renewal /\ renewal'.todo = <<"gather", "decide">>
      /\ renewal'.due = {} /\ renewal'.done = {}
      /\ \A i \in Group : renewal'.seen[i] = None /\ renewal'.fresh[i] = NoToken
  BY <1>0, <1>2, AtRest DEF Renewal
<1>4. Step1' = "gather"
  BY <1>2, <1>3 DEF Step1
<1> QED BY <1>1, <1>3, <1>4 DEF RenewalInv

LEMMA GatherMoves ==
  ASSUME Types, Gather
  PROVE  /\ RenewalInv'
         /\ \/ renewal' = Asleep
            \/ /\ Step1' = "decide" /\ renewal'.due = {} /\ renewal'.done = {}
               /\ renewal'.fresh = renewal.fresh
               /\ \A i \in Group : renewal'.seen[i] = secret[i] /\ secret[i] # None
<1> RenewalInv /\ renewal \in Renewal /\ renewal.todo \in RenewalTodo
  BY DEF Types, RenewalInv, Renewal
<1>1. CASE renewal' = Asleep
  BY <1>1, Sleeping
<1>2. CASE renewal' # Asleep
  <2>1. renewal' = [Rest1 EXCEPT !.seen = Observed] /\ Bound /\ Next1("gather") /\ UNCHANGED spent
    BY <1>2 DEF Gather
  <2>2. Tail(renewal.todo) = <<"decide">> /\ renewal.todo \in Looking /\ Tail(renewal.todo) \in RenewalTodo
    BY <2>1, RenewalPlans DEF Next1
  <2>3. <<"decide">> # << >> /\ Head(<<"decide">>) = "decide"
    OBVIOUS
  <2>4. renewal.due = {} /\ renewal.done = {}
    BY <2>2 DEF RenewalInv
  <2>5. Observed \in [Group -> [token : TokenOrNone, session : 0 .. Sessions]]
    <3>1. session \in Nat /\ session <= Sessions /\ Sessions \in Nat
      BY IdentitiesAssumption DEF Types, TypeOK
    <3>2. \A i \in Group : secret[i] \in [token : TokenOrNone, session : 0 .. session]
      BY DEF Group, Ids, Types, TypeOK, TokenOrNone
    <3>3. 0 .. session \subseteq 0 .. Sessions
      BY <3>1
    <3> QED BY <3>2, <3>3 DEF Observed
  <2>6. Rest1 \in Renewal /\ Rest1.todo = <<"decide">> /\ Rest1.fresh = renewal.fresh
        /\ Rest1.due = {} /\ Rest1.done = {}
    BY <2>2, <2>4 DEF Rest1, Renewal
  <2>7. /\ renewal' \in Renewal /\ renewal'.todo = <<"decide">>
        /\ renewal'.due = {} /\ renewal'.done = {} /\ renewal'.fresh = renewal.fresh
        /\ renewal'.seen = Observed
    BY <2>1, <2>5, <2>6 DEF Renewal
  <2>8. \A i \in Group : /\ renewal'.seen[i] = secret[i] /\ secret[i] # None
                         /\ secret[i].token \in Token /\ secret[i].token.id = i
    BY <2>1, <2>7 DEF Observed, Bound, Types, TypeOK, Group, Ids
  <2>9. Step1' = "decide"
    BY <2>3, <2>7 DEF Step1
  <2>10. \A i : MintedFor(i)' = MintedFor(i)
    BY <2>1 DEF MintedFor
  <2> QED BY <2>4, <2>7, <2>8, <2>9, <2>10 DEF RenewalInv
<1> QED BY <1>1, <1>2

\* It decides what to replace.
LEMMA Deciding ==
  ASSUME Types, renewal.todo \in Looking, UNCHANGED spent,
         renewal' \in Renewal, renewal'.todo # << >>,
         renewal'.seen = renewal.seen, renewal'.fresh = renewal.fresh, renewal'.done = renewal.done,
         renewal'.todo \in Looking => renewal'.due = {},
         Head(renewal'.todo) \in {"consume", "status", "mint"}, Step1 # "gather"
  PROVE  RenewalInv' /\ Step1' = Head(renewal'.todo) /\ renewal'.done = {}
<1>1. RenewalInv /\ renewal \in Renewal /\ renewal.done = {} /\ Step1 \notin {"gather", "none"}
  <2>1. RenewalInv /\ renewal \in Renewal /\ renewal.due = {} /\ renewal.done \subseteq renewal.due
    BY DEF Types, RenewalInv
  <2>2. renewal.todo # << >>
    BY DEF Looking
  <2> QED BY <2>1, <2>2, Steps1
<1>3. Step1' = Head(renewal'.todo)
  BY DEF Step1
<1>4. \A i : MintedFor(i)' = MintedFor(i)
  BY DEF MintedFor
<1> QED BY <1>1, <1>3, <1>4 DEF RenewalInv

LEMMA DecideMoves ==
  ASSUME Types, Decide
  PROVE  /\ RenewalInv' /\ renewal'.seen = renewal.seen /\ renewal'.due = Due
         /\ renewal'.fresh = renewal.fresh /\ renewal'.done = {} /\ renewal.due = {}
         /\ Step1' \in {"consume", "mint"} /\ Step1 = "decide" /\ renewal.done = {}
<1>1. /\ Step1 = "decide" /\ renewal.todo \in Looking /\ RenewalInv /\ renewal \in Renewal
      /\ renewal.todo # << >>
  BY RenewalPlans, Steps1 DEF Decide, Next1, Types, RenewalInv, Renewal
<1>2. renewal.due = {} /\ renewal.done = {}
  BY <1>1 DEF RenewalInv
<1>3. Due \in SUBSET Group
  BY DEF Due
<1>4. CASE Due = {}
  <2> DEFINE todo == <<"consume", "rollout", "observe">>
  <2>1. renewal' = [renewal EXCEPT !.todo = todo, !.due = Due]
    BY <1>1, <1>2, <1>4 DEF Decide, Renewal
  <2>2. todo \in RenewalTodo /\ todo # << >> /\ Head(todo) = "consume"
    BY DEF RenewalTodo
  <2> HIDE DEF todo
  <2>3. /\ renewal' \in Renewal /\ renewal'.todo = todo /\ renewal'.due = Due
        /\ renewal'.seen = renewal.seen /\ renewal'.fresh = renewal.fresh
        /\ renewal'.done = renewal.done
    BY <1>1, <1>3, <2>1, <2>2 DEF Renewal
  <2>4. UNCHANGED spent BY DEF Decide
  <2> QED BY <1>1, <1>2, <1>4, <2>2, <2>3, <2>4, Deciding
<1>5. CASE Due # {}
  <2>1. renewal' = [renewal EXCEPT !.todo = Replacement, !.due = Due]
    BY <1>5 DEF Decide
  <2>2. Replacement \in RenewalTodo /\ Replacement # << >> /\ Head(Replacement) = "mint"
        /\ Replacement \notin Looking
    BY DEF RenewalTodo, Replacement, Looking
  <2>3. /\ renewal' \in Renewal /\ renewal'.todo = Replacement /\ renewal'.due = Due
        /\ renewal'.seen = renewal.seen /\ renewal'.fresh = renewal.fresh
        /\ renewal'.done = renewal.done
    BY <1>1, <1>3, <2>1, <2>2 DEF Renewal
  <2>4. UNCHANGED spent BY DEF Decide
  <2> QED BY <1>1, <1>2, <2>2, <2>3, <2>4, Deciding
<1> QED BY <1>4, <1>5

LEMMA ObserveMoves ==
  ASSUME Types, Observe
  PROVE  /\ RenewalInv' /\ Step1 = "observe" /\ renewal.due = {} /\ renewal.done = {}
         /\ \/ renewal' = Asleep
            \/ /\ renewal'.seen = renewal.seen /\ renewal'.due = Refused
               /\ renewal'.fresh = renewal.fresh /\ renewal'.done = {}
               /\ Step1' \in {"status", "mint"} /\ Consumed
<1>1. /\ Step1 = "observe" /\ renewal.todo \in Looking /\ RenewalInv /\ renewal \in Renewal
      /\ renewal.todo # << >>
  BY RenewalPlans, Steps1 DEF Observe, Next1, Types, RenewalInv, Renewal
<1>2. renewal.due = {} /\ renewal.done = {}
  BY <1>1 DEF RenewalInv
<1>3. Refused \in SUBSET Group
  BY DEF Refused
<1>4. CASE ~(Enabled1 /\ Consumed)
  BY <1>1, <1>2, <1>4, Sleeping DEF Observe
<1>5. CASE Enabled1 /\ Consumed /\ Refused = {}
  <2> DEFINE todo == <<"status">>
  <2>1. renewal' = [renewal EXCEPT !.todo = todo, !.due = Refused]
    BY <1>1, <1>2, <1>5 DEF Observe, Renewal
  <2>2. todo \in RenewalTodo /\ todo # << >> /\ Head(todo) = "status" /\ todo \notin Looking
    BY DEF RenewalTodo, Looking
  <2> HIDE DEF todo
  <2>3. /\ renewal' \in Renewal /\ renewal'.todo = todo /\ renewal'.due = Refused
        /\ renewal'.seen = renewal.seen /\ renewal'.fresh = renewal.fresh
        /\ renewal'.done = renewal.done
    BY <1>1, <1>3, <2>1, <2>2 DEF Renewal
  <2>4. UNCHANGED spent BY DEF Observe
  <2> QED BY <1>1, <1>2, <1>5, <2>2, <2>3, <2>4, Deciding
<1>6. CASE Enabled1 /\ Consumed /\ Refused # {}
  <2>1. renewal' = [renewal EXCEPT !.todo = Replacement, !.due = Refused]
    BY <1>6 DEF Observe
  <2>2. Replacement \in RenewalTodo /\ Replacement # << >> /\ Head(Replacement) = "mint"
        /\ Replacement \notin Looking
    BY DEF RenewalTodo, Replacement, Looking
  <2>3. /\ renewal' \in Renewal /\ renewal'.todo = Replacement /\ renewal'.due = Refused
        /\ renewal'.seen = renewal.seen /\ renewal'.fresh = renewal.fresh
        /\ renewal'.done = renewal.done
    BY <1>1, <1>3, <2>1, <2>2 DEF Renewal
  <2>4. UNCHANGED spent BY DEF Observe
  <2> QED BY <1>1, <1>2, <1>6, <2>2, <2>3, <2>4, Deciding
<1> QED BY <1>4, <1>5, <1>6

\* A token of the tick.
LEMMA TickTokens ==
  ASSUME Types, NEW i \in Group
  PROVE  MintedFor(i) \in Token /\ MintedFor(i).id = i /\ MintedFor(i) # NoToken
BY DEF Types, MintedFor, Token, NoToken, Ids, Group

LEMMA MintAllMoves ==
  ASSUME Types, MintAll
  PROVE  /\ RenewalInv' /\ Step1 = "mint"
         /\ renewal'.seen = renewal.seen /\ renewal'.due = renewal.due
         /\ renewal'.done = renewal.done /\ Step1' \in {"mint", "project"}
         /\ \/ live' = live /\ renewal'.fresh = renewal.fresh
            \/ \E i \in renewal.due :
                 /\ i \in Group /\ renewal.fresh[i] = NoToken /\ live' = live \cup {MintedFor(i)}
                 /\ renewal'.fresh = [renewal.fresh EXCEPT ![i] = MintedFor(i)]
<1> /\ RenewalInv /\ renewal \in Renewal /\ renewal.todo \in RenewalTodo /\ renewal.due \subseteq Group
    /\ Step1 = "mint" /\ renewal.todo # << >> /\ UNCHANGED spent
  BY Steps1 DEF Types, RenewalInv, Renewal, MintAll
<1>1. CASE \A i \in renewal.due : renewal.fresh[i] # NoToken
  <2>1. /\ Head(renewal.todo) = "mint" /\ Tail(renewal.todo) # << >>
        /\ Tail(renewal.todo) = <<"project", "consume", "rollout", "status", "retire">>
    BY RenewalPlans, Steps1
  <2>2. Proceed1 /\ live' = live
    BY <1>1 DEF MintAll
  <2>3. /\ RenewalInv' /\ renewal'.seen = renewal.seen /\ renewal'.due = renewal.due
        /\ renewal'.fresh = renewal.fresh /\ renewal'.done = renewal.done
    BY <1>1, <2>1, <2>2, Proceeding1
  <2>4. renewal'.todo = Tail(renewal.todo)
    BY <2>2 DEF Proceed1, Rest1, Renewal
  <2>5. Step1' = "project"
    <3> DEFINE s == <<"project", "consume", "rollout", "status", "retire">>
    <3>1. s # << >> /\ Head(s) = "project" OBVIOUS
    <3>2. renewal'.todo = s BY <2>1, <2>4
    <3> HIDE DEF s
    <3> QED BY <3>1, <3>2 DEF Step1
  <2> QED BY <2>2, <2>3, <2>5
<1>2. CASE ~\A i \in renewal.due : renewal.fresh[i] # NoToken
  <2>1. PICK i \in renewal.due :
          /\ renewal.fresh[i] = NoToken /\ live' = live \cup {MintedFor(i)}
          /\ renewal' = [renewal EXCEPT !.fresh[i] = MintedFor(i)]
    BY <1>2 DEF MintAll
  <2>2. i \in Group /\ MintedFor(i) \in TokenOrNone
    BY TickTokens DEF TokenOrNone
  <2>3. /\ renewal'.todo = renewal.todo /\ renewal'.seen = renewal.seen
        /\ renewal'.due = renewal.due /\ renewal'.done = renewal.done
        /\ renewal'.fresh = [renewal.fresh EXCEPT ![i] = MintedFor(i)] /\ renewal' \in Renewal
    BY <2>1, <2>2 DEF Renewal
  <2>4. Step1' = "mint"
    BY <2>3 DEF Step1
  <2>5. \A j : MintedFor(j)' = MintedFor(j)
    BY DEF MintedFor
  <2>6. renewal.fresh \in [Group -> TokenOrNone]
    BY DEF Renewal
  <2>7. \A j \in Group : renewal'.fresh[j] = IF j = i THEN MintedFor(i) ELSE renewal.fresh[j]
    BY <2>2, <2>3, <2>6
  <2>8. RenewalInv'
    BY <2>3, <2>4, <2>5, <2>7 DEF RenewalInv
  <2> QED BY <2>1, <2>2, <2>3, <2>4, <2>8
<1> QED BY <1>1, <1>2

\* A projected identity is done; everything else of the renewal stays.
LEMMA ProjectMoves ==
  ASSUME Types, Project
  PROVE  /\ RenewalInv' /\ Step1 = "project" /\ removed' = removed
         /\ \/ /\ UNCHANGED <<secret, broker>> /\ renewal' = Asleep
            \/ /\ UNCHANGED <<secret, broker>> /\ Step1' \notin {"none", "gather"}
               /\ renewal'.seen = renewal.seen /\ renewal'.due = renewal.due
               /\ renewal'.done = renewal.done /\ renewal'.fresh = renewal.fresh
            \/ \E i \in renewal.due \ renewal.done :
                 /\ i \in Group /\ Unchanged1(i) /\ Replaced(i) /\ renewal.fresh[i] # NoToken
                 /\ Step1' = "project"
                 /\ renewal'.seen = renewal.seen /\ renewal'.due = renewal.due
                 /\ renewal'.done = renewal.done \cup {i} /\ renewal'.fresh = renewal.fresh
<1> /\ RenewalInv /\ renewal \in Renewal /\ renewal.todo \in RenewalTodo /\ renewal.due \subseteq Group
    /\ Step1 = "project" /\ renewal.todo # << >> /\ UNCHANGED <<spent, removed, broker>>
  BY Steps1 DEF Types, RenewalInv, Renewal, Project
<1>1. CASE renewal.due = renewal.done
  <2>1. Head(renewal.todo) = "project" /\ Tail(renewal.todo) # << >>
    BY RenewalPlans, Steps1
  <2>2. Proceed1 /\ UNCHANGED <<secret, broker>>
    BY <1>1 DEF Project
  <2> QED BY <2>1, <2>2, Proceeding1
<1>2. CASE renewal.due # renewal.done
  <2>1. PICK i \in renewal.due \ renewal.done :
          IF Unchanged1(i)
            THEN Replaced(i) /\ renewal' = [renewal EXCEPT !.done = @ \cup {i}]
            ELSE renewal' = Failed1 /\ UNCHANGED <<secret, broker>>
    BY <1>2 DEF Project
  <2>2. CASE ~Unchanged1(i)
    <3>1. renewal' = Failed1 /\ UNCHANGED <<secret, broker>>
      BY <2>1, <2>2
    <3> QED BY <3>1, Failing1
  <2>3. CASE Unchanged1(i)
    <3>1. Replaced(i) /\ renewal' = [renewal EXCEPT !.done = @ \cup {i}] /\ i \in Group
      BY <2>1, <2>3
    <3>2. /\ renewal'.todo = renewal.todo /\ renewal'.seen = renewal.seen
          /\ renewal'.due = renewal.due /\ renewal'.done = renewal.done \cup {i}
          /\ renewal'.fresh = renewal.fresh /\ renewal' \in Renewal
      BY <3>1 DEF Renewal
    <3>3. Step1' = "project"
      BY <3>2 DEF Step1
    <3>4. \A j : MintedFor(j)' = MintedFor(j)
      BY DEF MintedFor
    <3>5. RenewalInv' /\ renewal.fresh[i] # NoToken
      BY <3>2, <3>3, <3>4 DEF RenewalInv
    <3> QED BY <2>3, <3>1, <3>2, <3>3, <3>5
  <2> QED BY <2>2, <2>3
<1> QED BY <1>1, <1>2

\* It goes on, ends, or is left with tokens to give back.
Onto1 == /\ Step1' \notin {"none", "gather"} /\ renewal'.seen = renewal.seen /\ renewal'.due = renewal.due
         /\ renewal'.fresh = renewal.fresh /\ renewal'.done = renewal.done

LEMMA ConsumeMoves ==
  ASSUME Types, Consume
  PROVE  RenewalInv' /\ Step1 = "consume" /\ (renewal' = Asleep \/ Onto1)
<1> /\ RenewalInv /\ renewal \in Renewal /\ renewal.todo \in RenewalTodo
    /\ Step1 = "consume" /\ renewal.todo # << >> /\ UNCHANGED spent
  BY Steps1 DEF Types, RenewalInv, Renewal, Consume
<1>1. CASE Bound
  <2>1. Head(renewal.todo) = "consume" /\ Tail(renewal.todo) # << >>
    BY RenewalPlans, Steps1
  <2>2. Proceed1
    BY <1>1 DEF Consume
  <2> QED BY <2>1, <2>2, Proceeding1 DEF Onto1
<1>2. CASE ~Bound
  BY <1>2, Failing1 DEF Consume, Onto1
<1> QED BY <1>1, <1>2

LEMMA AwaitMoves ==
  ASSUME Types, Await
  PROVE  RenewalInv' /\ Step1 = "rollout" /\ Onto1
<1>1. /\ RenewalInv /\ renewal \in Renewal /\ renewal.todo \in RenewalTodo
      /\ Step1 = "rollout" /\ renewal.todo # << >> /\ UNCHANGED spent /\ Proceed1
  BY Steps1 DEF Types, RenewalInv, Renewal, Await
<1>2. Head(renewal.todo) = "rollout" /\ Tail(renewal.todo) # << >>
  BY <1>1, RenewalPlans, Steps1
<1> QED BY <1>1, <1>2, Proceeding1 DEF Onto1

LEMMA StatusMoves ==
  ASSUME Types, Status
  PROVE  RenewalInv' /\ Step1 = "status" /\ (renewal' = Asleep \/ Onto1)
<1> /\ RenewalInv /\ renewal \in Renewal /\ renewal.todo \in RenewalTodo
    /\ Step1 = "status" /\ renewal.todo # << >> /\ UNCHANGED spent
  BY Steps1 DEF Types, RenewalInv, Renewal, Status
<1>1. CASE renewal' = Asleep
  BY <1>1, Sleeping
<1>2. CASE renewal' = Failed1
  BY <1>2, Failing1 DEF Onto1
<1>3. CASE renewal' = Rest1 /\ Tail(renewal.todo) # << >>
  BY <1>3, Proceeding1 DEF Onto1, Proceed1
<1> QED BY <1>1, <1>2, <1>3 DEF Status

\* Failures of a renewal, and its end.
LEMMA RenewalFailMoves ==
  ASSUME Types, renewal.todo # << >>, renewal' = Failed1 \/ renewal' = Asleep,
         spent'.ticks = spent.ticks
  PROVE  RenewalInv' /\ (renewal' = Asleep \/ Onto1)
BY Failing1, Sleeping DEF Types, Onto1

\* A renewal that nobody moves.
LEMMA Waiting1 ==
  ASSUME Types, UNCHANGED renewal, spent'.ticks = spent.ticks
  PROVE  RenewalInv' /\ Step1' = Step1
<1>1. \A j : MintedFor(j)' = MintedFor(j)
  BY DEF MintedFor
<1> QED BY <1>1 DEF Types, RenewalInv, Step1

-----------------------------------------------------------------------------
(* What a step of the operator does, component by component.               *)

\* The kinds of command that may stand at each step.
LEMMA Placed ==
  ASSUME OpInv
  PROVE  /\ op.todo # << >> =>
              \/ Ending(Kind(op), Step)
              \/ \E y : Follows(Kind(op), Step, y)
         /\ Step \in {"running", "prior", "apply", "readiness", "patch", "restart", "retire"} =>
              Delivering
         /\ Step \in {"prior", "readiness", "restart", "retire"} => op.id \in Workflows
         /\ Step = "patch" => op.id \in Group
         /\ Step = "mint" => Delivering \/ op.cmd = "commission"
         /\ Step = "read" => op.cmd \in {"revoke", "suspend", "status"}
         /\ Step = "revoke" => op.cmd = "revoke"
         /\ Step = "return" => op.cmd = "commission"
         /\ Step \in {"discard", "discardPrior"} => op.failing
         /\ Step \in {"pause", "pauseReadiness"} => op.cmd = "suspend"
         /\ Step \in {"unpatch", "delete", "unready"} => op.cmd = "revoke" \/ op.failing
         /\ Step = "probe" => op.cmd = "status"
         /\ Step \in {"receipt", "mint", "read"} => ~op.failing
         /\ Step \in {"rollout", "settle"} => Delivering \/ Withdrawing
<1>1. op.todo # << >> =>
        \/ Ending(Kind(op), Step)
        \/ Follows(Kind(op), Step, Head(Tail(op.todo)))
  BY Onwards DEF OpInv, Step
<1>2. /\ op.cmd \in Commanded /\ op.failing \in BOOLEAN
      /\ op.failing => op.cmd = "deliver"
      /\ op.cmd # "idle" => op.id \in Ids
      /\ op.cmd = "suspend" => op.id \in Workflows
      /\ op.cmd = "status" => op.id \in Intakes
      /\ op.todo = << >> => Step = "none"
  BY DEF OpInv, Op, Step
<1>3. CASE op.todo = << >>
  BY <1>2, <1>3
<1>4. CASE op.todo # << >> /\ op.failing
  <2>1. Kind(op) = IF op.id \in Workflows THEN "workflow cleanup" ELSE "cleanup"
    BY <1>4 DEF Kind
  <2> QED BY <1>1, <1>2, <1>4, <2>1 DEF Ending, Follows, Withdrawing, Delivering
<1>5. CASE op.todo # << >> /\ ~op.failing /\ op.cmd = "deliver"
  <2>1. Kind(op) = IF op.id \in Plain THEN "plain delivery"
                   ELSE IF op.id \in Intakes THEN "intake delivery" ELSE "workflow delivery"
    BY <1>5 DEF Kind
  <2> QED BY <1>1, <1>2, <1>5, <2>1 DEF Ending, Follows, Withdrawing, Delivering, Ids, Group
<1>6. CASE op.todo # << >> /\ ~op.failing /\ op.cmd = "revoke"
  <2>1. Kind(op) = IF op.id \in Plain THEN "plain revocation"
                   ELSE IF op.id \in Intakes THEN "intake revocation" ELSE "workflow revocation"
    BY <1>6 DEF Kind
  <2> QED BY <1>1, <1>2, <1>6, <2>1 DEF Ending, Follows, Withdrawing, Delivering
<1>7. CASE op.todo # << >> /\ ~op.failing /\ op.cmd \notin {"deliver", "revoke"}
  <2>1. Kind(op) = op.cmd
    BY <1>7 DEF Kind
  <2>2. op.cmd # "idle"
    BY <1>7, IdleCommand DEF OpInv
  <2>3. CASE op.cmd = "suspend"
    BY <1>1, <1>2, <1>7, <2>1, <2>3 DEF Ending, Follows, Withdrawing, Delivering
  <2>4. CASE op.cmd = "commission"
    BY <1>1, <1>2, <1>7, <2>1, <2>4 DEF Ending, Follows, Withdrawing, Delivering
  <2>5. CASE op.cmd = "status"
    BY <1>1, <1>2, <1>7, <2>1, <2>5 DEF Ending, Follows, Withdrawing, Delivering
  <2> QED BY <1>2, <1>7, <2>2, <2>3, <2>4, <2>5 DEF Commanded
<1> QED BY <1>3, <1>4, <1>5, <1>6, <1>7

\* The step after the present one.
LEMMA Afters ==
  ASSUME OpInv, Onto
  PROVE  /\ Delivering' = Delivering /\ Withdrawing' = Withdrawing /\ Step # "none" /\ Step' # "none"
         /\ Delivering =>
              /\ Step \in {"running", "prior"} => Step' = "mint"
              /\ Step = "mint" => Step' = "apply"
              /\ Step = "apply" => Step' = IF op.id \in Plain THEN "receipt"
                                           ELSE IF op.id \in Intakes THEN "patch" ELSE "readiness"
              /\ Step = "readiness" => Step' = "settle"
              /\ Step = "settle" => Step' = "patch" /\ op.id \in Workflows
              /\ Step = "patch" => Step' = IF op.id \in Intakes THEN "rollout" ELSE "restart"
              /\ Step = "restart" => Step' = "rollout"
              /\ Step = "rollout" => Step' = IF op.id \in Intakes THEN "receipt" ELSE "retire"
              /\ Step = "retire" => Step' = "receipt"
              /\ Step \in {"running", "prior", "mint", "apply", "readiness", "settle", "patch",
                           "restart", "rollout", "retire"}
         /\ op.cmd = "revoke" =>
              /\ Step = "read" => Step' = "revoke"
              /\ Step = "revoke" => Step' = IF op.id \in Plain THEN "delete" ELSE "unpatch"
              /\ Step = "unpatch" => Step' = "rollout"
              /\ Step = "rollout" => Step' = "delete"
              /\ Step = "delete" => Step' \in {"unready", "receipt"}
              /\ Step = "unready" => Step' = "settle"
              /\ Step = "settle" => Step' = "receipt"
              /\ Step \in {"read", "revoke", "unpatch", "rollout", "delete", "unready", "settle"}
         /\ op.cmd = "suspend" =>
              /\ Step = "read" => Step' = "pause"
              /\ Step = "pause" => Step' = "rollout"
              /\ Step = "rollout" => Step' = "pauseReadiness"
              /\ Step = "pauseReadiness" => Step' = "settle"
              /\ Step = "settle" => Step' = "receipt"
              /\ Step \in {"read", "pause", "rollout", "pauseReadiness", "settle"}
         /\ op.failing =>
              /\ Step = "discard" => Step' \in {"delete", "discardPrior"}
              /\ Step = "discard" /\ op.id \in Workflows => Step' = "discardPrior"
              /\ Step = "discardPrior" => Step' = "unpatch"
              /\ Step = "unpatch" => Step' = "rollout"
              /\ Step = "rollout" => Step' = "delete"
              /\ Step = "delete" => Step' = "unready"
              /\ Step = "unready" => Step' = "settle"
              /\ Step \in {"discard", "discardPrior", "unpatch", "rollout", "delete", "unready"}
         /\ op.cmd = "commission" =>
              /\ Step = "mint" => Step' = "return"
              /\ Step = "return" => Step' = "receipt"
              /\ Step \in {"mint", "return"}
         /\ op.cmd = "status" =>
              /\ Step = "read" => Step' = "probe"
              /\ Step = "probe" => Step' = "receipt"
              /\ Step \in {"read", "probe"}
<1> DEFINE k == Kind(op)
<1>1. Follows(k, Step, Step') /\ op'.cmd = op.cmd /\ op'.id = op.id /\ op'.failing = op.failing
  BY DEF Onto
<1>2. /\ op.cmd \in Commanded /\ op.failing \in BOOLEAN
      /\ op.failing => op.cmd = "deliver"
      /\ op.cmd # "idle" => op.id \in Ids
      /\ op.cmd = "suspend" => op.id \in Workflows
      /\ op.cmd = "status" => op.id \in Intakes
  BY DEF OpInv, Op
<1>3. Delivering' = Delivering /\ Withdrawing' = Withdrawing
  BY <1>1 DEF Delivering, Withdrawing
<1>4. CASE op.failing
  <2>1. k = IF op.id \in Workflows THEN "workflow cleanup" ELSE "cleanup"
    BY <1>4 DEF Kind
  <2>2. op.cmd = "deliver" /\ ~Delivering
    BY <1>2, <1>4 DEF Delivering
  <2>3. CASE op.id \in Workflows
    <3>1. Follows("workflow cleanup", Step, Step')
      BY <1>1, <2>1, <2>3
    <3> QED BY <1>3, <1>4, <2>2, <2>3, <3>1 DEF Follows
  <2>4. CASE op.id \notin Workflows
    <3>1. Follows("cleanup", Step, Step')
      BY <1>1, <2>1, <2>4
    <3> QED BY <1>3, <1>4, <2>2, <2>4, <3>1 DEF Follows
  <2> QED BY <2>3, <2>4
<1>5. CASE ~op.failing /\ op.cmd = "deliver"
  <2>1. k = IF op.id \in Plain THEN "plain delivery"
            ELSE IF op.id \in Intakes THEN "intake delivery" ELSE "workflow delivery"
    BY <1>5 DEF Kind
  <2>2. CASE op.id \in Plain
    <3>1. op.id \notin Intakes BY <2>2, IdentitiesAssumption DEF Group
    <3> QED BY <1>1, <1>3, <1>5, <2>1, <2>2, <3>1 DEF Follows, Delivering
  <2>3. CASE op.id \in Intakes
    <3>1. op.id \notin Plain BY <2>3, IdentitiesAssumption DEF Group
    <3> QED BY <1>1, <1>3, <1>5, <2>1, <2>3, <3>1 DEF Follows, Delivering
  <2>4. CASE op.id \notin Plain \cup Intakes
    <3>1. op.id \in Workflows BY <1>2, <1>5, <2>4 DEF Ids
    <3> QED BY <1>1, <1>3, <1>5, <2>1, <2>4, <3>1 DEF Follows, Delivering
  <2> QED BY <2>2, <2>3, <2>4
<1>6. CASE ~op.failing /\ op.cmd = "revoke"
  <2>1. k = IF op.id \in Plain THEN "plain revocation"
            ELSE IF op.id \in Intakes THEN "intake revocation" ELSE "workflow revocation"
    BY <1>6 DEF Kind
  <2> QED BY <1>1, <1>2, <1>3, <1>6, <2>1 DEF Follows, Delivering
<1>7. CASE ~op.failing /\ op.cmd \notin {"deliver", "revoke"}
  <2>1. Follows(op.cmd, Step, Step') /\ op.cmd # "idle"
    BY <1>1, <1>7 DEF Kind, Follows
  <2>2. CASE op.cmd = "suspend"
    BY <1>3, <1>7, <2>1, <2>2 DEF Follows, Delivering
  <2>3. CASE op.cmd = "commission"
    BY <1>3, <1>7, <2>1, <2>3 DEF Follows, Delivering
  <2>4. CASE op.cmd = "status"
    BY <1>3, <1>7, <2>1, <2>4 DEF Follows, Delivering
  <2> QED BY <1>2, <1>7, <2>1, <2>2, <2>3, <2>4 DEF Commanded
<1> QED BY <1>4, <1>5, <1>6, <1>7

\* Nothing of the cluster changes, and nothing is noted as removed.
Kept == UNCHANGED <<secret, broker, wgcf, removed>>
Onward == (Onto /\ Fresh) \/ (Ended /\ op.failing)
GivenUp == Ended \/ Undoing
Unspent == UNCHANGED spent
Faulty == spent'.faults = spent.faults + 1 /\ spent'.commands = spent.commands /\ spent'.ticks = spent.ticks

\* It waits or looks, and goes on.
Passing == /\ Kept /\ Unspent /\ UNCHANGED live /\ Onward
           /\ Step \in {"running", "rollout", "settle", "probe"}
           /\ Step = "rollout" => broker.rolled
           /\ Step = "settle" => wgcf.rolled

\* It notes the token of the Secret.
Reading == /\ Kept /\ Unspent /\ UNCHANGED live /\ Onto
           /\ \/ Step = "prior" /\ op'.token = op.token /\ op'.prior = secret[op.id].token
              \/ /\ Step = "read" /\ op'.prior = op.prior
                 /\ secret[op.id] # None /\ op'.token = secret[op.id].token

Refusing == Kept /\ Unspent /\ UNCHANGED live /\ Ended /\ Step \in {"read", "probe"}

Issuing == /\ Kept /\ Unspent /\ Onto /\ Step = "mint" /\ Minted \in Token
           /\ live' = live \cup {Minted} /\ op'.token = Minted /\ op'.prior = op.prior

\* It writes the Secret.
Writing == /\ Step = "apply" /\ UNCHANGED <<live, broker, wgcf>>
           /\ secret' = [secret EXCEPT ![op.id] = [token |-> op.token, session |-> session]]
           /\ removed' = removed \ {op.id}
           /\ (Unspent /\ Onto /\ Fresh) \/ (Faulty /\ GivenUp)

\* It has a token ended.
Revoking == /\ Kept /\ Step \in Ends1
            /\ \/ live' = live \ {Ends(Step)} /\ Unspent /\ Onward
               \/ live' \in {live, live \ {Ends(Step)}} /\ Faulty /\ (Onward \/ GivenUp)

Failures == Kept /\ UNCHANGED live /\ Faulty /\ GivenUp

Waited == /\ Kept /\ Unspent /\ UNCHANGED live /\ GivenUp
          /\ \E i \in Ids : broker.want[i] # "off" /\ secret[i] = None

\* It changes the template of the broker.
Setting == /\ UNCHANGED <<secret, wgcf, removed, live>> /\ Unspent /\ Onto /\ Fresh
           /\ Step \in {"patch", "pause", "unpatch", "restart"}
           /\ Step = "patch" =>
                broker' = Patched("on", IF op.id \in Intakes THEN op.token
                                        ELSE broker.stamp[op.id])
           /\ Step = "pause" => broker' = Patched("suspended", broker.stamp[op.id])
           /\ Step = "unpatch" => broker' = Patched("off", broker.stamp[op.id])
           /\ Step = "restart" => broker' = [broker EXCEPT !.rolled = FALSE]

\* It changes the readiness runtime.
SettingWgcf ==
  /\ UNCHANGED <<secret, broker, removed, live>> /\ Unspent /\ Onto /\ Fresh
  /\ \E x \in {"readiness", "pauseReadiness", "unready"}, mode \in Modes :
       /\ Step = x
       /\ mode = IF x = "readiness" THEN "on" ELSE IF x = "unready" THEN "off" ELSE "suspended"
       /\ wgcf' = [wgcf EXCEPT !.want[op.id] = mode, !.rolled = @ /\ wgcf.want[op.id] = mode]

Deleting == /\ UNCHANGED <<broker, wgcf, removed, live>> /\ Unspent /\ Onward /\ Step = "delete"
            /\ secret' = [secret EXCEPT ![op.id] = None]

Reporting == /\ UNCHANGED <<secret, broker, wgcf, live>> /\ Unspent /\ Ended /\ Step = "receipt"
             /\ removed' = IF op.cmd = "revoke" THEN removed \cup {op.id} ELSE removed

Starting == /\ Kept /\ UNCHANGED live /\ op.cmd = "idle" /\ op'.cmd \in Commanded \ {"idle"}
            /\ op'.failing = FALSE /\ op'.token = NoToken /\ op'.prior = NoToken
            /\ Step' \in {"running", "prior", "read", "mint"}
            /\ Step' = "mint" => op'.cmd = "commission"
            /\ op'.cmd \in {"revoke", "suspend", "status"} <=> Step' = "read"
            /\ spent'.commands = spent.commands + 1 /\ spent'.ticks = spent.ticks
            /\ spent'.faults = spent.faults

Commanding ==
  \/ Passing \/ Reading \/ Refusing \/ Issuing \/ Writing \/ Revoking \/ Failures \/ Waited
  \/ Setting \/ SettingWgcf \/ Deleting \/ Reporting \/ Starting

\* What a failed call is counted as.
LEMMA Faults1 ==
  ASSUME Types, Fault
  PROVE  Faulty
BY DEF Types, Fault, Faulty

\* Every action of the operator is one of these.
LEMMA OperatorMoves ==
  ASSUME Types, Operator
  PROVE  /\ OpInv' /\ Commanding
         /\ UNCHANGED <<aging, session, renewal>> /\ spent'.ticks = spent.ticks
         /\ spent' \in [commands : Nat, ticks : Nat, faults : Nat]
<1> OpInv /\ op \in Op
  BY DEF Types, OpInv
<1>1. ASSUME Running PROVE OpInv' /\ Passing
  <2>1. Now("running") /\ Proceed BY <1>1 DEF Running
  <2>2. OpInv' /\ Step = "running" /\ Onward
    BY <2>1, Plainly DEF StepName, Onward
  <2> QED BY <1>1, <2>2 DEF Running, Passing, Kept, Unspent, cluster
<1>2. ASSUME Rollout PROVE OpInv' /\ Passing
  <2>1. Now("rollout") /\ Proceed BY <1>2 DEF Rollout
  <2>2. OpInv' /\ Step = "rollout" /\ Onward
    BY <2>1, Plainly DEF StepName, Onward
  <2> QED BY <1>2, <2>2 DEF Rollout, Passing, Kept, Unspent, cluster
<1>3. ASSUME Settle PROVE OpInv' /\ Passing
  <2>1. Now("settle") /\ Proceed BY <1>3 DEF Settle
  <2>2. OpInv' /\ Step = "settle" /\ Onward
    BY <2>1, Plainly DEF StepName, Onward
  <2> QED BY <1>3, <2>2 DEF Settle, Passing, Kept, Unspent, cluster
<1>4. ASSUME Probe PROVE OpInv' /\ (Passing \/ Refusing)
  <2>1. Now("probe") /\ Step = "probe" /\ op.todo # << >>
    BY <1>4, Steps DEF Probe, StepName, Now
  <2>2. CASE op' = Idle
    BY <1>4, <2>1, <2>2, Ending1 DEF Probe, Refusing, Kept, Unspent, cluster, Ended
  <2>3. CASE op' = Rest
    <3>1. ~Ending(Kind(op), Step)
      BY <2>1 DEF Ending
    <3>2. Proceed
      BY <2>1, <2>3, <3>1, Rests DEF Proceed, Settled
    <3>3. OpInv' /\ Onward
      BY <2>1, <3>2, Plainly DEF StepName, Onward
    <3> QED BY <1>4, <2>1, <3>3 DEF Probe, Passing, Kept, Unspent, cluster
  <2> QED BY <1>4, <2>2, <2>3 DEF Probe
<1>5. ASSUME Prior PROVE OpInv' /\ Reading
  BY <1>5, PriorMoves DEF Prior, Reading, Kept, Unspent, cluster
<1>6. ASSUME Read PROVE OpInv' /\ (Reading \/ Refusing)
  BY <1>6, ReadMoves DEF Read, Reading, Refusing, Kept, Unspent, cluster
<1>7. ASSUME Mint PROVE OpInv' /\ Issuing
  BY <1>7, MintMoves DEF Mint, Issuing, Kept, Unspent, cluster
<1>8. ASSUME VerifyRefused PROVE OpInv' /\ Failures
  BY <1>8, Ending1, Faults1 DEF VerifyRefused, Failures, Kept, cluster, GivenUp, Ended
<1>9. ASSUME Apply PROVE OpInv' /\ Writing
  BY <1>9, ApplyMoves DEF Apply, Writing, Unspent
<1>10. ASSUME ApplyFails PROVE OpInv' /\ (Writing \/ Failures)
  <2>1. Step = "apply" /\ op.todo # << >>
    BY <1>10, Steps DEF ApplyFails, StepName, Now
  <2>2. OpInv' /\ GivenUp
    BY <1>10, <2>1, FailMoves DEF ApplyFails, GivenUp
  <2>3. Faulty BY <1>10, Faults1 DEF ApplyFails
  <2> QED BY <1>10, <2>1, <2>2, <2>3 DEF ApplyFails, Writing, Failures, Kept
<1>11. ASSUME Revoke PROVE OpInv' /\ Revoking
  <2>1. op.todo # << >> /\ Head(op.todo) \in Ends1 /\ op' = Settled(Rest)
    BY <1>11 DEF Revoke, Ends1, Proceed
  <2>2. OpInv' /\ Step = Head(op.todo) /\ Onward
    BY <2>1, RevokeMoves DEF Onward
  <2> QED BY <1>11, <2>1, <2>2 DEF Revoke, Revoking, Kept, cluster, Unspent
<1>12. ASSUME RevokeFails PROVE OpInv' /\ Revoking
  <2>1. op.todo # << >> /\ Head(op.todo) \in Ends1 /\ Faulty
    BY <1>12, Faults1 DEF RevokeFails, Ends1
  <2>2. Step = Head(op.todo)
    BY <2>1 DEF Step
  <2>3. OpInv' /\ (Onward \/ GivenUp)
    <3>1. CASE op' = Failed
      BY <2>1, <3>1, FailMoves DEF GivenUp
    <3>2. CASE op' = Settled(Rest)
      BY <2>1, <3>2, RevokeMoves DEF Onward
    <3> QED BY <1>12, <3>1, <3>2 DEF RevokeFails
  <2> QED BY <1>12, <2>1, <2>2, <2>3 DEF RevokeFails, Revoking, Kept, cluster
<1>13. ASSUME Patch \/ Pause \/ Unpatch \/ Restart PROVE OpInv' /\ Setting
  <2>1. PICK x \in {"patch", "pause", "unpatch", "restart"} : Now(x) /\ Proceed
    BY <1>13 DEF Patch, Pause, Unpatch, Restart, SetBroker
  <2>2. OpInv' /\ Step = x /\ Onto /\ Fresh
    BY <2>1, Plainly DEF StepName
  <2>3. \A y \in {"patch", "pause", "unpatch", "restart"} : Now(y) <=> y = x
    BY <2>2, Steps DEF StepName
  <2>4. UNCHANGED <<secret, wgcf, removed, live, spent>>
    BY <1>13 DEF Patch, Pause, Unpatch, Restart, SetBroker
  <2>5. CASE x = "patch"
    <3>1. Patch BY <1>13, <2>3, <2>5 DEF Pause, Unpatch, Restart, SetBroker
    <3> QED BY <2>2, <2>4, <2>5, <3>1 DEF Setting, Patch, SetBroker, Unspent
  <2>6. CASE x = "pause"
    <3>1. Pause BY <1>13, <2>3, <2>6 DEF Patch, Unpatch, Restart, SetBroker
    <3> QED BY <2>2, <2>4, <2>6, <3>1 DEF Setting, Pause, SetBroker, Unspent
  <2>7. CASE x = "unpatch"
    <3>1. Unpatch BY <1>13, <2>3, <2>7 DEF Patch, Pause, Restart, SetBroker
    <3> QED BY <2>2, <2>4, <2>7, <3>1 DEF Setting, Unpatch, SetBroker, Unspent
  <2>8. CASE x = "restart"
    <3>1. Restart BY <1>13, <2>3, <2>8 DEF Patch, Pause, Unpatch, SetBroker
    <3> QED BY <2>2, <2>4, <2>8, <3>1 DEF Setting, Restart, SetBroker, Unspent
  <2> QED BY <2>2, <2>5, <2>6, <2>7, <2>8
<1>14. ASSUME Readiness \/ PauseReadiness \/ Unready PROVE OpInv' /\ SettingWgcf
  <2>1. PICK x \in {"readiness", "pauseReadiness", "unready"}, mode \in Modes :
          /\ SetWgcf(x, mode)
          /\ mode = IF x = "readiness" THEN "on" ELSE IF x = "unready" THEN "off" ELSE "suspended"
    BY <1>14 DEF Readiness, PauseReadiness, Unready, Modes
  <2>2. OpInv' /\ Step = x /\ Onto /\ Fresh
    BY <2>1, Plainly DEF StepName, SetWgcf
  <2> QED BY <2>1, <2>2 DEF SettingWgcf, SetWgcf, Unspent
<1>15. ASSUME Delete PROVE OpInv' /\ Deleting
  <2>1. Now("delete") /\ Proceed BY <1>15 DEF Delete
  <2>2. OpInv' /\ Step = "delete" /\ Onward
    BY <2>1, Plainly DEF StepName, Onward
  <2> QED BY <1>15, <2>2 DEF Delete, Deleting, Unspent
<1>16. ASSUME Receipt PROVE OpInv' /\ Reporting
  <2>1. Step = "receipt"
    BY <1>16, Steps DEF Receipt, StepName
  <2> QED BY <1>16, <2>1, Ending1 DEF Receipt, Reporting, Unspent, cluster, Ended
<1>17. ASSUME StepFails PROVE OpInv' /\ Failures
  <2>1. OpInv' /\ GivenUp
    BY <1>17, FailMoves DEF StepFails, GivenUp
  <2> QED BY <1>17, <2>1, Faults1 DEF StepFails, Failures, Kept, cluster
<1>18. ASSUME RolloutTimesOut PROVE OpInv' /\ Waited
  <2>1. op.todo # << >>
    BY <1>18 DEF RolloutTimesOut, Now
  <2>2. OpInv' /\ GivenUp
    BY <1>18, <2>1, FailMoves DEF RolloutTimesOut, GivenUp
  <2> QED BY <1>18, <2>2 DEF RolloutTimesOut, Waited, Kept, Unspent, cluster
<1>19. ASSUME Killed PROVE OpInv' /\ Failures
  BY <1>19, Ending1, Faults1 DEF Killed, Failures, Kept, cluster, GivenUp, Ended
<1>20. ASSUME Command PROVE OpInv' /\ Starting
  <2>1. /\ spent'.commands = spent.commands + 1 /\ spent'.ticks = spent.ticks
        /\ spent'.faults = spent.faults
    BY <1>20 DEF Command, Types
  <2> QED BY <1>20, <2>1, CommandMoves DEF Command, Starting, Kept, cluster
<1>21. OpInv' /\ Commanding
  BY <1>1, <1>2, <1>3, <1>4, <1>5, <1>6, <1>7, <1>8, <1>9, <1>10, <1>11, <1>12, <1>13, <1>14,
     <1>15, <1>16, <1>17, <1>18, <1>19, <1>20 DEF Operator, Commanding
<1>22. UNCHANGED <<aging, session, renewal>>
  BY DEF Operator, Running, Prior, Read, Mint, VerifyRefused, Apply, ApplyFails, Revoke,
         RevokeFails, Patch, Pause, Unpatch, Restart, SetBroker, Rollout, Readiness,
         PauseReadiness, Unready, SetWgcf, Settle, Delete, Probe, Receipt, StepFails,
         RolloutTimesOut, Killed, Command
<1>23. \/ UNCHANGED spent
       \/ spent' = [spent EXCEPT !.faults = @ + 1]
       \/ spent' = [spent EXCEPT !.commands = @ + 1]
  BY DEF Operator, Running, Prior, Read, Mint, VerifyRefused, Apply, ApplyFails, Revoke,
         RevokeFails, Patch, Pause, Unpatch, Restart, SetBroker, Rollout, Readiness,
         PauseReadiness, Unready, SetWgcf, Settle, Delete, Probe, Receipt, StepFails,
         RolloutTimesOut, Killed, Command, Fault
<1>24. spent'.ticks = spent.ticks /\ spent' \in [commands : Nat, ticks : Nat, faults : Nat]
  BY <1>23 DEF Types
<1> QED BY <1>21, <1>22, <1>24

-----------------------------------------------------------------------------
(* What a step of the renewal does, component by component.                *)

Waking == /\ Kept /\ UNCHANGED live /\ renewal = Asleep /\ Step1' = "gather"
          /\ renewal'.due = {} /\ renewal'.done = {}
          /\ \A i \in Group : renewal'.seen[i] = None /\ renewal'.fresh[i] = NoToken
          /\ spent'.ticks = spent.ticks + 1 /\ spent'.commands = spent.commands
          /\ spent'.faults = spent.faults

\* It observes the Secrets.
Observing == /\ Kept /\ UNCHANGED live /\ Unspent /\ Step1' = "decide" /\ Step1 = "gather"
             /\ renewal'.due = {} /\ renewal'.done = {} /\ renewal'.fresh = renewal.fresh
             /\ \A i \in Group : renewal'.seen[i] = secret[i] /\ secret[i] # None

\* It chooses what to replace.
Choosing == /\ Kept /\ UNCHANGED live /\ Unspent /\ Step1 \in {"decide", "observe"}
            /\ Step1' \notin {"none", "gather"}
            /\ renewal'.seen = renewal.seen /\ renewal'.fresh = renewal.fresh
            /\ renewal.due = {} /\ renewal.done = {} /\ renewal'.done = {}
            /\ renewal'.due = Due \/ (renewal'.due = Refused /\ Consumed)

\* The template carries the expiries of the present Secrets.
Stamped ==
  [broker EXCEPT !.stamp = [i \in Ids |-> IF i \in Group THEN secret[i].token ELSE broker.stamp[i]],
                 !.rolled = @ /\ \A i \in Group : broker.stamp[i] = secret[i].token]

\* It goes on or gives up.
Continuing ==
  /\ UNCHANGED <<live, secret, removed, wgcf>> /\ renewal.todo # << >>
  /\ Unspent \/ Faulty
  /\ renewal' = Asleep \/ Onto1
  /\ UNCHANGED broker \/ broker' = Stamped

Issuing1 ==
  /\ Kept /\ Unspent /\ Step1 = "mint" /\ Step1' \in {"mint", "project"}
  /\ renewal'.seen = renewal.seen /\ renewal'.due = renewal.due /\ renewal'.done = renewal.done
  /\ \E i \in renewal.due :
       /\ i \in Group /\ renewal.fresh[i] = NoToken /\ live' = live \cup {MintedFor(i)}
       /\ renewal'.fresh = [renewal.fresh EXCEPT ![i] = MintedFor(i)]

\* It replaces a Secret.
Projecting ==
  /\ UNCHANGED <<live, removed, broker, wgcf>> /\ Step1 = "project"
  /\ \E i \in renewal.due \ renewal.done :
       /\ i \in Group /\ Unchanged1(i) /\ Replaced(i) /\ renewal.fresh[i] # NoToken
       /\ \/ /\ Unspent /\ Step1' = "project"
             /\ renewal'.seen = renewal.seen /\ renewal'.due = renewal.due
             /\ renewal'.done = renewal.done \cup {i} /\ renewal'.fresh = renewal.fresh
          \/ Faulty /\ (renewal' = Asleep \/ Onto1)

\* It has tokens ended: those it replaced, or those that no Secret took.
Returning ==
  /\ Kept /\ Unspent /\ renewal' = Asleep /\ renewal.todo # << >>
  /\ \/ Step1 = "retire" /\ live' = live \ {renewal.seen[i].token : i \in renewal.done}
     \/ live' = live \ {renewal.fresh[i] : i \in Unprojected}

Renewing ==
  \/ Waking \/ Observing \/ Choosing \/ Continuing \/ Issuing1 \/ Projecting \/ Returning

RenewalActions ==
  Tick \/ RenewalSteps \/ ProjectFails \/ RetireFails \/ RenewalFails \/ RenewalKilled

\* Every action of the renewal is one of these.
LEMMA RenewalMoves ==
  ASSUME Types, RenewalActions
  PROVE  /\ RenewalInv' /\ Renewing
         /\ UNCHANGED <<aging, session, op>>
         /\ spent' \in [commands : Nat, ticks : Nat, faults : Nat]
<1> RenewalInv /\ renewal \in Renewal
  BY DEF Types, RenewalInv
<1>1. ASSUME Tick PROVE RenewalInv' /\ Waking
  <2>1. /\ spent'.ticks = spent.ticks + 1 /\ spent'.commands = spent.commands
        /\ spent'.faults = spent.faults
    BY <1>1 DEF Tick, Types
  <2> QED BY <1>1, <2>1, TickMoves DEF Tick, Waking, Kept, cluster
<1>2. ASSUME Gather PROVE RenewalInv' /\ (Observing \/ Continuing)
  <2>1. Step1 = "gather" /\ renewal.todo # << >>
    BY <1>2, Steps1 DEF Gather
  <2> QED BY <1>2, <2>1, GatherMoves DEF Gather, Observing, Continuing, Kept, cluster, Unspent
<1>3. ASSUME Decide PROVE RenewalInv' /\ Choosing
  <2>1. RenewalInv' /\ renewal'.seen = renewal.seen /\ renewal'.due = Due
        /\ renewal'.fresh = renewal.fresh /\ renewal'.done = {} /\ renewal.due = {}
        /\ Step1' \in {"consume", "mint"} /\ Step1 = "decide" /\ renewal.done = {}
    BY <1>3, DecideMoves
  <2>2. Kept /\ UNCHANGED <<live, spent>>
    BY <1>3 DEF Decide, Kept, cluster
  <2> QED BY <2>1, <2>2 DEF Choosing, Unspent
<1>4. ASSUME Observe PROVE RenewalInv' /\ (Choosing \/ Continuing)
  <2>1. Kept /\ UNCHANGED <<live, spent>> /\ renewal.todo # << >>
    BY <1>4 DEF Observe, Kept, cluster, Next1
  <2>2. CASE renewal' = Asleep
    BY <1>4, <2>1, <2>2, ObserveMoves DEF Continuing, Kept, Unspent
  <2>3. CASE renewal' # Asleep
    BY <1>4, <2>1, <2>3, ObserveMoves DEF Choosing, Unspent
  <2> QED BY <2>2, <2>3
<1>5. ASSUME MintAll PROVE RenewalInv' /\ (Issuing1 \/ Continuing)
  <2>1. Kept /\ UNCHANGED spent /\ renewal.todo # << >>
    BY <1>5 DEF MintAll, Kept, cluster, Next1
  <2>2. CASE live' = live /\ renewal'.fresh = renewal.fresh
    BY <1>5, <2>1, <2>2, MintAllMoves DEF Continuing, Kept, Unspent, Onto1
  <2>3. CASE ~(live' = live /\ renewal'.fresh = renewal.fresh)
    BY <1>5, <2>1, <2>3, MintAllMoves DEF Issuing1, Unspent
  <2> QED BY <2>2, <2>3
<1>6. ASSUME Project PROVE RenewalInv' /\ (Projecting \/ Continuing)
  <2>1. UNCHANGED <<live, broker, wgcf, spent, removed>> /\ renewal.todo # << >>
    BY <1>6 DEF Project, Next1
  <2>2. CASE UNCHANGED <<secret, broker>> /\ (renewal' = Asleep \/ Onto1)
    BY <1>6, <2>1, <2>2, ProjectMoves DEF Continuing, Unspent
  <2>3. CASE ~(UNCHANGED <<secret, broker>> /\ (renewal' = Asleep \/ Onto1))
    <3>1. RenewalInv' /\ Step1 = "project"
      BY <1>6, ProjectMoves
    <3>2. PICK i \in renewal.due \ renewal.done :
                 /\ i \in Group /\ Unchanged1(i) /\ Replaced(i) /\ renewal.fresh[i] # NoToken
                 /\ Step1' = "project"
                 /\ renewal'.seen = renewal.seen /\ renewal'.due = renewal.due
                 /\ renewal'.done = renewal.done \cup {i} /\ renewal'.fresh = renewal.fresh
      BY <1>6, <2>3, ProjectMoves DEF Onto1
    <3> QED BY <2>1, <3>1, <3>2 DEF Projecting, Unspent
  <2> QED BY <2>2, <2>3
<1>7. ASSUME Consume PROVE RenewalInv' /\ Continuing
  <2>1. /\ UNCHANGED <<live, wgcf, spent, removed, secret>> /\ renewal.todo # << >>
        /\ UNCHANGED broker \/ broker' = Stamped
    BY <1>7 DEF Consume, Next1, Stamped
  <2> QED BY <1>7, <2>1, ConsumeMoves DEF Continuing, Unspent
<1>8. ASSUME Await PROVE RenewalInv' /\ Continuing
  BY <1>8, AwaitMoves DEF Await, Continuing, Unspent, Next1, cluster
<1>9. ASSUME Status PROVE RenewalInv' /\ Continuing
  BY <1>9, StatusMoves DEF Status, Continuing, Unspent, Next1, cluster
<1>10. ASSUME Retire PROVE RenewalInv' /\ Returning
  BY <1>10, Sleeping, Steps1 DEF Retire, Returning, Kept, Unspent, Next1, cluster
<1>11. ASSUME Release PROVE RenewalInv' /\ Returning
  BY <1>11, Sleeping DEF Release, Returning, Kept, Unspent, Next1, cluster
<1>12. ASSUME AwaitTimesOut PROVE RenewalInv' /\ Continuing
  <2>1. renewal.todo # << >> /\ renewal' = Failed1 /\ UNCHANGED <<live, cluster, removed, spent>>
    BY <1>12 DEF AwaitTimesOut, Next1
  <2> QED BY <2>1, RenewalFailMoves DEF Continuing, Unspent, cluster
<1>13. ASSUME RetireFails PROVE RenewalInv' /\ Continuing
  <2>1. renewal.todo # << >> /\ renewal' = Asleep /\ UNCHANGED <<live, cluster, removed>> /\ Faulty
    BY <1>13, Faults1 DEF RetireFails, Next1
  <2> QED BY <2>1, Sleeping DEF Continuing, cluster
<1>14. ASSUME RenewalFails PROVE RenewalInv' /\ Continuing
  <2>1. renewal.todo # << >> /\ renewal' = Failed1 /\ UNCHANGED <<live, cluster, removed>> /\ Faulty
    BY <1>14, Faults1 DEF RenewalFails
  <2> QED BY <2>1, RenewalFailMoves DEF Continuing, cluster, Faulty
<1>15. ASSUME RenewalKilled PROVE RenewalInv' /\ Continuing
  <2>1. renewal.todo # << >> /\ renewal' = Asleep /\ UNCHANGED <<live, cluster, removed>> /\ Faulty
    BY <1>15, Faults1 DEF RenewalKilled
  <2> QED BY <2>1, Sleeping DEF Continuing, cluster
<1>16. ASSUME ProjectFails PROVE RenewalInv' /\ (Projecting \/ Continuing)
  <2>1. /\ renewal.todo # << >> /\ renewal' = Failed1 /\ UNCHANGED <<live, broker, wgcf, removed>> /\ Faulty
        /\ Step1 = "project"
    BY <1>16, Faults1, Steps1 DEF ProjectFails, Next1
  <2>2. RenewalInv' /\ (renewal' = Asleep \/ Onto1)
    BY <2>1, RenewalFailMoves DEF Faulty
  <2>3. CASE UNCHANGED <<secret, broker>>
    BY <2>1, <2>2, <2>3 DEF Continuing
  <2>4. CASE ~UNCHANGED <<secret, broker>>
    <3>1. PICK i \in renewal.due \ renewal.done : Unchanged1(i) /\ Replaced(i)
      BY <1>16, <2>4 DEF ProjectFails
    <3>2. i \in Group /\ renewal.fresh[i] # NoToken
      BY <2>1, <3>1 DEF RenewalInv, Renewal
    <3> QED BY <2>1, <2>2, <3>1, <3>2 DEF Projecting
  <2> QED BY <2>3, <2>4
<1>17. RenewalInv' /\ Renewing
  BY <1>1, <1>2, <1>3, <1>4, <1>5, <1>6, <1>7, <1>8, <1>9, <1>10, <1>11, <1>12, <1>13, <1>14,
     <1>15, <1>16 DEF RenewalActions, RenewalSteps, Renewing
<1>18. UNCHANGED <<aging, session, op>>
  BY DEF RenewalActions, RenewalSteps, Tick, Gather, Decide, Observe, MintAll, Project, Consume,
         Await, Status, Retire, Release, AwaitTimesOut, ProjectFails, RetireFails, RenewalFails,
         RenewalKilled
<1>19. \/ UNCHANGED spent
       \/ spent' = [spent EXCEPT !.faults = @ + 1]
       \/ spent' = [spent EXCEPT !.ticks = @ + 1]
  BY DEF RenewalActions, RenewalSteps, Tick, Gather, Decide, Observe, MintAll, Project, Consume,
         Await, Status, Retire, Release, AwaitTimesOut, ProjectFails, RetireFails, RenewalFails,
         RenewalKilled, Fault
<1>20. spent' \in [commands : Nat, ticks : Nat, faults : Nat]
  BY <1>19 DEF Types
<1> QED BY <1>17, <1>18, <1>20

-----------------------------------------------------------------------------
(* The deployments.                                                        *)

\* The template is patched for one identity.
LEMMA Patching ==
  ASSUME broker \in Broker, op.id \in Ids, NEW mode \in Modes, NEW stamp \in TokenOrNone,
         broker' = Patched(mode, stamp)
  PROVE  /\ broker' \in Broker /\ broker'.has = broker.has /\ broker'.mount = broker.mount
         /\ broker'.want = [broker.want EXCEPT ![op.id] = mode]
         /\ broker'.want[op.id] = mode
         /\ \A j \in Ids \ {op.id} : broker'.want[j] = broker.want[j]
         /\ broker'.stamp[op.id] = stamp
         /\ \A j \in Ids \ {op.id} : broker'.stamp[j] = broker.stamp[j]
         /\ broker'.rolled <=> /\ broker.rolled /\ broker.want[op.id] = mode
                               /\ broker.stamp[op.id] = stamp
BY DEF Broker, Patched

LEMMA Restarting ==
  ASSUME broker \in Broker, broker' = [broker EXCEPT !.rolled = FALSE]
  PROVE  /\ broker' \in Broker /\ broker'.has = broker.has /\ broker'.mount = broker.mount
         /\ broker'.want = broker.want /\ broker'.stamp = broker.stamp /\ broker'.rolled = FALSE
BY DEF Broker

\* The renewal writes the expiries of the present Secrets into the template.
LEMMA Consuming ==
  ASSUME Types, broker' = Stamped
  PROVE  /\ broker' \in Broker /\ broker'.has = broker.has /\ broker'.mount = broker.mount
         /\ broker'.want = broker.want
         /\ broker'.rolled <=> broker.rolled /\ \A i \in Group : broker.stamp[i] = secret[i].token
         /\ \A i \in Group : broker'.stamp[i] = secret[i].token
         /\ \A i \in Ids \ Group : broker'.stamp[i] = broker.stamp[i]
<1> DEFINE stamp == [i \in Ids |-> IF i \in Group THEN secret[i].token ELSE broker.stamp[i]]
           rolled == broker.rolled /\ \A i \in Group : broker.stamp[i] = secret[i].token
<1>1. broker \in Broker /\ Group \subseteq Ids BY DEF Types, Group, Ids
<1>2. \A i \in Ids : secret[i].token \in TokenOrNone
  BY DEF Types, TypeOK, TokenOrNone, None
<1>3. stamp \in [Ids -> TokenOrNone] BY <1>1, <1>2 DEF Broker
<1>4. broker' = [broker EXCEPT !.stamp = stamp, !.rolled = rolled] BY DEF Stamped
<1>5. /\ \A i \in Group : stamp[i] = secret[i].token
      /\ \A i \in Ids \ Group : stamp[i] = broker.stamp[i]
  BY <1>1
<1>6. rolled \in BOOLEAN OBVIOUS
<1> HIDE DEF stamp
<1>7. /\ broker'.want = broker.want /\ broker'.has = broker.has /\ broker'.mount = broker.mount
      /\ broker'.stamp = stamp /\ broker' \in Broker
  BY <1>1, <1>3, <1>4, <1>6 DEF Broker
<1>8. broker'.rolled <=> rolled BY <1>1, <1>4, Zenon DEF Broker
<1> QED BY <1>5, <1>7, <1>8

\* The pods are replaced.
LEMMA Rolling ==
  ASSUME Types, Roll
  PROVE  /\ broker' \in Broker /\ broker'.has = broker.want /\ broker'.want = broker.want
         /\ broker'.rolled = TRUE /\ broker'.stamp = broker.stamp
         /\ \A i \in Ids : broker.want[i] # "off" =>
              broker'.mount[i] = secret[i].token /\ secret[i] # None
         /\ \A i \in Ids : broker.want[i] = "off" => broker'.mount[i] = NoToken
<1>1. \A i \in Ids : secret[i].token \in TokenOrNone
  BY DEF Types, TypeOK, TokenOrNone, None
<1>2. [i \in Ids |-> IF broker.want[i] = "off" THEN NoToken ELSE secret[i].token]
        \in [Ids -> TokenOrNone]
  BY <1>1 DEF TokenOrNone
<1> QED BY <1>2 DEF Types, Roll, Broker

\* The pods see what the Secrets hold now.
LEMMA Syncing ==
  ASSUME Types, Sync
  PROVE  /\ broker' \in Broker /\ broker'.has = broker.has /\ broker'.want = broker.want
         /\ broker'.rolled = broker.rolled /\ broker'.stamp = broker.stamp
         /\ \A i \in Ids : broker'.mount[i] = IF broker.has[i] # "off" /\ secret[i] # None
                                                THEN secret[i].token ELSE broker.mount[i]
<1> DEFINE mount == [i \in Ids |-> IF broker.has[i] # "off" /\ secret[i] # None
                                     THEN secret[i].token ELSE broker.mount[i]]
<1>1. \A i \in Ids : secret[i].token \in TokenOrNone
  BY DEF Types, TypeOK, TokenOrNone, None
<1>2. mount \in [Ids -> TokenOrNone]
  BY <1>1 DEF Types, Broker
<1>3. broker' = [broker EXCEPT !.mount = mount]
  BY DEF Sync
<1> QED BY <1>2, <1>3 DEF Types, Broker

\* What the steps of the operator that change the template do to it.
LEMMA Settings ==
  ASSUME Types, Setting
  PROVE  /\ broker' \in Broker /\ broker'.has = broker.has /\ broker'.mount = broker.mount
         /\ op.id \in Ids
         /\ \A j \in Ids \ {op.id} : broker'.want[j] = broker.want[j]
         /\ Step = "patch" => broker'.want[op.id] = "on"
         /\ Step = "pause" => broker'.want[op.id] = "suspended"
         /\ Step = "unpatch" => broker'.want[op.id] = "off"
         /\ Step = "restart" => broker'.want = broker.want /\ broker'.rolled = FALSE
         /\ broker'.rolled => broker.rolled /\ broker'.want = broker.want
         /\ Step = "patch" /\ broker'.rolled /\ op.id \in Intakes => broker.stamp[op.id] = op.token
         /\ \A j \in Ids : \/ broker'.stamp[j] = broker.stamp[j]
                           \/ j = op.id /\ broker'.stamp[j] = op.token
<1>1. op.id \in Ids
  <2>1. Step # "none" BY DEF Setting
  <2> QED BY <2>1, Steps DEF Types, OpInv
<1>2. broker \in Broker /\ broker.stamp[op.id] \in TokenOrNone /\ op.token \in TokenOrNone
  BY <1>1 DEF Types, Broker, OpInv, Op
<1>3. CASE Step = "patch"
  <2> DEFINE stamp == IF op.id \in Intakes THEN op.token ELSE broker.stamp[op.id]
  <2>1. broker' = Patched("on", stamp) /\ stamp \in TokenOrNone
    BY <1>2, <1>3 DEF Setting
  <2> HIDE DEF stamp
  <2>2. /\ broker' \in Broker /\ broker'.has = broker.has /\ broker'.mount = broker.mount
        /\ broker'.want = [broker.want EXCEPT ![op.id] = "on"]
        /\ broker'.want[op.id] = "on"
        /\ \A j \in Ids \ {op.id} : broker'.want[j] = broker.want[j]
        /\ broker'.rolled => /\ broker.rolled /\ broker.want[op.id] = "on"
                             /\ broker.stamp[op.id] = stamp
        /\ broker'.stamp[op.id] = stamp
        /\ \A j \in Ids \ {op.id} : broker'.stamp[j] = broker.stamp[j]
    BY <1>1, <1>2, <2>1, Patching DEF Modes
  <2>3. broker.want[op.id] = "on" => broker'.want = broker.want
    BY <1>2, <2>2 DEF Broker
  <2> QED BY <1>1, <1>3, <2>2, <2>3 DEF stamp
<1>4. CASE Step \in {"pause", "unpatch"}
  <2> DEFINE mode == IF Step = "pause" THEN "suspended" ELSE "off"
  <2>1. broker' = Patched(mode, broker.stamp[op.id]) /\ mode \in Modes
    BY <1>4 DEF Setting, Modes
  <2> HIDE DEF mode
  <2>2. /\ broker' \in Broker /\ broker'.has = broker.has /\ broker'.mount = broker.mount
        /\ broker'.want = [broker.want EXCEPT ![op.id] = mode]
        /\ broker'.want[op.id] = mode
        /\ \A j \in Ids \ {op.id} : broker'.want[j] = broker.want[j]
        /\ broker'.rolled => broker.rolled /\ broker.want[op.id] = mode
        /\ \A j \in Ids : broker'.stamp[j] = broker.stamp[j]
    BY <1>1, <1>2, <2>1, Patching
  <2>3. broker.want[op.id] = mode => broker'.want = broker.want
    BY <1>2, <2>2 DEF Broker
  <2> QED BY <1>1, <1>4, <2>2, <2>3 DEF mode
<1>5. CASE Step = "restart"
  <2>1. broker' = [broker EXCEPT !.rolled = FALSE]
    BY <1>5 DEF Setting
  <2>2. /\ broker' \in Broker /\ broker'.has = broker.has /\ broker'.mount = broker.mount
        /\ broker'.want = broker.want /\ broker'.rolled = FALSE /\ broker'.stamp = broker.stamp
    BY <1>2, <2>1, Restarting
  <2> QED BY <1>1, <1>5, <2>2
<1> QED BY <1>3, <1>4, <1>5 DEF Setting

\* What the steps of the operator do to the readiness runtime.
LEMMA WgcfSettings ==
  ASSUME Types, SettingWgcf
  PROVE  /\ wgcf' \in Wgcf /\ wgcf'.has = wgcf.has /\ op.id \in Workflows
         /\ \A j \in Workflows \ {op.id} : wgcf'.want[j] = wgcf.want[j]
         /\ Step \in {"readiness", "pauseReadiness", "unready"}
         /\ Step = "readiness" <=> wgcf'.want[op.id] = "on"
         /\ wgcf'.rolled => wgcf.rolled /\ wgcf'.want = wgcf.want
<1>1. PICK x \in {"readiness", "pauseReadiness", "unready"}, mode \in Modes :
        /\ Step = x
        /\ mode = IF x = "readiness" THEN "on" ELSE IF x = "unready" THEN "off" ELSE "suspended"
        /\ wgcf' = [wgcf EXCEPT !.want[op.id] = mode, !.rolled = @ /\ wgcf.want[op.id] = mode]
  BY DEF SettingWgcf
<1>2. op.id \in Workflows
  <2>1. CASE x = "readiness"
    BY <1>1, <2>1, Placed DEF Types
  <2>2. CASE x = "pauseReadiness"
    BY <1>1, <2>2, Placed DEF Types, OpInv
  <2>3. CASE x = "unready"
    <3>1. Onto BY DEF SettingWgcf
    <3>2. Follows(Kind(op), "unready", Step')
      BY <1>1, <2>3, <3>1 DEF Onto
    <3>3. op.cmd = "revoke" \/ op.failing
      BY <1>1, <2>3, Placed DEF Types
    <3>4. op.cmd # "idle" /\ op.id \in Ids /\ (op.failing => op.cmd = "deliver") /\ op.failing \in BOOLEAN
      BY <1>1, Steps DEF Types, OpInv, Op
    <3>5. CASE op.failing
      BY <3>2, <3>4, <3>5 DEF Follows, Kind
    <3>6. CASE ~op.failing
      BY <3>2, <3>3, <3>4, <3>6 DEF Follows, Kind, Ids, Group
    <3> QED BY <3>5, <3>6
  <2> QED BY <2>1, <2>2, <2>3
<1>3. /\ wgcf' \in Wgcf /\ wgcf'.has = wgcf.has
      /\ wgcf'.want = [wgcf.want EXCEPT ![op.id] = mode]
      /\ wgcf'.rolled <=> wgcf.rolled /\ wgcf.want[op.id] = mode
  BY <1>1, <1>2 DEF Types, Wgcf
<1>4. wgcf.want \in [Workflows -> Modes]
  BY DEF Types, Wgcf
<1>5. wgcf'.want[op.id] = mode /\ \A j \in Workflows \ {op.id} : wgcf'.want[j] = wgcf.want[j]
  BY <1>2, <1>3, <1>4
<1>6. wgcf.want[op.id] = mode => wgcf'.want = wgcf.want
  BY <1>3, <1>4
<1> QED BY <1>1, <1>2, <1>3, <1>5, <1>6

LEMMA RollingWgcf ==
  ASSUME Types, RollWgcf
  PROVE  wgcf' \in Wgcf /\ wgcf'.has = wgcf.want /\ wgcf'.want = wgcf.want /\ wgcf'.rolled = TRUE
BY DEF Types, RollWgcf, Wgcf

\* What happens around the two programs.
Surroundings == Roll \/ Sync \/ RollWgcf \/ Ages \/ Expires \/ SessionMoves

LEMMA Splitting ==
  ASSUME Next
  PROVE  Operator \/ RenewalActions \/ Surroundings
BY DEF Next, RenewalActions, Surroundings

\* What is enabled stays as it is.
SameModes == /\ broker' \in Broker /\ broker'.want = broker.want /\ broker'.has = broker.has
             /\ broker'.rolled => broker.rolled
             /\ UNCHANGED wgcf

LEMMA DeploymentMoves ==
  ASSUME Types, Next
  PROVE  \/ SameModes
         \/ Operator /\ Setting
         \/ Operator /\ SettingWgcf
         \/ Roll
         \/ RollWgcf
<1> broker \in Broker /\ wgcf \in Wgcf
  BY DEF Types
<1>1. CASE UNCHANGED <<broker, wgcf>>
  BY <1>1 DEF SameModes
<1>2. CASE Operator
  <2>1. Commanding BY <1>2, OperatorMoves
  <2>2. CASE ~(Setting \/ SettingWgcf)
    <3>1. UNCHANGED <<broker, wgcf>>
      BY <2>1, <2>2 DEF Commanding, Passing, Reading, Refusing, Issuing, Writing, Revoking, Failures,
                        Waited, Deleting, Reporting, Starting, Kept
    <3> QED BY <3>1, <1>1
  <2> QED BY <1>2, <2>2
<1>3. CASE RenewalActions
  <2>1. Renewing BY <1>3, RenewalMoves
  <2>2. CASE Continuing
    <3>1. CASE UNCHANGED broker
      BY <1>1, <2>2, <3>1 DEF Continuing
    <3>2. CASE ~UNCHANGED broker
      <4>1. broker' = Stamped /\ UNCHANGED wgcf
        BY <2>2, <3>2 DEF Continuing
      <4> QED BY <4>1, Consuming DEF SameModes
    <3> QED BY <3>1, <3>2
  <2>3. CASE ~Continuing
    <3>1. UNCHANGED <<broker, wgcf>>
      BY <2>1, <2>3 DEF Renewing, Waking, Observing, Choosing, Issuing1, Projecting, Returning, Kept
    <3> QED BY <3>1, <1>1
  <2> QED BY <2>2, <2>3
<1>4. CASE Surroundings
  <2>1. CASE Sync
    <3>1. UNCHANGED wgcf BY <2>1 DEF Sync
    <3> QED BY <2>1, <3>1, Syncing DEF SameModes
  <2>2. CASE Ages \/ Expires \/ SessionMoves
    BY <1>1, <2>2 DEF Ages, Expires, SessionMoves, cluster
  <2> QED BY <1>4, <2>1, <2>2 DEF Surroundings
<1> QED BY <1>2, <1>3, <1>4, Splitting

LEMMA Deployments ==
  ASSUME Types, Next
  PROVE  broker' \in Broker /\ wgcf' \in Wgcf
<1>1. CASE SameModes BY <1>1 DEF SameModes, Types
<1>2. CASE Setting
  <2>1. UNCHANGED wgcf BY <1>2 DEF Setting
  <2> QED BY <1>2, <2>1, Settings DEF Types
<1>3. CASE SettingWgcf
  <2>1. UNCHANGED broker BY <1>3 DEF SettingWgcf
  <2> QED BY <1>3, <2>1, WgcfSettings DEF Types
<1>4. CASE Roll
  <2>1. UNCHANGED wgcf BY <1>4 DEF Roll
  <2> QED BY <1>4, <2>1, Rolling DEF Types
<1>5. CASE RollWgcf
  <2>1. UNCHANGED broker BY <1>5 DEF RollWgcf
  <2> QED BY <1>5, <2>1, RollingWgcf DEF Types
<1> QED BY <1>1, <1>2, <1>3, <1>4, <1>5, DeploymentMoves

-----------------------------------------------------------------------------
(* What is enabled.                                                        *)

\* A workflow that the broker enables is enabled in the readiness runtime,
\* through every step.
LEMMA CoverStep ==
  ASSUME IInv, Next
  PROVE  CoverInv'
<1> Types /\ CoverInv /\ OrderInv /\ OpInv
  BY DEF IInv, Types
<1>1. CASE SameModes
  BY <1>1 DEF SameModes, CoverInv
<1>2. CASE Setting
  <2>1. /\ broker' \in Broker /\ broker'.has = broker.has /\ op.id \in Ids
        /\ \A j \in Ids \ {op.id} : broker'.want[j] = broker.want[j]
        /\ Step = "patch" => broker'.want[op.id] = "on"
        /\ Step = "pause" => broker'.want[op.id] = "suspended"
        /\ Step = "unpatch" => broker'.want[op.id] = "off"
        /\ Step = "restart" => broker'.want = broker.want
        /\ broker'.rolled => broker.rolled /\ broker'.want = broker.want
    BY <1>2, Settings
  <2>2. wgcf' = wgcf /\ Step \in {"patch", "pause", "unpatch", "restart"}
    BY <1>2 DEF Setting
  <2>3. Step = "patch" /\ op.id \in Workflows => wgcf.want[op.id] = "on" /\ wgcf.has[op.id] = "on"
    BY Placed DEF OrderInv
  <2>4. ASSUME NEW i \in Workflows, broker'.want[i] = "on" \/ broker.has[i] = "on"
        PROVE  wgcf.want[i] = "on" /\ wgcf.has[i] = "on"
    <3>1. i \in Ids BY DEF Ids
    <3>2. CASE i = op.id /\ Step = "patch" BY <2>3, <3>2
    <3>3. CASE broker'.want[i] = broker.want[i] BY <2>4, <3>3 DEF CoverInv
    <3>4. CASE broker'.want[i] \in {"suspended", "off"} BY <2>4, <3>4 DEF CoverInv
    <3> QED BY <2>1, <2>2, <3>1, <3>2, <3>3, <3>4
  <2> QED BY <2>1, <2>2, <2>4 DEF CoverInv
<1>3. CASE SettingWgcf
  <2>1. /\ wgcf'.has = wgcf.has /\ op.id \in Workflows
        /\ \A j \in Workflows \ {op.id} : wgcf'.want[j] = wgcf.want[j]
        /\ Step \in {"readiness", "pauseReadiness", "unready"}
        /\ Step = "readiness" <=> wgcf'.want[op.id] = "on"
        /\ wgcf'.rolled => wgcf.rolled /\ wgcf'.want = wgcf.want
    BY <1>3, WgcfSettings
  <2>2. broker' = broker
    BY <1>3 DEF SettingWgcf
  <2>3. Step # "readiness" => broker.want[op.id] # "on" /\ broker.has[op.id] # "on"
    BY <2>1, Placed DEF OrderInv, Withdrawing
  <2> QED BY <2>1, <2>2, <2>3 DEF CoverInv
<1>4. CASE Roll
  <2>1. wgcf' = wgcf BY <1>4 DEF Roll
  <2> QED BY <1>4, <2>1, Rolling DEF CoverInv
<1>5. CASE RollWgcf
  <2>1. broker' = broker BY <1>5 DEF RollWgcf
  <2> QED BY <1>5, <2>1, RollingWgcf DEF CoverInv
<1> QED BY <1>1, <1>2, <1>3, <1>4, <1>5, DeploymentMoves

\* A command that nobody moves.
LEMMA Waiting ==
  ASSUME UNCHANGED op
  PROVE  /\ Step' = Step /\ Delivering' = Delivering /\ Withdrawing' = Withdrawing
         /\ op'.id = op.id /\ op'.cmd = op.cmd /\ op'.token = op.token /\ op'.prior = op.prior
         /\ Minting' = Minting
BY DEF Step, Delivering, Withdrawing, Minting

\* A command that has ended, is given up or has just started.
LEMMA Stopping ==
  ASSUME GivenUp \/ Starting
  PROVE  /\ Step' \in {"none", "discard", "running", "prior", "read", "mint"}
         /\ Step' = "discard" <=> ~Ended /\ Undoing
         /\ Step' = "none" <=> Ended
         /\ Ended \/ Undoing => ~Delivering'
         /\ Ended => ~Withdrawing' /\ op'.cmd = "idle"
<1>1. CASE Ended
  BY <1>1, Ending1 DEF Ended, Delivering, Withdrawing
<1>2. CASE Undoing
  BY <1>2, IdleCommand DEF Undoing, Ended, Delivering
<1>3. CASE Starting
  <2>1. ~Ended BY <1>3, IdleCommand DEF Starting, Ended, Commanded
  <2>2. ~Undoing BY <1>3 DEF Starting, Undoing
  <2> QED BY <1>3, <2>1, <2>2 DEF Starting
<1> QED BY <1>1, <1>2, <1>3 DEF GivenUp

\* Every step of the operator goes on, or stops.
LEMMA OnOrOff ==
  ASSUME Types, Operator
  PROVE  /\ Onto \/ GivenUp \/ Starting
         /\ Onto /\ ~GivenUp =>
              /\ Step \in {"running", "rollout", "settle", "probe"} => Passing
              /\ Step \in {"prior", "read"} => Reading
              /\ Step = "mint" => Issuing
              /\ Step = "apply" => Writing
              /\ Step \in Ends1 => Revoking
              /\ Step \in {"patch", "pause", "unpatch", "restart"} => Setting
              /\ Step \in {"readiness", "pauseReadiness", "unready"} => SettingWgcf
              /\ Step = "delete" => Deleting
              /\ Passing \/ Reading \/ Issuing \/ Writing \/ Revoking \/ Setting \/ SettingWgcf
                   \/ Deleting
<1>1. Commanding /\ OpInv BY OperatorMoves DEF Types
<1>2. Starting => ~Onto
  <2>1. Starting /\ Onto => FALSE
    BY DEF Starting, Onto, Commanded
  <2> QED BY <2>1
<1>3. Onto \/ GivenUp \/ Starting
  BY <1>1 DEF Commanding, Passing, Reading, Refusing, Issuing, Writing, Revoking, Failures, Waited,
              Setting, SettingWgcf, Deleting, Reporting, Onward, GivenUp
<1>4. Passing => Step \in {"running", "rollout", "settle", "probe"} BY DEF Passing
<1>5. Reading => Step \in {"prior", "read"} BY DEF Reading
<1>6. Issuing => Step = "mint" BY DEF Issuing
<1>7. Writing => Step = "apply" BY DEF Writing
<1>8. Revoking => Step \in Ends1 BY DEF Revoking
<1>9. Setting => Step \in {"patch", "pause", "unpatch", "restart"} BY DEF Setting
<1>10. SettingWgcf => Step \in {"readiness", "pauseReadiness", "unready"} BY DEF SettingWgcf
<1>11. Deleting => Step = "delete" BY DEF Deleting
<1>12. Refusing \/ Failures \/ Waited \/ Reporting => GivenUp
  BY DEF Refusing, Failures, Waited, Reporting, GivenUp
<1> QED BY <1>1, <1>2, <1>3, <1>4, <1>5, <1>6, <1>7, <1>8, <1>9, <1>10, <1>11, <1>12
       DEF Commanding, Ends1

\* The readiness runtime comes before the broker and goes after it, through
\* every step.
LEMMA OrderStep ==
  ASSUME IInv, Next
  PROVE  OrderInv'
<1> Types /\ CoverInv /\ OrderInv /\ OpInv
  BY DEF IInv, Types
<1>1. CASE Operator /\ Onto /\ ~GivenUp
  <2> /\ op'.id = op.id /\ Delivering' = Delivering /\ Withdrawing' = Withdrawing
    BY <1>1, Afters DEF Onto
  <2> SUFFICES ASSUME op.id \in Workflows
               PROVE  /\ Delivering /\ Step' \in {"settle", "patch"} => wgcf'.want[op.id] = "on"
                      /\ Delivering /\ Step' = "patch" => wgcf'.has[op.id] = "on"
                      /\ Withdrawing /\ Step' \in {"rollout", "delete", "unready", "pauseReadiness"} =>
                           broker'.want[op.id] # "on"
                      /\ Withdrawing /\ Step' \in {"delete", "unready", "pauseReadiness"} =>
                           broker'.has[op.id] # "on"
    BY DEF OrderInv
  <2> op.id \in Ids BY DEF Ids
  <2>1. Delivering /\ Step' \in {"settle", "patch"} => Step \in {"readiness", "settle"}
    <3>1. op.id \notin Intakes /\ op.id \notin Plain BY IdentitiesAssumption DEF Group
    <3> QED BY <1>1, <3>1, Afters
  <2>2. Delivering /\ Step' \in {"settle", "patch"} =>
          wgcf'.want[op.id] = "on" /\ (Step' = "patch" => wgcf'.has[op.id] = "on")
    <3>1. CASE Step = "readiness"
      <4>1. SettingWgcf BY <1>1, <3>1, OnOrOff
      <4> QED BY <1>1, <3>1, <4>1, WgcfSettings, Afters
    <3>2. CASE Step = "settle"
      <4>1. Passing BY <1>1, <3>2, OnOrOff
      <4>2. wgcf.rolled /\ wgcf' = wgcf BY <3>2, <4>1 DEF Passing, Kept
      <4> QED BY <3>2, <4>2 DEF OrderInv, CoverInv
    <3> QED BY <2>1, <3>1, <3>2
  <2>3. Withdrawing /\ Step' = "rollout" => broker'.want[op.id] # "on"
    <3>1. Withdrawing /\ Step' = "rollout" => Step \in {"pause", "unpatch"}
      BY <1>1, Afters DEF Withdrawing
    <3>2. Step \in {"pause", "unpatch"} => Setting
      BY <1>1, OnOrOff
    <3> QED BY <3>1, <3>2, Settings
  <2>4. ASSUME Withdrawing, Step' \in {"delete", "unready", "pauseReadiness"}
        PROVE  broker'.want[op.id] # "on" /\ broker'.has[op.id] # "on"
    <3>1. Step \in {"rollout", "delete"}
      <4>1. op.id \notin Plain BY IdentitiesAssumption DEF Group
      <4> QED BY <1>1, <2>4, <4>1, Afters DEF Withdrawing
    <3>2. CASE Step = "rollout"
      <4>1. Passing BY <1>1, <3>2, OnOrOff
      <4>2. broker.rolled /\ broker' = broker BY <3>2, <4>1 DEF Passing, Kept
      <4> QED BY <2>4, <3>2, <4>2 DEF OrderInv, CoverInv
    <3>3. CASE Step = "delete"
      <4>1. Deleting BY <1>1, <3>3, OnOrOff
      <4>2. broker' = broker BY <4>1 DEF Deleting
      <4> QED BY <2>4, <3>3, <4>2 DEF OrderInv
    <3> QED BY <3>1, <3>2, <3>3
  <2> QED BY <2>2, <2>3, <2>4
<1>2. CASE GivenUp \/ Starting
  BY <1>2, Stopping DEF OrderInv
<1>3. CASE UNCHANGED op /\ SameModes
  BY <1>3, Waiting DEF OrderInv, SameModes
<1>4. CASE UNCHANGED op /\ Roll
  <2>1. wgcf' = wgcf BY <1>4 DEF Roll
  <2> QED BY <1>4, <2>1, Waiting, Rolling DEF OrderInv
<1>5. CASE UNCHANGED op /\ RollWgcf
  <2>1. broker' = broker BY <1>5 DEF RollWgcf
  <2> QED BY <1>5, <2>1, Waiting, RollingWgcf DEF OrderInv
<1>6. ~Operator => UNCHANGED op
  <2>1. RenewalActions => UNCHANGED op BY RenewalMoves
  <2>2. Surroundings => UNCHANGED op
    BY DEF Surroundings, Roll, Sync, RollWgcf, Ages, Expires, SessionMoves
  <2> QED BY <2>1, <2>2, Splitting
<1> QED BY <1>1, <1>2, <1>3, <1>4, <1>5, <1>6, OnOrOff, DeploymentMoves

-----------------------------------------------------------------------------
(* The Secrets and the tokens.                                             *)

\* Who writes a Secret.
LEMMA SecretMoves ==
  ASSUME Types, Next
  PROVE  \/ UNCHANGED secret
         \/ Operator /\ Writing
         \/ Operator /\ Deleting
         \/ RenewalActions /\ Projecting
<1>1. CASE Operator /\ ~Writing /\ ~Deleting
  <2>1. Commanding BY <1>1, OperatorMoves
  <2> QED BY <1>1, <2>1 DEF Commanding, Passing, Reading, Refusing, Issuing, Revoking, Failures,
                            Waited, Setting, SettingWgcf, Reporting, Starting, Kept
<1>2. CASE RenewalActions /\ ~Projecting
  <2>1. Renewing BY <1>2, RenewalMoves
  <2> QED BY <1>2, <2>1 DEF Renewing, Waking, Observing, Choosing, Continuing, Issuing1, Returning,
                            Kept
<1>3. CASE Surroundings
  BY <1>3 DEF Surroundings, Roll, Sync, RollWgcf, Ages, Expires, SessionMoves, cluster
<1> QED BY <1>1, <1>2, <1>3, Splitting

\* What the Secrets hold after a write.
LEMMA Secrets ==
  ASSUME Types, Next
  PROVE  /\ Writing => /\ op.id \in Ids
                       /\ secret'[op.id] = [token |-> op.token, session |-> session]
                       /\ \A j \in Ids \ {op.id} : secret'[j] = secret[j]
         /\ Deleting => /\ op.id \in Ids /\ secret'[op.id] = None
                        /\ \A j \in Ids \ {op.id} : secret'[j] = secret[j]
         /\ \A i \in Group : Replaced(i) =>
              /\ i \in Ids
              /\ secret'[i] = [token |-> renewal.fresh[i], session |-> session]
              /\ \A j \in Ids \ {i} : secret'[j] = secret[j]
<1>1. DOMAIN secret = Ids /\ secret = [i \in Ids |-> secret[i]]
  BY DEF Types, TypeOK
<1>2. Step # "none" => op.id \in Ids
  BY Steps DEF Types, OpInv
<1>3. Writing => secret' = [secret EXCEPT ![op.id] = [token |-> op.token, session |-> session]] /\ op.id \in Ids
  BY <1>2 DEF Writing
<1>4. Deleting => secret' = [secret EXCEPT ![op.id] = None] /\ op.id \in Ids
  BY <1>2 DEF Deleting
<1>5. \A i \in Group : Replaced(i) =>
        i \in Ids /\ secret' = [secret EXCEPT ![i] = [token |-> renewal.fresh[i], session |-> session]]
  BY DEF Replaced, Group, Ids
<1>6. secret \in [Ids -> [token : Token \cup {NoToken}, session : 0 .. session]]
  BY DEF Types, TypeOK
<1>7. ASSUME NEW i \in Ids, NEW v, secret' = [secret EXCEPT ![i] = v]
      PROVE  secret'[i] = v /\ \A j \in Ids \ {i} : secret'[j] = secret[j]
  BY <1>6, <1>7
<1>8. Writing => /\ secret'[op.id] = [token |-> op.token, session |-> session]
                 /\ \A j \in Ids \ {op.id} : secret'[j] = secret[j]
  BY <1>3, <1>7
<1>9. Deleting => secret'[op.id] = None /\ \A j \in Ids \ {op.id} : secret'[j] = secret[j]
  BY <1>4, <1>7
<1> QED BY <1>3, <1>4, <1>5, <1>7, <1>8, <1>9

\* Who mints a token.
LEMMA LiveMoves ==
  ASSUME Types, Next
  PROVE  \/ live' \subseteq live
         \/ Operator /\ Issuing
         \/ RenewalActions /\ Issuing1
<1>1. CASE Operator /\ ~Issuing
  <2>1. Commanding BY <1>1, OperatorMoves
  <2> QED BY <1>1, <2>1 DEF Commanding, Passing, Reading, Refusing, Writing, Revoking, Failures,
                            Waited, Setting, SettingWgcf, Deleting, Reporting, Starting
<1>2. CASE RenewalActions /\ ~Issuing1
  <2>1. Renewing BY <1>2, RenewalMoves
  <2> QED BY <1>2, <2>1 DEF Renewing, Waking, Observing, Choosing, Continuing, Projecting, Returning
<1>3. CASE Surroundings
  BY <1>3 DEF Surroundings, Roll, Sync, RollWgcf, Ages, Expires, SessionMoves, cluster
<1> QED BY <1>1, <1>2, <1>3, Splitting

\* A token that is written exists.
LEMMA Written ==
  ASSUME Types, DeliveryInv, Writing
  PROVE  op.token \in Token /\ op.token.id = op.id /\ op.id \in Ids /\ Delivering /\ op.token # NoToken
<1>1. Step = "apply" /\ Delivering
  BY Placed DEF Writing, Types
<1>2. op.token # NoToken /\ op.token.id = op.id
  BY <1>1 DEF DeliveryInv, Unmounted, Types, OpInv
<1>3. op.token \in TokenOrNone
  BY DEF Types, OpInv, Op
<1>4. op.id \in Ids
  BY <1>1, Steps DEF Types, OpInv
<1> QED BY <1>1, <1>2, <1>3, <1>4 DEF TokenOrNone

\* Every Secret keeps its type.
LEMMA SecretTypes ==
  ASSUME Types, DeliveryInv, Next
  PROVE  /\ secret' \in [Ids -> [token : Token \cup {NoToken}, session : 0 .. session]]
         /\ \A i \in Ids : secret'[i] = None \/ (secret'[i].token \in Token /\ secret'[i].token.id = i)
<1> /\ secret \in [Ids -> [token : Token \cup {NoToken}, session : 0 .. session]]
    /\ \A i \in Ids : secret[i] = None \/ (secret[i].token \in Token /\ secret[i].token.id = i)
    /\ session \in Nat
  BY DEF Types, TypeOK
<1>1. CASE Operator /\ Writing
  <2>1. secret' = [secret EXCEPT ![op.id] = [token |-> op.token, session |-> session]]
    BY <1>1 DEF Writing
  <2> QED BY <1>1, <2>1, Written, Secrets
<1>2. CASE Operator /\ Deleting
  <2>1. secret' = [secret EXCEPT ![op.id] = None]
    BY <1>2 DEF Deleting
  <2> QED BY <1>2, <2>1, Secrets DEF None
<1>3. CASE RenewalActions /\ Projecting
  <2>1. PICK i \in Group : Replaced(i) /\ renewal.fresh[i] # NoToken
    BY <1>3 DEF Projecting
  <2>2. secret' = [secret EXCEPT ![i] = [token |-> renewal.fresh[i], session |-> session]]
    BY <2>1 DEF Replaced
  <2>3. renewal.fresh[i] \in Token /\ renewal.fresh[i].id = i
    BY <2>1, TickTokens DEF Types, RenewalInv
  <2> QED BY <2>1, <2>2, <2>3, Secrets
<1> QED BY <1>1, <1>2, <1>3, SecretMoves

\* Every variable keeps its type.
LEMMA TypesStep ==
  ASSUME Types, DeliveryInv, Next
  PROVE  Types'
<1>1. OpInv' /\ RenewalInv' /\ spent' \in [commands : Nat, ticks : Nat, faults : Nat]
  <2>1. CASE Operator
    BY <2>1, OperatorMoves, Waiting1
  <2>2. CASE RenewalActions
    <3>1. RenewalInv' /\ UNCHANGED op /\ spent' \in [commands : Nat, ticks : Nat, faults : Nat]
      BY <2>2, RenewalMoves
    <3> QED BY <3>1 DEF OpInv, Types
  <2>3. CASE Surroundings
    <3>1. UNCHANGED <<op, renewal, spent>>
      BY <2>3 DEF Surroundings, Roll, Sync, RollWgcf, Ages, Expires, SessionMoves
    <3> QED BY <3>1, Waiting1 DEF OpInv, Types
  <2> QED BY <2>1, <2>2, <2>3, Splitting
<1>2. removed' \subseteq Ids
  <2>1. CASE Operator
    <3>1. Commanding BY <2>1, OperatorMoves
    <3>2. Step # "none" => op.id \in Ids
      BY Steps DEF Types, OpInv
    <3> QED BY <3>1, <3>2 DEF Commanding, Passing, Reading, Refusing, Issuing, Writing, Revoking,
                 Failures, Waited, Setting, SettingWgcf, Deleting, Reporting, Starting, Kept, Types
  <2>2. CASE RenewalActions
    <3>1. Renewing BY <2>2, RenewalMoves
    <3> QED BY <3>1 DEF Renewing, Waking, Observing, Choosing, Continuing, Issuing1, Projecting,
                        Returning, Kept, Types
  <2>3. CASE Surroundings
    BY <2>3 DEF Surroundings, Roll, Sync, RollWgcf, Ages, Expires, SessionMoves, Types
  <2> QED BY <2>1, <2>2, <2>3, Splitting
<1>3. live' \subseteq Token
  <2>1. CASE live' \subseteq live
    BY <2>1 DEF Types, TypeOK
  <2>2. CASE Issuing
    BY <2>2 DEF Types, TypeOK, Issuing
  <2>3. CASE Issuing1
    BY <2>3, TickTokens DEF Types, TypeOK, Issuing1
  <2> QED BY <2>1, <2>2, <2>3, LiveMoves
<1>4. aging' \subseteq Token /\ session' \in 1 .. Sessions /\ session <= session'
  <2>1. session \in 1 .. Sessions /\ Sessions \in Nat
    BY IdentitiesAssumption DEF Types, TypeOK
  <2>2. \/ aging' = aging /\ session' = session
        \/ aging' = aging \cup live /\ session' = session
        \/ aging' = aging /\ session < Sessions /\ session' = session + 1
    <3>1. Operator \/ RenewalActions => UNCHANGED <<aging, session>>
      BY OperatorMoves, RenewalMoves
    <3> QED BY <3>1, Splitting
            DEF Surroundings, Roll, Sync, RollWgcf, Ages, Expires, SessionMoves
  <2> QED BY <2>1, <2>2 DEF Types, TypeOK
<1>5. /\ secret' \in [Ids -> [token : Token \cup {NoToken}, session : 0 .. session']]
      /\ \A i \in Ids : secret'[i] = None \/ (secret'[i].token \in Token /\ secret'[i].token.id = i)
  <2>1. 0 .. session \subseteq 0 .. session'
    BY <1>4 DEF Types, TypeOK
  <2>2. /\ secret' \in [Ids -> [token : Token \cup {NoToken}, session : 0 .. session]]
        /\ \A i \in Ids : secret'[i] = None \/ (secret'[i].token \in Token /\ secret'[i].token.id = i)
    BY SecretTypes
  <2>3. \A i \in Ids : secret'[i] \in [token : Token \cup {NoToken}, session : 0 .. session']
    BY <2>1, <2>2
  <2>4. secret' \in [Ids -> [token : Token \cup {NoToken}, session : 0 .. session']]
    BY <2>2, <2>3
  <2> QED BY <2>2, <2>4
<1>6. broker' \in Broker /\ wgcf' \in Wgcf
  BY Deployments
<1>7. op'.cmd = "idle" <=> op'.todo = << >>
  BY <1>1, IdleCommand DEF OpInv
<1>8. TypeOK'
  BY <1>2, <1>3, <1>4, <1>5, <1>6, <1>7 DEF TypeOK, Broker, Wgcf
<1> QED BY <1>1, <1>2, <1>6, <1>8 DEF Types

\* A renewal replaces a Secret that is there, by one with its own token.
LEMMA Replacing ==
  ASSUME Types, Next, Projecting
  PROVE  \E i \in Group :
           /\ i \in Ids /\ i \in renewal.due \ renewal.done
           /\ secret[i] = renewal.seen[i] /\ secret[i] # None
           /\ renewal.fresh[i] = MintedFor(i) /\ MintedFor(i) \in Token
           /\ secret'[i] = [token |-> MintedFor(i), session |-> session] /\ secret'[i] # None
           /\ \A j \in Ids \ {i} : secret'[j] = secret[j]
           /\ \/ /\ Unspent /\ Step1' = "project"
                 /\ renewal'.seen = renewal.seen /\ renewal'.due = renewal.due
                 /\ renewal'.done = renewal.done \cup {i} /\ renewal'.fresh = renewal.fresh
              \/ Faulty /\ (renewal' = Asleep \/ Onto1)
<1>1. PICK i \in renewal.due \ renewal.done :
        /\ i \in Group /\ Unchanged1(i) /\ Replaced(i) /\ renewal.fresh[i] # NoToken
        /\ \/ /\ Unspent /\ Step1' = "project"
              /\ renewal'.seen = renewal.seen /\ renewal'.due = renewal.due
              /\ renewal'.done = renewal.done \cup {i} /\ renewal'.fresh = renewal.fresh
           \/ Faulty /\ (renewal' = Asleep \/ Onto1)
  BY DEF Projecting
<1>2. /\ i \in Ids /\ secret'[i] = [token |-> renewal.fresh[i], session |-> session]
      /\ \A j \in Ids \ {i} : secret'[j] = secret[j]
  BY <1>1, Secrets
<1>3. secret[i] = renewal.seen[i] /\ renewal.seen[i] # None
  BY <1>1 DEF Unchanged1, Projecting, Types, RenewalInv
<1>4. renewal.fresh[i] = MintedFor(i) /\ MintedFor(i) \in Token
  BY <1>1, TickTokens DEF Types, RenewalInv
<1>5. secret'[i] # None
  BY <1>1, <1>2 DEF None
<1> QED BY <1>1, <1>2, <1>3, <1>4, <1>5

\* Nobody but a revocation or a cleanup removes a Secret, and no renewal brings
\* one back.
LEMMA Missing ==
  ASSUME Types, DeliveryInv, Next
  PROVE  \A i \in Ids :
           /\ secret[i] = None /\ secret'[i] # None => Operator /\ Writing /\ i = op.id
           /\ secret[i] # None /\ secret'[i] = None => Operator /\ Deleting /\ i = op.id
<1>1. CASE Operator /\ Writing
  <2>1. secret'[op.id] # None
    BY <1>1, Written, Secrets DEF None
  <2> QED BY <1>1, <2>1, Secrets
<1>2. CASE Operator /\ Deleting
  BY <1>2, Secrets
<1>3. CASE RenewalActions /\ Projecting
  BY <1>3, Replacing
<1> QED BY <1>1, <1>2, <1>3, SecretMoves

\* Who changes what is noted as removed.
LEMMA RemovedMoves ==
  ASSUME Types, Next
  PROVE  \/ removed' = removed
         \/ Operator /\ Writing /\ removed' = removed \ {op.id}
         \/ Operator /\ Reporting /\ op.cmd = "revoke" /\ removed' = removed \cup {op.id}
<1>1. CASE Operator
  <2>1. Commanding BY <1>1, OperatorMoves
  <2> QED BY <1>1, <2>1 DEF Commanding, Passing, Reading, Refusing, Issuing, Writing, Revoking, Failures,
                      Waited, Setting, SettingWgcf, Deleting, Reporting, Starting, Kept
<1>2. CASE RenewalActions
  <2>1. Renewing BY <1>2, RenewalMoves
  <2> QED BY <2>1 DEF Renewing, Waking, Observing, Choosing, Continuing, Issuing1, Projecting,
                      Returning, Kept
<1>3. CASE Surroundings
  BY <1>3 DEF Surroundings, Roll, Sync, RollWgcf, Ages, Expires, SessionMoves
<1> QED BY <1>1, <1>2, <1>3, Splitting

-----------------------------------------------------------------------------
(* What a revocation takes away.                                           *)

\* What a delivery wrote, or what replaced it, is there.
LEMMA Filled ==
  ASSUME DeliveryInv, Delivering, Step \in Applied
  PROVE  secret[op.id] # None /\ op.token # NoToken
<1>1. op.token # NoToken BY DEF DeliveryInv, Applied, Unmounted
<1> QED BY <1>1 DEF DeliveryInv, None, NoToken

\* The broker wants an identity again only when a delivery patches it.
LEMMA WantMoves ==
  ASSUME IInv, Next
  PROVE  \A i \in Ids :
           /\ broker.want[i] = "off" /\ broker'.want[i] # "off" =>
                Operator /\ Setting /\ Step \in {"patch", "pause"} /\ i = op.id
           /\ broker.has[i] = "off" /\ broker.want[i] = "off" => broker'.has[i] = "off"
<1> Types /\ OpInv BY DEF IInv, Types
<1>1. CASE SameModes BY <1>1 DEF SameModes
<1>2. CASE Operator /\ Setting
  <2>1. Step \in {"patch", "pause", "unpatch", "restart"} BY <1>2 DEF Setting
  <2> QED BY <1>2, <2>1, Settings
<1>3. CASE SettingWgcf BY <1>3 DEF SettingWgcf
<1>4. CASE Roll BY <1>4, Rolling
<1>5. CASE RollWgcf BY <1>5 DEF RollWgcf
<1> QED BY <1>1, <1>2, <1>3, <1>4, <1>5, DeploymentMoves

\* What was revoked stays away.
LEMMA RevokedStep ==
  ASSUME IInv, Next
  PROVE  RevokedStaysAway'
<1> Types /\ OpInv /\ DeliveryInv /\ RemovalInv BY DEF IInv, Types
<1> SUFFICES ASSUME NEW i \in removed'
             PROVE  secret'[i] = None /\ broker'.want[i] = "off" /\ broker'.has[i] = "off"
  BY DEF RevokedStaysAway
<1>1. ASSUME secret[i] = None, broker.want[i] = "off", broker.has[i] = "off", i \in Ids,
             ~(Operator /\ Writing /\ i = op.id)
      PROVE  secret'[i] = None /\ broker'.want[i] = "off" /\ broker'.has[i] = "off"
  <2>1. secret'[i] = None BY <1>1, Missing
  <2>2. ~(Operator /\ Setting /\ Step \in {"patch", "pause"} /\ i = op.id)
    <3>1. Step = "patch" => Delivering BY Placed
    <3>2. Delivering /\ Step = "patch" => secret[op.id] # None
      BY Filled DEF Applied
    <3>3. Step = "pause" => secret[op.id] # None BY DEF RemovalInv
    <3> QED BY <1>1, <3>1, <3>2, <3>3
  <2> QED BY <1>1, <2>1, <2>2, WantMoves
<1>2. removed \subseteq Ids BY DEF Types
<1>3. CASE removed' = removed
  <2>1. secret[i] = None /\ broker.want[i] = "off" /\ broker.has[i] = "off" /\ i \in Ids
    BY <1>2, <1>3 DEF RemovalInv, RevokedStaysAway
  <2>2. CASE Operator /\ Writing
    <3>1. removed' = removed \ {op.id} BY <2>2 DEF Writing
    <3> QED BY <1>1, <2>1, <3>1
  <2> QED BY <1>1, <2>1, <2>2
<1>4. CASE Operator /\ Writing /\ removed' = removed \ {op.id}
  <2>1. /\ secret[i] = None /\ broker.want[i] = "off" /\ broker.has[i] = "off" /\ i \in Ids
        /\ i # op.id
    BY <1>2, <1>4 DEF RemovalInv, RevokedStaysAway
  <2> QED BY <1>1, <2>1
<1>5. CASE Operator /\ Reporting /\ op.cmd = "revoke" /\ removed' = removed \cup {op.id}
  <2>1. Step = "receipt" /\ UNCHANGED <<secret, broker>> BY <1>5 DEF Reporting
  <2> QED BY <1>5, <2>1 DEF RemovalInv, RevokedStaysAway
<1> QED BY <1>3, <1>4, <1>5, RemovedMoves

\* What a revocation took away stays away until it is done.
LEMMA RemovalStep ==
  ASSUME IInv, Next
  PROVE  RemovalInv'
<1> Types /\ OpInv /\ DeliveryInv /\ RemovalInv /\ CoverInv BY DEF IInv, Types
<1>1. \A i \in Plain : broker'.want[i] = "off" /\ broker'.has[i] = "off"
  <2> SUFFICES ASSUME NEW i \in Plain PROVE broker'.want[i] = "off" /\ broker'.has[i] = "off"
    OBVIOUS
  <2>1. i \in Ids /\ broker.want[i] = "off" /\ broker.has[i] = "off" /\ i \notin Group
    BY IdentitiesAssumption DEF RemovalInv, Ids
  <2>2. Step \in {"patch", "pause"} => op.id \in Group
    BY Placed DEF OpInv, Group
  <2> QED BY <2>1, <2>2, WantMoves
<1>2. CASE Operator /\ Onto /\ ~GivenUp
  <2>1. op'.id = op.id /\ op'.cmd = op.cmd BY <1>2 DEF Onto
  <2>2. ASSUME op.cmd = "revoke"
        PROVE  /\ Step' \in {"rollout", "delete", "unready", "settle", "receipt"} =>
                    broker'.want[op.id] = "off"
               /\ Step' \in {"delete", "unready", "settle", "receipt"} => broker'.has[op.id] = "off"
               /\ Step' \in {"unready", "settle", "receipt"} => secret'[op.id] = None
    <3>1. op.id \in Ids /\ ~op.failing BY <2>2 DEF OpInv, Op
    <3>2. Step \in {"read", "revoke", "unpatch", "rollout", "delete", "unready", "settle"}
      BY <1>2, <2>2, Afters
    <3>3. CASE Step = "read"
      BY <1>2, <2>2, <3>3, Afters
    <3>4. CASE Step = "revoke"
      <4>1. Revoking BY <1>2, <3>4, OnOrOff DEF Ends1
      <4>2. broker' = broker BY <4>1 DEF Revoking, Kept
      <4> QED BY <1>2, <2>2, <3>4, <4>2, Afters DEF RemovalInv
    <3>5. CASE Step = "unpatch"
      <4>1. Setting BY <1>2, <3>5, OnOrOff
      <4> QED BY <1>2, <2>2, <3>5, <4>1, Afters, Settings
    <3>6. CASE Step = "rollout"
      <4>1. Passing BY <1>2, <3>6, OnOrOff
      <4>2. broker' = broker /\ broker.rolled BY <3>6, <4>1 DEF Passing, Kept
      <4> QED BY <1>2, <2>2, <3>6, <4>2, Afters DEF RemovalInv, CoverInv
    <3>7. CASE Step = "delete"
      <4>1. Deleting BY <1>2, <3>7, OnOrOff
      <4>2. broker' = broker /\ secret'[op.id] = None BY <4>1, Secrets DEF Deleting
      <4> QED BY <2>2, <3>7, <4>2 DEF RemovalInv
    <3>8. CASE Step = "unready"
      <4>1. SettingWgcf BY <1>2, <3>8, OnOrOff
      <4>2. UNCHANGED <<broker, secret>> BY <4>1 DEF SettingWgcf
      <4> QED BY <2>2, <3>8, <4>2 DEF RemovalInv
    <3>9. CASE Step = "settle"
      <4>1. Passing BY <1>2, <3>9, OnOrOff
      <4>2. UNCHANGED <<broker, secret>> BY <4>1 DEF Passing, Kept
      <4> QED BY <2>2, <3>9, <4>2 DEF RemovalInv
    <3> QED BY <3>2, <3>3, <3>4, <3>5, <3>6, <3>7, <3>8, <3>9
  <2>3. ASSUME Step' = "pause" PROVE secret'[op.id] # None
    <3>1. Step = "read"
      <4>1. op.cmd \in Commanded /\ op.cmd # "idle"
        BY <1>2, Afters, Steps DEF OpInv, Op
      <4>2. op.cmd = "deliver" => Delivering \/ op.failing
        BY DEF Delivering
      <4> QED BY <1>2, <2>3, <4>1, <4>2, Afters DEF Commanded
    <3>2. Reading BY <1>2, <3>1, OnOrOff
    <3> QED BY <3>1, <3>2 DEF Reading, Kept
  <2> QED BY <1>1, <2>1, <2>2, <2>3, RevokedStep DEF RemovalInv
<1>3. CASE GivenUp \/ Starting
  <2>1. Step' # "pause" BY <1>3, Stopping
  <2>2. op'.cmd = "revoke" => Step' = "read"
    <3>1. CASE Ended BY <3>1, Stopping DEF GivenUp
    <3>2. CASE Undoing BY <3>2 DEF Undoing
    <3>3. CASE Starting BY <3>3 DEF Starting
    <3> QED BY <1>3, <3>1, <3>2, <3>3 DEF GivenUp
  <2> QED BY <1>1, <2>1, <2>2, RevokedStep DEF RemovalInv
<1>4. CASE UNCHANGED op /\ ~Operator
  <2>1. Step' = Step /\ op'.id = op.id /\ op'.cmd = op.cmd BY <1>4, Waiting
  <2>2. op.cmd = "revoke" \/ Step = "pause" => op.id \in Ids
    BY Placed DEF OpInv
  <2>3. \A i \in Ids : /\ secret[i] = None => secret'[i] = None
                       /\ secret[i] # None => secret'[i] # None
                       /\ broker.want[i] = "off" => broker'.want[i] = "off"
                       /\ broker.has[i] = "off" /\ broker.want[i] = "off" => broker'.has[i] = "off"
    BY <1>4, Missing, WantMoves
  <2> QED BY <1>1, <2>1, <2>2, <2>3, RevokedStep DEF RemovalInv
<1>5. ~Operator => UNCHANGED op
  <2>1. RenewalActions => UNCHANGED op BY RenewalMoves
  <2>2. Surroundings => UNCHANGED op
    BY DEF Surroundings, Roll, Sync, RollWgcf, Ages, Expires, SessionMoves
  <2> QED BY <2>1, <2>2, Splitting
<1> QED BY <1>2, <1>3, <1>4, <1>5, OnOrOff

-----------------------------------------------------------------------------
(* Tokens are new when they are minted.                                    *)

\* A token is still old after the step.
OldNext(t) ==
  /\ t \in Token
  /\ t.from = "command" => t.n <= spent'.commands /\ (Minting' => t.n < spent'.commands)
  /\ t.from = "tick" =>
       /\ t.n <= spent'.ticks
       /\ t.n = spent'.ticks /\ renewal'.todo # << >> => t.id \in Group /\ renewal'.fresh[t.id] = t

\* The command whose token is not minted yet is the one that has just started,
\* or it was there before.
LEMMA MintingMoves ==
  ASSUME Types, Next
  PROVE  /\ spent.commands \in Nat /\ spent'.commands \in Nat /\ spent.commands <= spent'.commands
         /\ Minting' => Minting \/ spent.commands < spent'.commands
         /\ Issuing => ~Minting'
<1> OpInv /\ spent \in [commands : Nat, ticks : Nat, faults : Nat] BY DEF Types
<1>0. Issuing => ~Minting'
  BY DEF Issuing, Minting, Token, NoToken
<1>1. CASE Operator
  <2>1. Commanding BY <1>1, OperatorMoves
  <2>0. spent' = spent \/ spent'.commands = spent.commands \/ spent'.commands = spent.commands + 1
    BY <2>1 DEF Commanding, Passing, Reading, Refusing, Issuing, Writing, Revoking, Failures, Waited,
                Setting, SettingWgcf, Deleting, Reporting, Starting, Unspent, Faulty
  <2>2. spent.commands \in Nat /\ spent'.commands \in Nat /\ spent.commands <= spent'.commands
    BY <2>0
  <2>3. CASE Starting
    BY <1>0, <2>2, <2>3 DEF Starting
  <2>4. CASE GivenUp
    <3>1. CASE Ended BY <1>0, <2>2, <3>1, Ending1 DEF Ended, Minting
    <3>2. CASE Undoing BY <1>0, <2>2, <3>2 DEF Undoing, Minting, Fresh
    <3> QED BY <1>0, <2>2, <2>4, <3>1, <3>2 DEF GivenUp
  <2>5. CASE Onto /\ ~GivenUp
    <3>1. op'.cmd = op.cmd BY <2>5 DEF Onto
    <3>2. CASE Issuing BY <1>0, <2>2, <3>2
    <3>3. CASE Reading
      <4>1. Step = "read" => op.cmd \notin {"deliver", "commission"}
        BY Placed
      <4> QED BY <1>0, <2>2, <3>1, <3>3, <4>1 DEF Reading, Minting
    <3>4. CASE Fresh
      BY <1>0, <2>2, <3>1, <3>4 DEF Fresh, Minting
    <3>5. Passing \/ Writing \/ Revoking \/ Setting \/ SettingWgcf \/ Deleting => Fresh
      BY <2>5, IdleCommand DEF Passing, Writing, Revoking, Setting, SettingWgcf, Deleting, Onward, GivenUp
    <3> QED BY <1>1, <2>5, <3>2, <3>3, <3>4, <3>5, OnOrOff
  <2> QED BY <1>1, <2>3, <2>4, <2>5, OnOrOff
<1>2. CASE RenewalActions
  <2>1. Renewing /\ UNCHANGED op BY <1>2, RenewalMoves
  <2>2. spent'.commands = spent.commands
    BY <2>1 DEF Renewing, Waking, Observing, Choosing, Continuing, Issuing1, Projecting, Returning,
                Unspent, Faulty
  <2> QED BY <1>0, <2>1, <2>2, Waiting
<1>3. CASE Surroundings
  <2>1. UNCHANGED <<op, spent>>
    BY <1>3 DEF Surroundings, Roll, Sync, RollWgcf, Ages, Expires, SessionMoves
  <2> QED BY <1>0, <2>1, Waiting
<1> QED BY <1>1, <1>2, <1>3, Splitting

\* What a tick minted it still knows, until the next tick.
LEMMA FreshMoves ==
  ASSUME Types, Next
  PROVE  /\ spent.ticks \in Nat /\ spent'.ticks \in Nat /\ spent.ticks <= spent'.ticks
         /\ spent'.ticks = spent.ticks /\ renewal'.todo # << >> =>
              /\ renewal.todo # << >>
              /\ \A i \in Group : renewal.fresh[i] # NoToken => renewal'.fresh[i] = renewal.fresh[i]
<1> RenewalInv /\ spent \in [commands : Nat, ticks : Nat, faults : Nat] /\ renewal \in Renewal
  BY DEF Types, RenewalInv
<1>1. CASE UNCHANGED renewal /\ spent'.ticks = spent.ticks
  BY <1>1
<1>2. CASE RenewalActions
  <2>1. Renewing BY <1>2, RenewalMoves
  <2>2. CASE Waking BY <2>2 DEF Waking
  <2>3. CASE ~Waking
    <3>1. spent'.ticks = spent.ticks
      BY <2>1, <2>3 DEF Renewing, Observing, Choosing, Continuing, Issuing1, Projecting, Returning,
                        Unspent, Faulty
    <3>2. renewal.todo # << >>
      BY <2>1, <2>3, Steps1 DEF Renewing, Observing, Choosing, Continuing, Issuing1, Projecting, Returning
    <3>3. CASE renewal' = Asleep
      BY <3>1, <3>3, AtRest
    <3>4. CASE renewal'.fresh = renewal.fresh
      BY <3>1, <3>2, <3>4
    <3>5. CASE Issuing1
      BY <3>1, <3>2, <3>5 DEF Issuing1, Renewal
    <3> QED BY <2>1, <2>3, <3>3, <3>4, <3>5
            DEF Renewing, Observing, Choosing, Continuing, Projecting, Returning, Onto1
  <2> QED BY <2>2, <2>3
<1>3. CASE Operator
  BY <1>1, <1>3, OperatorMoves
<1>4. CASE Surroundings
  BY <1>1, <1>4 DEF Surroundings, Roll, Sync, RollWgcf, Ages, Expires, SessionMoves
<1> QED BY <1>2, <1>3, <1>4, Splitting

\* An old token stays old.
LEMMA OldStays ==
  ASSUME Types, Next, NEW t, Old(t)
  PROVE  OldNext(t)
<1>1. /\ t \in Token /\ t.n \in Nat
      /\ t.from = "command" => t.n <= spent.commands /\ (Minting => t.n < spent.commands)
      /\ t.from = "tick" =>
           /\ t.n <= spent.ticks
           /\ t.n = spent.ticks /\ renewal.todo # << >> => t.id \in Group /\ renewal.fresh[t.id] = t
  BY DEF Old, Token
<1>2. t.from = "command" => t.n <= spent'.commands /\ (Minting' => t.n < spent'.commands)
  BY <1>1, MintingMoves
<1>3. t.from = "tick" =>
       /\ t.n <= spent'.ticks
       /\ t.n = spent'.ticks /\ renewal'.todo # << >> => t.id \in Group /\ renewal'.fresh[t.id] = t
  <2>1. t # NoToken BY <1>1 DEF Token, NoToken
  <2> QED BY <1>1, <2>1, FreshMoves
<1> QED BY <1>1, <1>2, <1>3 DEF OldNext

\* So is one that the step minted.
LEMMA OldMinted ==
  ASSUME Types, Next, Operator, Issuing
  PROVE  OldNext(Minted)
<1>1. Minted \in Token /\ Minted.from = "command" /\ Minted.n = spent.commands
  BY DEF Issuing, Minted
<1>2. spent'.commands = spent.commands /\ ~Minting' /\ spent.commands \in Nat
  BY MintingMoves DEF Issuing, Unspent
<1> QED BY <1>1, <1>2 DEF OldNext

LEMMA OldFresh ==
  ASSUME Types, NEW i \in Group, renewal.fresh[i] = MintedFor(i), renewal.todo # << >>
  PROVE  Old(MintedFor(i))
<1>1. MintedFor(i) \in Token /\ MintedFor(i).from = "tick" /\ MintedFor(i).n = spent.ticks
      /\ MintedFor(i).id = i
  BY TickTokens DEF MintedFor
<1>2. spent.ticks \in Nat BY DEF Types
<1> QED BY <1>1, <1>2 DEF Old

\* Where the tokens of the command come from.
LEMMA TokenMoves ==
  ASSUME Types, Next
  PROVE  /\ \/ op'.token \in {op.token, NoToken}
            \/ Operator /\ Issuing /\ op'.token = Minted
            \/ op.id \in Ids /\ secret[op.id] # None /\ op'.token = secret[op.id].token
         /\ \/ op'.prior \in {op.prior, NoToken}
            \/ op.id \in Ids /\ op'.prior = secret[op.id].token
<1> OpInv BY DEF Types
<1>1. CASE Operator
  <2>1. CASE GivenUp \/ Starting
    BY <2>1, Ending1 DEF GivenUp, Starting, Undoing, Fresh, Ended
  <2>2. CASE Onto /\ ~GivenUp
    <3>1. Passing \/ Writing \/ Revoking \/ Setting \/ SettingWgcf \/ Deleting => Fresh
      BY <2>2, IdleCommand DEF Passing, Writing, Revoking, Setting, SettingWgcf, Deleting, Onward, GivenUp
    <3>2. op.id \in Ids
      BY <2>2, Steps, Afters DEF OpInv
    <3>3. Reading => /\ op'.token = op.token \/ (secret[op.id] # None /\ op'.token = secret[op.id].token)
                     /\ op'.prior = op.prior \/ op'.prior = secret[op.id].token
      BY DEF Reading
    <3>4. Issuing => op'.token = Minted /\ op'.prior = op.prior
      BY DEF Issuing
    <3> QED BY <1>1, <2>2, <3>1, <3>2, <3>3, <3>4, OnOrOff DEF Fresh
  <2> QED BY <1>1, <2>1, <2>2, OnOrOff
<1>2. CASE RenewalActions
  BY <1>2, RenewalMoves
<1>3. CASE Surroundings
  BY <1>3 DEF Surroundings, Roll, Sync, RollWgcf, Ages, Expires, SessionMoves
<1> QED BY <1>1, <1>2, <1>3, Splitting

\* Where the observations of a renewal come from.
LEMMA SeenMoves ==
  ASSUME Types, Next
  PROVE  \A i \in Group : \/ renewal'.seen[i] \in {renewal.seen[i], None}
                          \/ renewal'.seen[i] = secret[i] /\ secret[i] # None
<1>1. CASE RenewalActions
  <2>1. Renewing BY <1>1, RenewalMoves
  <2>2. CASE renewal' = Asleep BY <2>2, AtRest
  <2>3. CASE renewal'.seen = renewal.seen BY <2>3
  <2>4. CASE Waking \/ Observing BY <2>4 DEF Waking, Observing
  <2> QED BY <2>1, <2>2, <2>3, <2>4
          DEF Renewing, Choosing, Continuing, Issuing1, Projecting, Returning, Onto1
<1>2. CASE UNCHANGED renewal BY <1>2
<1>3. CASE Operator BY <1>2, <1>3, OperatorMoves
<1>4. CASE Surroundings
  BY <1>2, <1>4 DEF Surroundings, Roll, Sync, RollWgcf, Ages, Expires, SessionMoves
<1> QED BY <1>1, <1>3, <1>4, Splitting

\* Everything that is known stays old, and what is new is newly minted.
LEMMA OldStep ==
  ASSUME IInv, Next
  PROVE  OldInv'
<1> Types /\ OldInv /\ DeliveryInv BY DEF IInv
<1>1. \A t \in live' \cup aging' : OldNext(t)
  <2>1. \A t \in live \cup aging : OldNext(t)
    BY OldStays DEF OldInv
  <2>2. aging' \subseteq aging \cup live
    <3>1. Operator \/ RenewalActions => UNCHANGED aging
      BY OperatorMoves, RenewalMoves
    <3> QED BY <3>1, Splitting
            DEF Surroundings, Roll, Sync, RollWgcf, Ages, Expires, SessionMoves
  <2>3. \A t \in live' : OldNext(t)
    <3>1. CASE live' \subseteq live BY <2>1, <3>1
    <3>2. CASE Operator /\ Issuing
      BY <2>1, <3>2, OldMinted DEF Issuing
    <3>3. CASE RenewalActions /\ Issuing1
      <4>1. PICK i \in Group : /\ live' = live \cup {MintedFor(i)}
                               /\ renewal'.fresh = [renewal.fresh EXCEPT ![i] = MintedFor(i)]
        BY <3>3 DEF Issuing1
      <4>2. renewal.fresh \in [Group -> TokenOrNone]
        BY DEF Types, RenewalInv, Renewal
      <4>3. renewal'.fresh[i] = MintedFor(i) BY <4>1, <4>2
      <4>4. /\ MintedFor(i) \in Token /\ MintedFor(i).from = "tick" /\ MintedFor(i).n = spent.ticks
            /\ MintedFor(i).id = i
        BY TickTokens DEF MintedFor
      <4>5. spent' = spent /\ spent.ticks \in Nat BY <3>3 DEF Issuing1, Unspent, Types
      <4>6. OldNext(MintedFor(i))
        BY <4>3, <4>4, <4>5 DEF OldNext
      <4> QED BY <2>1, <4>1, <4>6
    <3> QED BY <3>1, <3>2, <3>3, LiveMoves
  <2> QED BY <2>1, <2>2, <2>3
<1>2. \A i \in Ids : secret[i] # None => OldNext(secret[i].token)
  BY OldStays DEF OldInv
<1>3. \A i \in Ids : secret'[i] # None => OldNext(secret'[i].token)
  <2>1. CASE Operator /\ Writing
    <3>1. Old(op.token) BY <2>1, Written DEF OldInv
    <3>2. OldNext(op.token) BY <3>1, OldStays
    <3> QED BY <1>2, <2>1, <3>2, Secrets
  <2>2. CASE Operator /\ Deleting
    BY <1>2, <2>2, Secrets
  <2>3. CASE RenewalActions /\ Projecting
    <3>1. PICK i \in Group : /\ i \in renewal.due \ renewal.done /\ renewal.fresh[i] = MintedFor(i)
                             /\ secret'[i] = [token |-> MintedFor(i), session |-> session]
                             /\ \A j \in Ids \ {i} : secret'[j] = secret[j]
      BY <2>3, Replacing
    <3>2. renewal.todo # << >> BY <2>3, Steps1 DEF Projecting, Types
    <3>3. OldNext(MintedFor(i)) BY <3>1, <3>2, OldFresh, OldStays
    <3> QED BY <1>2, <3>1, <3>3
  <2> QED BY <1>2, <2>1, <2>2, <2>3, SecretMoves
<1>4. \A i \in Group : renewal'.seen[i] # None => OldNext(renewal'.seen[i].token)
  <2>1. \A i \in Group : renewal.seen[i] # None => OldNext(renewal.seen[i].token)
    BY OldStays DEF OldInv
  <2>2. Group \subseteq Ids BY DEF Group, Ids
  <2> QED BY <1>2, <2>1, <2>2, SeenMoves
<1>5. /\ op'.token # NoToken => OldNext(op'.token)
      /\ op'.prior # NoToken => OldNext(op'.prior)
  <2>1. /\ op.token # NoToken => OldNext(op.token)
        /\ op.prior # NoToken => OldNext(op.prior)
    BY OldStays DEF OldInv
  <2>2. \A i \in Ids : secret[i].token # NoToken => OldNext(secret[i].token)
    BY <1>2 DEF None
  <2>3. \A i \in Ids : secret[i] # None => secret[i].token # NoToken
    BY DEF Types, TypeOK, Token, NoToken
  <2> QED BY <2>1, <2>2, <2>3, OldMinted, TokenMoves
<1> QED BY <1>1, <1>3, <1>4, <1>5 DEF OldInv, Old, OldNext

\* What the pods mount comes from the Secrets, and what the template carries
\* from them or from the command.
LEMMA PodMoves ==
  ASSUME Types, Next, NEW i \in Ids
  PROVE  /\ \/ broker'.mount[i] \in {broker.mount[i], NoToken}
            \/ broker'.mount[i] = secret[i].token /\ secret[i] # None
         /\ \/ broker'.stamp[i] = broker.stamp[i]
            \/ broker'.stamp[i] = secret[i].token
            \/ i = op.id /\ broker'.stamp[i] = op.token
<1>1. CASE UNCHANGED broker BY <1>1
<1>2. CASE Operator
  <2>1. Commanding BY <1>2, OperatorMoves
  <2>2. CASE Setting BY <2>2, Settings
  <2>3. CASE ~Setting
    <3>1. UNCHANGED broker
      BY <2>1, <2>3 DEF Commanding, Passing, Reading, Refusing, Issuing, Writing, Revoking, Failures,
                        Waited, SettingWgcf, Deleting, Reporting, Starting, Kept
    <3> QED BY <1>1, <3>1
  <2> QED BY <2>2, <2>3
<1>3. CASE RenewalActions
  <2>1. Renewing BY <1>3, RenewalMoves
  <2>2. CASE broker' = Stamped BY <2>2, Consuming
  <2>3. CASE broker' # Stamped
    <3>1. UNCHANGED broker
      BY <2>1, <2>3 DEF Renewing, Waking, Observing, Choosing, Continuing, Issuing1, Projecting,
                        Returning, Kept
    <3> QED BY <1>1, <3>1
  <2> QED BY <2>2, <2>3
<1>4. CASE Roll BY <1>4, Rolling
<1>5. CASE Sync BY <1>5, Syncing
<1>6. CASE RollWgcf \/ Ages \/ Expires \/ SessionMoves
  BY <1>1, <1>6 DEF RollWgcf, Ages, Expires, SessionMoves, cluster
<1> QED BY <1>2, <1>3, <1>4, <1>5, <1>6, Splitting DEF Surroundings

\* What the pods mount and the template carries stays old.
LEMMA PodsStep ==
  ASSUME IInv, Next
  PROVE  PodsInv'
<1> Types /\ OpInv /\ OldInv /\ PodsInv BY DEF IInv, Types
<1> SUFFICES ASSUME NEW i \in Ids
             PROVE  /\ broker'.mount[i] # NoToken =>
                          OldNext(broker'.mount[i]) /\ broker'.mount[i].id = i
                    /\ broker'.stamp[i] # NoToken => OldNext(broker'.stamp[i])
  BY DEF PodsInv, Old, OldNext
<1>1. /\ broker.mount[i] # NoToken => OldNext(broker.mount[i]) /\ broker.mount[i].id = i
      /\ broker.stamp[i] # NoToken => OldNext(broker.stamp[i])
  BY OldStays DEF PodsInv
<1>2. secret[i].token # NoToken => OldNext(secret[i].token) /\ secret[i].token.id = i
  <2>1. secret[i].token # NoToken => secret[i] # None BY DEF None
  <2>2. secret[i] # None => secret[i].token.id = i BY DEF Types, TypeOK
  <2> QED BY <2>1, <2>2, OldStays DEF OldInv
<1>3. op.token # NoToken => OldNext(op.token)
  BY OldStays DEF OldInv
<1> QED BY <1>1, <1>2, <1>3, PodMoves

-----------------------------------------------------------------------------
(* What a delivery keeps.                                                  *)

\* Where a delivery can be.
LEMMA Delivers ==
  ASSUME OpInv, Delivering
  PROVE  /\ Step \in Unmounted \cup {"apply"} \cup Applied
         /\ op.id \in Ids /\ op.cmd = "deliver" /\ op.todo # << >>
<1>1. op.cmd = "deliver" /\ ~op.failing /\ op.id \in Ids /\ op.todo # << >>
  BY DEF Delivering, OpInv
<1>2. Ending(Kind(op), Step) \/ \E y : Follows(Kind(op), Step, y)
  BY <1>1, Placed
<1>3. Kind(op) = IF op.id \in Plain THEN "plain delivery"
                 ELSE IF op.id \in Intakes THEN "intake delivery" ELSE "workflow delivery"
  BY <1>1 DEF Kind
<1>4. Step \in Unmounted \cup {"apply"} \cup Applied
  BY <1>2, <1>3 DEF Ending, Follows, Unmounted, Applied
<1> QED BY <1>1, <1>4

\* What a renewal has replaced it had observed, and knows by its identity.
LEMMA Replacements ==
  ASSUME Types
  PROVE  /\ \A i \in renewal.done : /\ i \in Group /\ i \in Ids /\ i \in renewal.due
                                    /\ renewal.seen[i].token \in Token /\ renewal.seen[i].token.id = i
         /\ \A i \in Unprojected : /\ i \in Group /\ i \in Ids /\ i \in renewal.due \ renewal.done
                                   /\ renewal.fresh[i] # NoToken
                                   /\ renewal.fresh[i] = MintedFor(i) /\ renewal.fresh[i].id = i
         /\ Step1 = "gather" => renewal.done = {}
<1> RenewalInv /\ renewal \in Renewal BY DEF Types, RenewalInv
<1>1. ASSUME NEW i \in renewal.done
      PROVE  /\ i \in Group /\ i \in Ids /\ i \in renewal.due
             /\ renewal.seen[i].token \in Token /\ renewal.seen[i].token.id = i
  <2>1. i \in renewal.due /\ i \in Group /\ i \in Ids
    BY DEF RenewalInv, Renewal, Group, Ids
  <2>2. renewal.todo \notin Looking BY <2>1 DEF RenewalInv
  <2>3. renewal.todo # << >>
    <3>1. CASE renewal.todo = << >>
      <4>1. renewal = Asleep BY <3>1, Steps1 DEF RenewalInv
      <4> QED BY <4>1, AtRest
    <3> QED BY <3>1
  <2>4. Step1 \notin {"none", "gather"}
    BY <2>2, <2>3, RenewalPlans, Steps1 DEF Renewal
  <2> QED BY <2>1, <2>4 DEF RenewalInv
<1>2. ASSUME NEW i \in Unprojected
      PROVE  /\ i \in Group /\ i \in Ids /\ i \in renewal.due \ renewal.done
             /\ renewal.fresh[i] # NoToken
             /\ renewal.fresh[i] = MintedFor(i) /\ renewal.fresh[i].id = i
  <2>1. i \in Group /\ i \in Ids /\ i \in renewal.due \ renewal.done /\ renewal.fresh[i] # NoToken
    BY DEF Unprojected, Renewal, Group, Ids
  <2> QED BY <2>1, TickTokens DEF RenewalInv
<1>3. Step1 = "gather" => renewal.done = {}
  <2>1. Step1 = "gather" => renewal.todo \in Looking
    BY RenewalPlans, Steps1 DEF Renewal
  <2> QED BY <2>1 DEF RenewalInv
<1> QED BY <1>1, <1>2, <1>3

\* What a delivery is about to mint is in no place yet.
LEMMA Unseen ==
  ASSUME Types, OldInv, PodsInv, Minting, op.id \in Ids
  PROVE  /\ Minted \in Token /\ Minted # NoToken /\ Minted \notin live \cup aging /\ op.prior # Minted
         /\ \A i \in Ids : secret[i].token # Minted /\ broker.stamp[i] # Minted
         /\ \A i \in Group : renewal.seen[i].token # Minted
<1>1. Minted \in Token /\ Minted.from = "command" /\ Minted.n = spent.commands /\ spent.commands \in Nat
  BY DEF Minted, Token, Types
<1>2. Minted # NoToken BY <1>1 DEF Token, NoToken
<1>3. ~Old(Minted) BY <1>1 DEF Old
<1>4. \A i \in Ids : secret[i].token # Minted
  BY <1>2, <1>3 DEF OldInv, None
<1>5. \A i \in Group : renewal.seen[i].token # Minted
  BY <1>2, <1>3 DEF OldInv, None
<1>6. \A i \in Ids : broker.stamp[i] # Minted
  BY <1>2, <1>3 DEF PodsInv
<1> QED BY <1>1, <1>2, <1>3, <1>4, <1>5, <1>6 DEF OldInv

\* The invariant of a delivery, in the next state, component by component.
LEMMA DeliveryNext ==
  ASSUME Delivering' =>
    /\ Step' \in Unmounted <=> op'.token = NoToken
    /\ op'.token # NoToken =>
         /\ op'.token.from = "command" /\ op'.token.n = spent'.commands
         /\ op'.prior # op'.token
         /\ Step' = "apply" \/ secret'[op'.id].token = op'.token => op'.token \in live'
         /\ op'.id \in renewal'.done /\ renewal'.seen[op'.id].token = op'.token =>
              secret'[op'.id].token # op'.token
    /\ Step' = "apply" =>
         /\ secret'[op'.id].token # op'.token
         /\ op'.id \in Group => /\ renewal'.seen[op'.id].token # op'.token
                                /\ broker'.stamp[op'.id] # op'.token
    /\ Step' \in Applied =>
         /\ secret'[op'.id].token = op'.token
              \/ (op'.id \in Group /\ secret'[op'.id].token.from = "tick")
         /\ secret'[op'.id].token # op'.prior
  PROVE  DeliveryInv'
BY DEF DeliveryInv

\* A step of the delivery itself.
LEMMA DeliverySteps ==
  ASSUME IInv, Next, Operator, Onto, ~GivenUp, Delivering
  PROVE  DeliveryInv'
<1> Types /\ OpInv /\ OldInv /\ PodsInv /\ DeliveryInv BY DEF IInv, Types
<1>1. /\ op'.id = op.id /\ op.id \in Ids /\ Delivering' /\ op.cmd = "deliver"
      /\ UNCHANGED <<aging, session, renewal>>
  BY Afters, Delivers, OperatorMoves DEF Onto
<1>2. /\ Step \in {"running", "prior", "mint", "apply", "readiness", "settle", "patch",
                   "restart", "rollout", "retire"}
      /\ Step \in {"running", "prior"} => Step' = "mint"
      /\ Step = "mint" => Step' = "apply"
      /\ Step \in {"apply", "readiness", "settle", "patch", "restart", "rollout", "retire"} =>
           Step' \in Applied
  BY Afters DEF Applied
<1>3. renewal.done \subseteq Group BY DEF Types, RenewalInv, Renewal
<1>4. CASE Step = "mint"
  <2>1. Issuing BY <1>4, OnOrOff
  <2>2. Minting BY <1>1, <1>4 DEF DeliveryInv, Unmounted, Minting
  <2>3. /\ op'.token = Minted /\ op'.prior = op.prior /\ live' = live \cup {Minted}
        /\ UNCHANGED <<secret, broker, spent>>
    BY <2>1 DEF Issuing, Kept, Unspent
  <2>4. Step' = "apply" /\ Step' \notin Unmounted /\ Step' \notin Applied
    BY <1>2, <1>4 DEF Unmounted, Applied
  <2>5. Minted.from = "command" /\ Minted.n = spent.commands
    BY DEF Minted
  <2> QED BY <1>1, <1>3, <2>2, <2>3, <2>4, <2>5, Unseen, DeliveryNext
<1>5. CASE Step \in {"running", "prior"}
  <2>1. op'.token = op.token
    <3>1. Passing \/ Reading BY <1>5, OnOrOff
    <3>2. Passing => Fresh BY IdleCommand DEF Passing, Onward, GivenUp
    <3>3. Reading => op'.token = op.token BY <1>5 DEF Reading
    <3> QED BY <3>1, <3>2, <3>3 DEF Fresh
  <2>2. op.token = NoToken BY <1>5 DEF DeliveryInv, Unmounted
  <2>3. Step' \in Unmounted /\ Step' # "apply" /\ Step' \notin Applied
    BY <1>2, <1>5 DEF Unmounted, Applied
  <2> QED BY <2>1, <2>2, <2>3, DeliveryNext
<1>6. CASE Step \in {"apply", "readiness", "settle", "patch", "restart", "rollout", "retire"}
  <2>1. Step' \in Applied /\ Step' \notin Unmounted /\ Step' # "apply"
    BY <1>2, <1>6 DEF Unmounted, Applied
  <2>2. op.token # NoToken
    BY <1>6 DEF DeliveryInv, Unmounted
  <2>3. Passing \/ Writing \/ Revoking \/ Setting \/ SettingWgcf
    BY <1>6, OnOrOff DEF Ends1
  <2>4. op'.token = op.token /\ op'.prior = op.prior
    BY <2>3, IdleCommand
       DEF Passing, Writing, Revoking, Setting, SettingWgcf, Onward, GivenUp, Fresh
  <2>5. spent'.commands = spent.commands
    BY <2>3, IdleCommand DEF Passing, Writing, Revoking, Setting, SettingWgcf, Unspent, Faulty, GivenUp
  <2>6. op.token \in live => op.token \in live'
    <3>1. CASE Revoking
      <4>1. Step = "retire" BY <1>6, <3>1 DEF Revoking, Ends1
      <4>2. Ends(Step) = op.prior BY <4>1 DEF Ends
      <4>3. live' = live \/ live' = live \ {op.prior} BY <3>1, <4>2 DEF Revoking
      <4> QED BY <2>2, <4>3 DEF DeliveryInv
    <3>2. ~Revoking => live' = live
      BY <2>3 DEF Passing, Writing, Setting, SettingWgcf
    <3> QED BY <3>1, <3>2
  <2>7. CASE Step = "apply"
    <3>1. Writing BY <2>7, OnOrOff
    <3>2. secret'[op.id].token = op.token BY <3>1, Secrets
    <3>3. /\ op.token \in live /\ op.prior # op.token
          /\ op.token.from = "command" /\ op.token.n = spent.commands
          /\ op.id \in Group => renewal.seen[op.id].token # op.token
      BY <2>2, <2>7 DEF DeliveryInv
    <3> QED BY <1>1, <1>3, <2>1, <2>2, <2>4, <2>5, <2>6, <3>2, <3>3, DeliveryNext
  <2>8. CASE Step # "apply"
    <3>1. Step \in Applied BY <1>6, <2>8 DEF Applied
    <3>2. secret' = secret
      BY <2>3, <2>8 DEF Passing, Writing, Revoking, Setting, SettingWgcf, Kept
    <3>3. /\ op.token.from = "command" /\ op.token.n = spent.commands /\ op.prior # op.token
          /\ secret[op.id].token = op.token => op.token \in live
          /\ op.id \in renewal.done /\ renewal.seen[op.id].token = op.token =>
               secret[op.id].token # op.token
          /\ secret[op.id].token = op.token
               \/ (op.id \in Group /\ secret[op.id].token.from = "tick")
          /\ secret[op.id].token # op.prior
      BY <2>2, <3>1 DEF DeliveryInv
    <3> QED BY <1>1, <2>1, <2>2, <2>4, <2>5, <2>6, <3>2, <3>3, DeliveryNext
  <2> QED BY <2>7, <2>8
<1> QED BY <1>2, <1>4, <1>5, <1>6

\* What a delivery has minted is no token of a tick.
LEMMA NotOfTick ==
  ASSUME DeliveryInv, Delivering, op.token # NoToken
  PROVE  \A i : MintedFor(i) # op.token
BY DEF DeliveryInv, MintedFor

\* A renewal may replace what a delivery wrote, by its own token; before that it
\* does not end it.
LEMMA DeliveryWaits ==
  ASSUME IInv, Next, RenewalActions, Delivering, op.token # NoToken
  PROVE  /\ Step = "apply" \/ secret'[op.id].token = op.token => op.token \in live'
         /\ op.id \in renewal'.done /\ renewal'.seen[op.id].token = op.token =>
              secret'[op.id].token # op.token
         /\ Step = "apply" =>
              /\ secret'[op.id].token # op.token
              /\ op.id \in Group => /\ renewal'.seen[op.id].token # op.token
                                    /\ broker'.stamp[op.id] # op.token
         /\ Step \in Applied =>
              /\ secret'[op.id].token = op.token
                   \/ (op.id \in Group /\ secret'[op.id].token.from = "tick")
              /\ secret'[op.id].token # op.prior
         /\ secret'[op.id].token = op.token => secret[op.id].token = op.token
<1> /\ Types /\ OpInv /\ OldInv /\ DeliveryInv /\ op.id \in Ids /\ RenewalInv
    /\ Step \in {"apply"} \cup Applied /\ op.token.id = op.id /\ FreshInv
  BY Delivers DEF IInv, Types, DeliveryInv, OpInv
<1>1. Renewing BY RenewalMoves
<1>2. ASSUME Step = "apply" \/ secret[op.id].token = op.token PROVE op.token \in live'
  <2>1. op.token \in live BY <1>2 DEF DeliveryInv
  <2>2. CASE Returning
    <3>1. ASSUME NEW i \in renewal.done PROVE renewal.seen[i].token # op.token
      <4>1. renewal.seen[i].token.id = i /\ i \in Group BY Replacements
      <4>2. CASE i = op.id BY <1>2, <4>1, <4>2 DEF DeliveryInv
      <4> QED BY <4>1, <4>2
    <3>2. ASSUME NEW i \in Unprojected PROVE renewal.fresh[i] # op.token
      BY Replacements, NotOfTick
    <3> QED BY <2>1, <2>2, <3>1, <3>2 DEF Returning
  <2>3. ~Returning => live \subseteq live'
    BY <1>1 DEF Renewing, Waking, Observing, Choosing, Continuing, Issuing1, Projecting
  <2> QED BY <2>1, <2>2, <2>3
<1>3. \/ secret'[op.id] = secret[op.id]
      \/ /\ Projecting /\ op.id \in Group
         /\ secret'[op.id].token = MintedFor(op.id) /\ MintedFor(op.id) # op.prior
  <2>1. CASE Projecting
    <3>1. PICK i \in Group :
            /\ i \in renewal.due \ renewal.done
            /\ renewal.fresh[i] = MintedFor(i) /\ MintedFor(i) \in Token
            /\ secret'[i] = [token |-> MintedFor(i), session |-> session]
            /\ \A j \in Ids \ {i} : secret'[j] = secret[j]
      BY <2>1, Replacing
    <3>2. CASE i # op.id BY <3>1, <3>2
    <3>3. CASE i = op.id
      <4>1. MintedFor(i) # NoToken BY <3>1 DEF Token, NoToken
      <4>2. Held(i) BY <2>1, <3>1, <4>1 DEF Held, Projecting
      <4>3. MintedFor(i) # op.prior BY <3>1, <4>2 DEF FreshInv
      <4> QED BY <2>1, <3>1, <3>3, <4>3
    <3> QED BY <3>2, <3>3
  <2>2. ~Projecting => secret' = secret
    BY <1>1 DEF Renewing, Waking, Observing, Choosing, Continuing, Issuing1, Returning, Kept
  <2> QED BY <2>1, <2>2
<1>4. /\ secret'[op.id].token = op.token => secret[op.id].token = op.token
      /\ Step \in Applied =>
           /\ secret'[op.id].token = op.token
                \/ (op.id \in Group /\ secret'[op.id].token.from = "tick")
           /\ secret'[op.id].token # op.prior
  <2>1. CASE secret'[op.id] = secret[op.id] BY <2>1 DEF DeliveryInv
  <2>2. CASE Projecting /\ op.id \in Group /\ secret'[op.id].token = MintedFor(op.id)
               /\ MintedFor(op.id) # op.prior
    <3>1. MintedFor(op.id).from = "tick" BY DEF MintedFor
    <3> QED BY <2>2, <3>1, NotOfTick
  <2> QED BY <1>3, <2>1, <2>2
<1>5. ASSUME op.id \in renewal'.done, renewal'.seen[op.id].token = op.token
      PROVE  secret'[op.id].token # op.token
  <2>1. CASE renewal' = Asleep BY <1>5, <2>1, AtRest
  <2>2. CASE renewal'.done = {} BY <1>5, <2>2
  <2>3. CASE renewal'.done = renewal.done /\ renewal'.seen = renewal.seen
    BY <1>4, <1>5, <2>3 DEF DeliveryInv
  <2>4. CASE Projecting /\ renewal'.done # renewal.done
    <3>1. PICK i \in Group :
            /\ i \in Ids
            /\ secret'[i] = [token |-> MintedFor(i), session |-> session]
            /\ \A j \in Ids \ {i} : secret'[j] = secret[j]
            /\ \/ /\ Unspent /\ Step1' = "project"
                  /\ renewal'.seen = renewal.seen /\ renewal'.due = renewal.due
                  /\ renewal'.done = renewal.done \cup {i} /\ renewal'.fresh = renewal.fresh
               \/ Faulty /\ (renewal' = Asleep \/ Onto1)
      BY <2>4, Replacing
    <3>2. CASE i = op.id BY <3>1, <3>2, NotOfTick
    <3>3. CASE i # op.id /\ renewal' # Asleep
      <4>1. op.id \in renewal.done /\ renewal.seen[op.id].token = op.token
        BY <1>5, <2>4, <3>1, <3>3 DEF Onto1
      <4> QED BY <1>4, <4>1 DEF DeliveryInv
    <3> QED BY <2>1, <3>2, <3>3
  <2> QED BY <1>1, <2>1, <2>2, <2>3, <2>4
          DEF Renewing, Waking, Observing, Choosing, Continuing, Issuing1, Projecting, Returning, Onto1
<1>6. ASSUME Step = "apply", op.id \in Group
      PROVE  renewal'.seen[op.id].token # op.token /\ broker'.stamp[op.id] # op.token
  <2>1. /\ renewal.seen[op.id].token # op.token /\ broker.stamp[op.id] # op.token
        /\ secret[op.id].token # op.token
    BY <1>6 DEF DeliveryInv
  <2>2. renewal'.seen[op.id].token # op.token
    BY <1>6, <2>1, SeenMoves DEF None
  <2>3. broker'.stamp[op.id] # op.token
    <3>1. CASE UNCHANGED broker BY <2>1, <3>1
    <3>2. CASE broker' = Stamped BY <1>6, <2>1, <3>2, Consuming
    <3> QED BY <1>1, <3>1, <3>2 DEF Renewing, Waking, Observing, Choosing, Continuing, Issuing1,
                                    Projecting, Returning, Kept
  <2> QED BY <2>2, <2>3
<1>7. Step = "apply" => secret'[op.id].token # op.token
  BY <1>4 DEF DeliveryInv
<1> QED BY <1>2, <1>4, <1>5, <1>6, <1>7

\* What a delivery wrote stays or is replaced by a renewal, through every step.
LEMMA DeliveryStep ==
  ASSUME IInv, Next
  PROVE  DeliveryInv'
<1> Types /\ OpInv /\ DeliveryInv BY DEF IInv, Types
<1>1. CASE Operator
  <2>1. CASE Onto /\ ~GivenUp
    <3>1. Delivering' = Delivering BY <2>1, Afters
    <3>2. ~Delivering' => DeliveryInv' BY DEF DeliveryInv
    <3> QED BY <1>1, <2>1, <3>1, <3>2, DeliverySteps
  <2>2. CASE GivenUp
    <3>1. ~Delivering' BY <2>2, Stopping DEF GivenUp
    <3> QED BY <3>1 DEF DeliveryInv
  <2>3. CASE Starting
    <3>1. Delivering' => Step' \in {"running", "prior"}
      BY <2>3 DEF Starting, Delivering
    <3>2. op'.token = NoToken BY <2>3 DEF Starting
    <3> QED BY <3>1, <3>2, DeliveryNext DEF Unmounted, Applied
  <2> QED BY <1>1, <2>1, <2>2, <2>3, OnOrOff
<1>2. CASE RenewalActions
  <2>1. UNCHANGED <<op, aging, session>> BY <1>2, RenewalMoves
  <2>2. spent'.commands = spent.commands
    <3>1. Renewing BY <1>2, RenewalMoves
    <3> QED BY <3>1 DEF Renewing, Waking, Observing, Choosing, Continuing, Issuing1, Projecting,
                        Returning, Unspent, Faulty
  <2>3. CASE ~Delivering
    <3>1. ~Delivering' BY <2>1, <2>3, Waiting
    <3> QED BY <3>1 DEF DeliveryInv
  <2>4. CASE Delivering /\ op.token = NoToken
    <3>1. Step' = Step /\ op' = op BY <2>1, Waiting
    <3>2. Step \in Unmounted /\ Step # "apply" /\ Step \notin Applied
      BY <2>4 DEF DeliveryInv, Unmounted, Applied
    <3> QED BY <2>4, <3>1, <3>2, DeliveryNext
  <2>5. CASE Delivering /\ op.token # NoToken
    <3>1. Step' = Step /\ op' = op BY <2>1, Waiting
    <3>2. /\ Step \in Unmounted <=> op.token = NoToken
          /\ op.token.from = "command" /\ op.token.n = spent.commands /\ op.prior # op.token
      BY <2>5 DEF DeliveryInv
    <3> QED BY <1>2, <2>2, <2>5, <3>1, <3>2, DeliveryWaits, DeliveryNext
  <2> QED BY <2>3, <2>4, <2>5
<1>3. CASE Surroundings
  <2>1. CASE Quiet
    <3>1. op' = Idle
      BY <1>3, <2>1 DEF Quiet, Surroundings, Roll, Sync, RollWgcf, Ages, Expires, SessionMoves
    <3>2. ~Delivering' BY <3>1, IdleCommand DEF Delivering
    <3> QED BY <3>2 DEF DeliveryInv
  <2>2. CASE ~Quiet
    <3>1. UNCHANGED <<live, aging, secret, session, op, renewal, spent>>
      BY <1>3, <2>2 DEF Surroundings, Roll, Sync, RollWgcf, Ages, Expires, SessionMoves
    <3>2. Step' = Step /\ Delivering' = Delivering BY <3>1, Waiting
    <3>3. \A i \in Group : broker'.stamp[i] = broker.stamp[i]
      <4>1. CASE Roll BY <4>1, Rolling
      <4>2. CASE Sync BY <4>2, Syncing
      <4>3. CASE UNCHANGED broker BY <4>3
      <4> QED BY <1>3, <2>2, <4>1, <4>2, <4>3
              DEF Surroundings, RollWgcf, Ages, Expires, SessionMoves, cluster
    <3> QED BY <3>1, <3>2, <3>3 DEF DeliveryInv
  <2> QED BY <2>1, <2>2
<1> QED BY <1>1, <1>2, <1>3, Splitting

\* What the others do to the deployment of the broker while a command waits.
LEMMA BrokerWaits ==
  ASSUME Types, Next, RenewalActions \/ Surroundings, NEW i \in Group
  PROVE  /\ broker'.want[i] = broker.want[i]
         /\ \/ /\ broker'.mount[i] = broker.mount[i]
               /\ broker'.rolled => broker.rolled /\ broker'.stamp[i] = broker.stamp[i]
            \/ broker'.mount[i] = secret[i].token
            \/ Roll /\ broker.want[i] = "off"
<1> broker \in Broker /\ i \in Ids BY DEF Types, Group, Ids
<1>1. CASE UNCHANGED broker BY <1>1
<1>2. CASE RenewalActions
  <2>1. Renewing BY <1>2, RenewalMoves
  <2>2. CASE broker' = Stamped BY <2>2, Consuming
  <2>3. CASE broker' # Stamped
    <3>1. UNCHANGED broker
      BY <2>1, <2>3 DEF Renewing, Waking, Observing, Choosing, Continuing, Issuing1, Projecting,
                        Returning, Kept
    <3> QED BY <1>1, <3>1
  <2> QED BY <2>2, <2>3
<1>3. CASE Roll BY <1>3, Rolling
<1>4. CASE Sync BY <1>4, Syncing
<1>5. CASE RollWgcf \/ Ages \/ Expires \/ SessionMoves
  BY <1>1, <1>5 DEF RollWgcf, Ages, Expires, SessionMoves, cluster
<1> QED BY <1>2, <1>3, <1>4, <1>5 DEF Surroundings

\* A delivery in the broker, step by step.
LEMMA BrokerDelivers ==
  ASSUME Types, Operator, Onto, ~GivenUp, Delivering, op.id \in Group
  PROVE  /\ op'.id = op.id /\ Delivering' /\ op.id \in Ids
         /\ Step \in {"running", "prior"} => Step' = "mint"
         /\ Step = "mint" => Step' = "apply"
         /\ Step = "apply" => Step' = IF op.id \in Intakes THEN "patch" ELSE "readiness"
         /\ Step = "readiness" => Step' = "settle"
         /\ Step = "settle" => Step' = "patch" /\ op.id \in Workflows /\ op.id \notin Intakes
         /\ Step = "patch" => Step' = IF op.id \in Intakes THEN "rollout" ELSE "restart"
         /\ Step = "restart" => Step' = "rollout"
         /\ Step = "rollout" => Step' = IF op.id \in Intakes THEN "receipt" ELSE "retire"
         /\ Step = "retire" => Step' = "receipt"
         /\ Step \in {"running", "prior", "mint", "apply", "readiness", "settle", "patch",
                      "restart", "rollout", "retire"}
<1> OpInv BY DEF Types
<1>1. op'.id = op.id /\ Delivering' /\ op.id \in Ids
  BY Afters, Delivers DEF Onto
<1>2. op.id \notin Plain /\ (op.id \in Intakes <=> op.id \notin Workflows)
  BY IdentitiesAssumption DEF Group
<1> QED BY <1>1, <1>2, Afters

\* Where the pods of a delivery have what they mount from: they mounted it before,
\* or it is the token of the Secret.
LEMMA Carrying ==
  ASSUME IInv, Next, Carried'
  PROVE  /\ op'.token = op.token /\ op'.prior = op.prior /\ op'.id = op.id
         /\ Delivering /\ op.id \in Group /\ op.id \in Ids /\ Step \in Applied
         /\ \/ Carried /\ broker'.mount[op.id] = broker.mount[op.id]
            \/ broker'.mount[op.id] = secret[op.id].token
<1> Types /\ OpInv /\ DeliveryInv /\ MountInv BY DEF IInv, Types
<1>1. Delivering' /\ op'.id \in Group /\ Step' \in {"retire", "receipt", "rollout", "patch"}
  BY DEF Carried
<1>2. CASE Operator /\ Onto /\ ~GivenUp
  <2>1. Delivering /\ op'.id = op.id /\ op.id \in Group BY <1>1, <1>2, Afters DEF Onto
  <2>2. /\ op.id \in Ids
        /\ Step = "apply" => Step' = IF op.id \in Intakes THEN "patch" ELSE "readiness"
        /\ Step = "settle" => Step' = "patch" /\ op.id \in Workflows /\ op.id \notin Intakes
        /\ Step = "patch" => Step' = IF op.id \in Intakes THEN "rollout" ELSE "restart"
        /\ Step = "restart" => Step' = "rollout"
        /\ Step = "rollout" => Step' = IF op.id \in Intakes THEN "receipt" ELSE "retire"
        /\ Step = "retire" => Step' = "receipt"
        /\ Step \in {"apply", "settle", "patch", "restart", "rollout", "retire"}
    BY <1>1, <1>2, <2>1, BrokerDelivers
  <2>3. CASE Step = "apply"
    <3>1. Writing BY <1>2, <2>3, OnOrOff
    <3>2. broker' = broker /\ op'.token = op.token
      BY <1>2, <3>1 DEF Writing, Fresh
    <3>3. broker.stamp[op.id] # op.token BY <2>1, <2>3 DEF DeliveryInv
    <3> QED BY <2>1, <2>2, <2>3, <3>2, <3>3 DEF Carried
  <2>4. CASE Step = "settle"
    BY <2>1, <2>2, <2>4 DEF Carried
  <2>5. CASE Step = "patch"
    <3>1. Setting BY <1>2, <2>5, OnOrOff
    <3>2. Fresh BY <3>1 DEF Setting
    <3>3. /\ broker'.want[op.id] = "on" /\ broker'.mount = broker.mount
          /\ broker'.rolled => broker.rolled /\ broker'.want = broker.want
          /\ broker'.rolled /\ op.id \in Intakes => broker.stamp[op.id] = op.token
      BY <2>5, <3>1, Settings
    <3>4. op.id \in Intakes /\ broker'.rolled BY <1>1, <2>1, <2>2, <2>5 DEF Carried
    <3>5. Carried BY <2>1, <2>5, <3>3, <3>4 DEF Carried
    <3> QED BY <2>1, <2>2, <2>5, <3>2, <3>3, <3>5 DEF Fresh, Applied
  <2>6. CASE Step = "restart"
    <3>1. Setting BY <1>2, <2>6, OnOrOff
    <3>2. broker'.rolled = FALSE BY <2>6, <3>1, Settings
    <3> QED BY <2>2, <2>6, <3>2 DEF Carried
  <2>7. CASE Step = "rollout"
    <3>1. Passing BY <1>2, <2>7, OnOrOff
    <3>2. broker' = broker /\ broker.rolled /\ Fresh
      BY <1>2, <2>7, <3>1, IdleCommand DEF Passing, Kept, Onward, GivenUp
    <3> QED BY <2>1, <2>2, <2>7, <3>2 DEF Carried, Fresh, Applied
  <2>8. CASE Step = "retire"
    <3>1. Revoking BY <1>2, <2>8, OnOrOff DEF Ends1
    <3>2. broker' = broker /\ Fresh
      BY <1>2, <3>1, IdleCommand DEF Revoking, Kept, Onward, GivenUp
    <3> QED BY <2>1, <2>2, <2>8, <3>2 DEF Carried, Fresh, Applied
  <2> QED BY <2>2, <2>3, <2>4, <2>5, <2>6, <2>7, <2>8
<1>3. CASE Operator /\ ~(Onto /\ ~GivenUp)
  <2>1. CASE GivenUp BY <1>1, <2>1, Stopping DEF GivenUp
  <2>2. CASE Starting BY <1>1, <2>2 DEF Starting
  <2> QED BY <1>3, <2>1, <2>2, OnOrOff
<1>4. CASE RenewalActions \/ Surroundings
  <2>1. UNCHANGED op
    <3>1. RenewalActions => UNCHANGED op BY RenewalMoves
    <3> QED BY <1>4, <3>1 DEF Surroundings, Roll, Sync, RollWgcf, Ages, Expires, SessionMoves
  <2>2. Step' = Step /\ Delivering' = Delivering /\ op' = op BY <2>1, Waiting
  <2>3. Delivering /\ op.id \in Group /\ op.id \in Ids /\ Step \in Applied
    BY <1>1, <2>2, Delivers DEF Applied
  <2>4. /\ broker'.want[op.id] = broker.want[op.id]
        /\ \/ /\ broker'.mount[op.id] = broker.mount[op.id]
              /\ broker'.rolled => broker.rolled /\ broker'.stamp[op.id] = broker.stamp[op.id]
           \/ broker'.mount[op.id] = secret[op.id].token
           \/ Roll /\ broker.want[op.id] = "off"
    BY <1>4, <2>3, BrokerWaits
  <2>5. broker.want[op.id] # "off"
    BY <2>2, <2>3, <2>4 DEF Carried, MountInv
  <2>6. (broker'.rolled => broker.rolled /\ broker'.stamp[op.id] = broker.stamp[op.id])
        => Carried
    BY <2>2, <2>3, <2>4 DEF Carried
  <2> QED BY <2>2, <2>3, <2>4, <2>5, <2>6
<1> QED BY <1>2, <1>3, <1>4, Splitting

\* The pods mount what a delivery wrote, or what replaced it, before it is
\* reported.
LEMMA MountStep ==
  ASSUME IInv, Next
  PROVE  MountInv'
<1> Types /\ OpInv /\ DeliveryInv /\ MountInv BY DEF IInv, Types
<1>1. Delivering' /\ op'.id \in Group /\ Step' \in {"restart", "rollout", "retire", "receipt"} =>
        broker'.want[op'.id] = "on"
  <2> SUFFICES ASSUME Delivering', op'.id \in Group, Step' \in {"restart", "rollout", "retire", "receipt"}
               PROVE  broker'.want[op'.id] = "on"
    OBVIOUS
  <2>1. CASE Operator /\ Onto /\ ~GivenUp
    <3>1. Delivering /\ op'.id = op.id /\ op.id \in Group BY <2>1, Afters DEF Onto
    <3>2. Step \in {"patch", "restart", "rollout", "retire"}
      BY <2>1, <3>1, BrokerDelivers
    <3>3. CASE Step = "patch"
      <4>1. Setting BY <2>1, <3>3, OnOrOff
      <4> QED BY <3>1, <3>3, <4>1, Settings
    <3>4. CASE Step = "restart"
      <4>1. Setting BY <2>1, <3>4, OnOrOff
      <4> QED BY <3>1, <3>4, <4>1, Settings DEF MountInv
    <3>5. CASE Step \in {"rollout", "retire"}
      <4>1. Passing \/ Revoking BY <2>1, <3>5, OnOrOff DEF Ends1
      <4>2. broker' = broker BY <4>1 DEF Passing, Revoking, Kept
      <4> QED BY <3>1, <3>5, <4>2 DEF MountInv
    <3> QED BY <3>2, <3>3, <3>4, <3>5
  <2>2. CASE Operator /\ ~(Onto /\ ~GivenUp)
    <3>1. CASE GivenUp BY <3>1, Stopping DEF GivenUp
    <3>2. CASE Starting BY <3>2 DEF Starting
    <3> QED BY <2>2, <3>1, <3>2, OnOrOff
  <2>3. CASE RenewalActions \/ Surroundings
    <3>1. UNCHANGED op
      <4>1. RenewalActions => UNCHANGED op BY RenewalMoves
      <4> QED BY <2>3, <4>1 DEF Surroundings, Roll, Sync, RollWgcf, Ages, Expires, SessionMoves
    <3>2. Step' = Step /\ Delivering' = Delivering /\ op' = op BY <3>1, Waiting
    <3>3. broker'.want[op.id] = broker.want[op.id] BY <2>3, <3>2, BrokerWaits
    <3> QED BY <3>2, <3>3 DEF MountInv
  <2> QED BY <2>1, <2>2, <2>3, Splitting
<1>2. ASSUME Carried'
      PROVE  /\ secret'[op'.id].token = op'.token => broker'.mount[op'.id] = op'.token
             /\ broker'.mount[op'.id] = op'.token \/ broker'.mount[op'.id].from = "tick"
             /\ broker'.mount[op'.id] # op'.prior
  <2>1. /\ op'.token = op.token /\ op'.prior = op.prior /\ op'.id = op.id
        /\ Delivering /\ op.id \in Group /\ op.id \in Ids /\ Step \in Applied
        /\ \/ Carried /\ broker'.mount[op.id] = broker.mount[op.id]
           \/ broker'.mount[op.id] = secret[op.id].token
    BY <1>2, Carrying
  <2>2. secret'[op.id].token = op.token => secret[op.id].token = op.token
    <3>1. op.token # NoToken BY <2>1, Filled
    <3>2. CASE RenewalActions BY <2>1, <3>1, <3>2, DeliveryWaits
    <3>3. CASE secret' = secret BY <3>3
    <3>4. ~Writing /\ ~Deleting
      <4>1. Step \notin {"apply", "delete"} BY <2>1 DEF Applied
      <4> QED BY <4>1 DEF Writing, Deleting
    <3> QED BY <3>2, <3>3, <3>4, SecretMoves
  <2>3. /\ secret[op.id].token = op.token \/ secret[op.id].token.from = "tick"
        /\ secret[op.id].token # op.prior
    BY <2>1 DEF DeliveryInv
  <2> QED BY <2>1, <2>2, <2>3 DEF MountInv
<1> QED BY <1>1, <1>2 DEF MountInv

\* Where a renewal comes from when it mints, projects or retires, and when it
\* still looks.
LEMMA Following1 ==
  ASSUME Types, RenewalActions
  PROVE  /\ Step1' \in {"mint", "project"} =>
              UNCHANGED spent /\ (Step1 \in {"mint", "project"} \/ renewal.todo \in Looking)
         /\ Step1' = "retire" =>
              /\ Consumed /\ UNCHANGED <<broker, secret>>
              /\ renewal'.seen = renewal.seen /\ renewal'.done = renewal.done
         /\ renewal'.todo \in Looking => renewal.todo \in Looking \/ renewal = Asleep
<1> DEFINE Goal ==
      /\ Step1' \in {"mint", "project"} =>
           UNCHANGED spent /\ (Step1 \in {"mint", "project"} \/ renewal.todo \in Looking)
      /\ Step1' = "retire" =>
           /\ Consumed /\ UNCHANGED <<broker, secret>>
           /\ renewal'.seen = renewal.seen /\ renewal'.done = renewal.done
      /\ renewal'.todo \in Looking => renewal.todo \in Looking \/ renewal = Asleep
<1> RenewalInv /\ renewal \in Renewal /\ renewal.todo \in RenewalTodo
  BY DEF Types, RenewalInv, Renewal
<1>1. ASSUME renewal' = Asleep \/ Step1' = "release" PROVE Goal
  <2>1. Step1' \in {"none", "release"} BY <1>1, Sleeping
  <2>2. renewal'.todo \in Looking => renewal'.todo # << >> /\ Head(renewal'.todo) # "release"
    BY DEF Looking
  <2>3. renewal'.todo \notin Looking BY <1>1, <2>2, AtRest DEF Step1
  <2> QED BY <2>1, <2>3
<1>2. ASSUME renewal' = Failed1, renewal.todo # << >>, spent'.ticks = spent.ticks PROVE Goal
  BY <1>1, <1>2, Failing1
<1>3. ASSUME Proceed1, renewal.todo # << >>, Tail(renewal.todo) # << >>, Step1 # "mint", Step1 # "status"
      PROVE  Goal
  <2>1. renewal'.todo = Tail(renewal.todo) BY <1>3 DEF Proceed1, Rest1, Renewal
  <2>2. Step1' = Head(Tail(renewal.todo)) /\ Step1 = Head(renewal.todo) BY <1>3, <2>1 DEF Step1
  <2> QED BY <1>3, <2>1, <2>2, RenewalPlans
<1>4. Tick => Goal
  <2>1. Tick => Step1' = "gather" /\ renewal = Asleep BY TickMoves
  <2> QED BY <2>1
<1>5. Gather \/ Decide \/ Observe => Goal
  <2>1. Gather \/ Decide \/ Observe =>
          renewal.todo # << >> /\ Step1 \in {"gather", "decide", "observe"} /\ UNCHANGED spent
    BY Steps1 DEF Gather, Decide, Observe
  <2>2. Gather \/ Decide \/ Observe => renewal.todo \in Looking
    BY <2>1, RenewalPlans, Steps1
  <2>3. Gather => renewal' = Asleep \/ Step1' = "decide" BY GatherMoves
  <2>4. Decide => Step1' \in {"consume", "mint"} BY DecideMoves
  <2>5. Observe => renewal' = Asleep \/ Step1' \in {"status", "mint"} BY ObserveMoves
  <2> QED BY <1>1, <2>1, <2>2, <2>3, <2>4, <2>5
<1>6. MintAll => Goal
  <2>1. MintAll => Step1 = "mint" /\ Step1' \in {"mint", "project"} /\ UNCHANGED spent
    BY MintAllMoves DEF MintAll
  <2>2. renewal'.todo \in Looking => renewal'.todo # << >> /\ Head(renewal'.todo) \notin {"mint", "project"}
    BY DEF Looking
  <2> QED BY <2>1, <2>2 DEF Step1
<1>7. Project => Goal
  <2> SUFFICES ASSUME Project PROVE Goal OBVIOUS
  <2>1. Step1 = "project" /\ renewal.todo # << >> /\ UNCHANGED spent BY Steps1 DEF Project
  <2>2. Head(renewal.todo) = "project" /\ Tail(renewal.todo) # << >>
    BY <2>1, RenewalPlans, Steps1
  <2>3. CASE renewal.due = renewal.done
    BY <1>3, <2>1, <2>2, <2>3 DEF Project
  <2>4. CASE renewal.due # renewal.done
    <3>1. PICK i : IF Unchanged1(i) THEN renewal' = [renewal EXCEPT !.done = @ \cup {i}]
                                    ELSE renewal' = Failed1
      BY <2>4 DEF Project
    <3>2. CASE Unchanged1(i)
      <4>1. renewal'.todo = renewal.todo BY <3>1, <3>2 DEF Renewal
      <4>2. Step1' = Step1 BY <4>1 DEF Step1
      <4> QED BY <2>1, <4>1, <4>2
    <3>3. CASE ~Unchanged1(i) BY <1>2, <2>1, <3>1, <3>3
    <3> QED BY <3>2, <3>3
  <2> QED BY <2>3, <2>4
<1>8. Consume \/ Await => Goal
  <2> SUFFICES ASSUME Consume \/ Await PROVE Goal OBVIOUS
  <2>1. /\ Step1 \in {"consume", "rollout"} /\ renewal.todo # << >> /\ UNCHANGED spent
        /\ Proceed1 \/ renewal' = Failed1
    BY Steps1 DEF Consume, Await
  <2>2. Head(renewal.todo) \in {"consume", "rollout"} /\ Tail(renewal.todo) # << >>
    BY <2>1, RenewalPlans, Steps1
  <2> QED BY <1>2, <1>3, <2>1, <2>2
<1>9. Status => Goal
  <2> SUFFICES ASSUME Status PROVE Goal OBVIOUS
  <2>1. Step1 = "status" /\ renewal.todo # << >> /\ UNCHANGED <<spent, broker, secret>>
    BY Steps1 DEF Status, cluster
  <2>2. CASE renewal' = Failed1 BY <1>2, <2>1, <2>2
  <2>3. CASE renewal' = Asleep BY <1>1, <2>3
  <2>4. CASE Consumed /\ renewal' = Rest1 /\ Tail(renewal.todo) # << >>
    <3>1. /\ renewal'.todo = Tail(renewal.todo) /\ renewal'.seen = renewal.seen
          /\ renewal'.done = renewal.done
      BY <2>4 DEF Rest1, Renewal
    <3>2. Step1' = Head(Tail(renewal.todo)) /\ Step1 = Head(renewal.todo)
      BY <2>1, <2>4, <3>1 DEF Step1
    <3>3. Step1' \notin {"mint", "project"} /\ (renewal'.todo \in Looking => renewal.todo \in Looking)
      BY <2>1, <2>4, <3>1, <3>2, RenewalPlans, SMTT(30)
    <3> QED BY <2>1, <2>4, <3>1, <3>3
  <2> QED BY <2>2, <2>3, <2>4 DEF Status
<1>10. Retire \/ Release \/ RetireFails \/ RenewalKilled => Goal
  BY <1>1 DEF Retire, Release, RetireFails, RenewalKilled
<1>11. AwaitTimesOut \/ ProjectFails \/ RenewalFails => Goal
  <2>1. AwaitTimesOut \/ ProjectFails => renewal.todo # << >> BY DEF AwaitTimesOut, ProjectFails, Next1
  <2>2. Fault => spent'.ticks = spent.ticks BY Faults1 DEF Faulty
  <2> QED BY <1>2, <2>1, <2>2 DEF AwaitTimesOut, ProjectFails, RenewalFails
<1> QED BY <1>4, <1>5, <1>6, <1>7, <1>8, <1>9, <1>10, <1>11 DEF RenewalActions, RenewalSteps

\* Failures are only counted up, and around the two programs nothing of theirs
\* changes.
LEMMA FaultsGrow ==
  ASSUME Types, Next
  PROVE  spent.faults \in Nat /\ (spent'.faults = 0 => spent.faults = 0)
<1>1. spent.faults \in Nat BY DEF Types
<1>2. spent'.faults = spent.faults \/ spent'.faults = spent.faults + 1
  <2>1. CASE Operator
    BY <2>1, OperatorMoves DEF Commanding, Passing, Reading, Refusing, Issuing, Writing, Revoking,
         Failures, Waited, Setting, SettingWgcf, Deleting, Reporting, Starting, Unspent, Faulty
  <2>2. CASE RenewalActions
    BY <2>2, RenewalMoves DEF Renewing, Waking, Observing, Choosing, Continuing, Issuing1,
         Projecting, Returning, Unspent, Faulty
  <2>3. CASE Surroundings
    BY <2>3 DEF Surroundings, Roll, Sync, RollWgcf, Ages, Expires, SessionMoves
  <2> QED BY <2>1, <2>2, <2>3, Splitting
<1> QED BY <1>1, <1>2

LEMMA Around ==
  ASSUME Surroundings
  PROVE  /\ UNCHANGED <<op, renewal, secret, spent>>
         /\ UNCHANGED <<live, aging, session>> \/ Quiet
         /\ live \cup aging \subseteq live' \cup aging'
BY DEF Surroundings, Roll, Sync, RollWgcf, Ages, Expires, SessionMoves, cluster

\* What a renewal minted and did not project is nobody else's.
LEMMA FreshStep ==
  ASSUME IInv, Next
  PROVE  FreshInv'
<1> /\ Types /\ OpInv /\ OldInv /\ PodsInv /\ FreshInv /\ RenewalInv /\ renewal \in Renewal
    /\ Group \subseteq Ids
  BY DEF IInv, Types, RenewalInv, Group, Ids
<1>1. ASSUME NEW i \in Group, Held(i), renewal.fresh[i] # secret'[i].token
      PROVE  renewal.fresh[i] \notin {secret'[i].token, op'.token, op'.prior, broker'.mount[i]}
  <2> DEFINE f == renewal.fresh[i]
  <2>1. /\ f = MintedFor(i) /\ f.id = i /\ f.from = "tick" /\ f # NoToken
        /\ f \notin {secret[i].token, op.token, op.prior, broker.mount[i]}
    BY <1>1 DEF FreshInv, RenewalInv, MintedFor, Held
  <2>2. \A j \in Ids : secret[j].token # f
    <3>1. ASSUME NEW j \in Ids, secret[j].token = f PROVE FALSE
      <4>1. secret[j] # None BY <2>1, <3>1 DEF None
      <4>2. secret[j].token.id = j BY <4>1 DEF Types, TypeOK
      <4> QED BY <2>1, <3>1, <4>2
    <3> QED BY <3>1
  <2>3. Minted # f BY <2>1 DEF Minted
  <2>4. f # op'.token /\ f # op'.prior BY <2>1, <2>2, <2>3, TokenMoves
  <2>5. f # broker'.mount[i] BY <2>1, PodMoves
  <2> QED BY <1>1, <2>4, <2>5
<1>2. CASE Operator
  <2>1. renewal' = renewal /\ Step1' = Step1 BY <1>2, OperatorMoves DEF Step1
  <2> SUFFICES ASSUME NEW i \in Group, Held(i)'
               PROVE  renewal.fresh[i] \notin {secret'[i].token, op'.token, op'.prior, broker'.mount[i]}
    BY <2>1 DEF FreshInv
  <2>2. Held(i) BY <2>1, FaultsGrow DEF Held
  <2>3. renewal.fresh[i] \notin {NoToken, secret[i].token, op.token}
    BY <2>2 DEF FreshInv, Held
  <2>4. renewal.fresh[i] # secret'[i].token
    <3>1. CASE Writing BY <2>3, <3>1, Secrets
    <3>2. CASE Deleting BY <2>3, <3>2, Secrets DEF None
    <3>3. CASE ~Writing /\ ~Deleting
      <4>1. secret' = secret
        BY <1>2, <3>3, OperatorMoves
           DEF Commanding, Passing, Reading, Refusing, Issuing, Revoking, Failures, Waited, Setting,
               SettingWgcf, Reporting, Starting, Kept
      <4> QED BY <2>3, <4>1
    <3> QED BY <3>1, <3>2, <3>3
  <2> QED BY <1>1, <2>2, <2>4
<1>3. CASE RenewalActions
  <2>1. Renewing /\ op' = op BY <1>3, RenewalMoves
  <2>2. renewal.todo \in Looking =>
          /\ \A i \in Group : renewal.fresh[i] = NoToken
          /\ Step1 \notin {"mint", "project"}
    <3>1. renewal.todo \in Looking => renewal.todo # << >> /\ Head(renewal.todo) \notin {"mint", "project"}
      BY DEF Looking
    <3> QED BY <3>1 DEF FreshInv, Step1
  <2>3. Step1 \in {"gather", "decide", "observe"} => renewal.todo \in Looking
    BY Steps1, RenewalPlans DEF Renewal
  <2>4. renewal'.todo \in Looking => \A i \in Group : renewal'.fresh[i] = NoToken
    <3>1. CASE Waking \/ renewal' = Asleep BY <3>1, AtRest DEF Waking
    <3>2. CASE renewal'.fresh = renewal.fresh
      <4>1. renewal = Asleep => \A i \in Group : renewal.fresh[i] = NoToken BY AtRest
      <4> QED BY <1>3, <2>2, <3>2, <4>1, Following1
    <3>3. CASE Issuing1
      <4>1. renewal.todo \notin Looking BY <2>2, <3>3 DEF Issuing1
      <4>2. renewal # Asleep BY <3>3, Sleeping, AtRest DEF Issuing1, Step1
      <4> QED BY <1>3, <4>1, <4>2, Following1
    <3> QED BY <2>1, <3>1, <3>2, <3>3
            DEF Renewing, Observing, Choosing, Continuing, Projecting, Returning, Onto1
  <2>5. ASSUME NEW i \in Group, Held(i)'
        PROVE  renewal'.fresh[i] \notin {secret'[i].token, op'.token, op'.prior, broker'.mount[i]}
    <3>1. renewal'.fresh[i] # NoToken /\ i \notin renewal'.done
      BY <2>5 DEF Held
    <3>2. ~Waking /\ renewal' # Asleep BY <3>1, AtRest DEF Waking
    <3>3. ~Observing /\ ~Choosing
      BY <2>2, <2>3, <3>1 DEF Observing, Choosing
    <3>4. renewal.todo \notin Looking => Step1 \in {"mint", "project"} \/ spent.faults = 0
      BY <1>3, <2>5, Following1, FaultsGrow DEF Held
    <3>5. CASE Continuing
      <4>1. renewal'.fresh = renewal.fresh /\ renewal'.done = renewal.done /\ secret' = secret
        BY <3>2, <3>5 DEF Continuing, Onto1
      <4>2. Held(i) BY <2>2, <3>1, <3>4, <4>1 DEF Held
      <4>3. renewal.fresh[i] # secret'[i].token BY <4>1, <4>2 DEF FreshInv
      <4> QED BY <1>1, <4>1, <4>2, <4>3
    <3>6. CASE Issuing1
      <4>1. PICK j \in Group :
              /\ renewal.fresh[j] = NoToken
              /\ renewal'.fresh = [renewal.fresh EXCEPT ![j] = MintedFor(j)]
        BY <3>6 DEF Issuing1
      <4>2. renewal'.done = renewal.done /\ secret' = secret /\ broker' = broker /\ Step1 = "mint"
        BY <3>6 DEF Issuing1, Kept
      <4>3. renewal.fresh \in [Group -> TokenOrNone] BY DEF Renewal
      <4>4. renewal'.fresh[i] = IF i = j THEN MintedFor(j) ELSE renewal.fresh[i]
        BY <4>1, <4>3
      <4>5. CASE i # j
        <5>1. Held(i) BY <3>1, <4>2, <4>4, <4>5 DEF Held
        <5>2. renewal.fresh[i] # secret'[i].token BY <4>2, <5>1 DEF FreshInv
        <5> QED BY <1>1, <4>4, <4>5, <5>1, <5>2
      <4>6. CASE i = j
        <5>1. ~Old(MintedFor(i))
          <6>1. /\ MintedFor(i).from = "tick" /\ MintedFor(i).n = spent.ticks /\ MintedFor(i).id = i
                /\ MintedFor(i) # NoToken
            BY TickTokens DEF MintedFor
          <6>2. renewal.todo # << >> BY <4>2, Steps1
          <6> QED BY <4>1, <4>6, <6>1, <6>2 DEF Old
        <5>2. MintedFor(i) # NoToken /\ i \in Ids BY TickTokens
        <5>3. MintedFor(i) \notin {secret[i].token, op.token, op.prior, broker.mount[i]}
          <6>1. secret[i].token = MintedFor(i) => secret[i] # None BY <5>2 DEF None
          <6> QED BY <5>1, <5>2, <6>1 DEF OldInv, PodsInv
        <5> QED BY <2>1, <4>2, <4>4, <4>6, <5>3
      <4> QED BY <4>5, <4>6
    <3>7. CASE Projecting
      <4>1. PICK j \in Group :
              /\ j \in Ids
              /\ \A k \in Ids \ {j} : secret'[k] = secret[k]
              /\ \/ /\ Unspent /\ Step1' = "project"
                    /\ renewal'.seen = renewal.seen /\ renewal'.due = renewal.due
                    /\ renewal'.done = renewal.done \cup {j} /\ renewal'.fresh = renewal.fresh
                 \/ Faulty /\ (renewal' = Asleep \/ Onto1)
        BY <3>7, Replacing
      <4>2. ~Faulty
        <5>1. Faulty => spent'.faults # 0 /\ spent'.faults # spent.faults
          BY FaultsGrow DEF Faulty
        <5> QED BY <1>3, <2>5, <5>1, Following1 DEF Held
      <4>3. /\ renewal'.fresh = renewal.fresh /\ i \notin renewal.done /\ i # j /\ i \in Ids
            /\ Step1 = "project"
        BY <3>1, <3>7, <4>1, <4>2 DEF Projecting
      <4>4. Held(i) BY <3>1, <4>3 DEF Held
      <4>5. renewal.fresh[i] # secret'[i].token BY <4>1, <4>3, <4>4 DEF FreshInv
      <4> QED BY <1>1, <4>3, <4>4, <4>5
    <3> QED BY <2>1, <3>2, <3>3, <3>5, <3>6, <3>7 DEF Renewing, Returning
  <2> QED BY <2>4, <2>5 DEF FreshInv
<1>4. CASE Surroundings
  <2>1. UNCHANGED <<op, renewal, secret, spent>> BY <1>4, Around
  <2>2. Step1' = Step1 BY <2>1 DEF Step1
  <2>3. ASSUME NEW i \in Group, Held(i)'
        PROVE  renewal'.fresh[i] \notin {secret'[i].token, op'.token, op'.prior, broker'.mount[i]}
    <3>1. Held(i) BY <2>1, <2>2, <2>3 DEF Held
    <3>2. renewal.fresh[i] # secret'[i].token BY <2>1, <3>1 DEF FreshInv
    <3> QED BY <1>1, <2>1, <3>1, <3>2
  <2> QED BY <2>1, <2>3 DEF FreshInv
<1> QED BY <1>2, <1>3, <1>4, Splitting

\* The operator ends a token only by asking GitHub for it.
LEMMA Ending2 ==
  ASSUME Types, Operator, ~Revoking
  PROVE  live \subseteq live'
BY OperatorMoves
   DEF Commanding, Passing, Reading, Refusing, Issuing, Writing, Failures, Waited, Setting, SettingWgcf,
       Deleting, Reporting, Starting

-----------------------------------------------------------------------------
(* What holds as long as no call fails.                                    *)

\* Nothing has failed, and nothing fails in this step.
Unfailed == spent.faults = 0 /\ spent'.faults = 0

\* A step of the operator without failures.
LEMMA UnfailedMoves ==
  ASSUME IInv, Next, Operator, Unfailed
  PROVE  /\ Refusing \/ Reporting \/ Starting
              \/ (Onto /\ (Fresh \/ Reading \/ Issuing) /\ Unspent /\ ~GivenUp)
         /\ op'.failing = FALSE
<1> Types /\ OpInv /\ UnfailedInv BY DEF IInv, Types
<1>1. /\ op.failing = FALSE /\ WantedThere /\ Commanding /\ ~Faulty
  <2>1. ~Faulty BY DEF Unfailed, Faulty
  <2> QED BY <2>1, OperatorMoves DEF UnfailedInv, Unfailed
<1>2. ~Waited BY <1>1 DEF Waited, WantedThere
<1>3. Onto => ~GivenUp
  <2>1. Onto => ~Ended
    <3>1. Onto /\ Ended => op.cmd = "idle" BY IdleCommand DEF Onto, Ended
    <3> QED BY <3>1, Afters, Steps
  <2>2. Onto => ~Undoing BY <1>1 DEF Onto, Undoing
  <2> QED BY <2>1, <2>2 DEF GivenUp
<1>4. CASE Refusing \/ Reporting
  BY <1>4, Ending1 DEF Refusing, Reporting, Ended
<1>5. CASE Starting BY <1>5 DEF Starting
<1>6. CASE Passing \/ Writing \/ Revoking \/ Setting \/ SettingWgcf \/ Deleting
  <2>1. Onto /\ Fresh /\ Unspent
    BY <1>1, <1>6 DEF Passing, Writing, Revoking, Setting, SettingWgcf, Deleting, Onward
  <2> QED BY <1>1, <1>3, <2>1 DEF Onto
<1>7. CASE Reading \/ Issuing
  <2>1. Onto /\ Unspent BY <1>7 DEF Reading, Issuing
  <2> QED BY <1>1, <1>3, <1>7, <2>1 DEF Onto
<1> QED BY <1>1, <1>2, <1>4, <1>5, <1>6, <1>7 DEF Commanding, Failures

\* No pod waits for a Secret that is missing.
LEMMA WantedStep ==
  ASSUME IInv, Next, Unfailed
  PROVE  WantedThere'
<1> Types /\ OpInv /\ WantedThere /\ DeliveryInv /\ RemovalInv
  BY DEF IInv, Types, UnfailedInv, Unfailed
<1> SUFFICES ASSUME NEW i \in Ids, broker'.want[i] # "off" PROVE secret'[i] # None
  BY DEF WantedThere
<1>1. secret[i] # None
  <2>1. CASE broker.want[i] # "off" BY <2>1 DEF WantedThere
  <2>2. CASE broker.want[i] = "off"
    <3>1. Step \in {"patch", "pause"} /\ i = op.id BY <2>2, WantMoves
    <3>2. Step = "patch" => Delivering BY Placed
    <3>3. Delivering /\ Step = "patch" => secret[op.id] # None
      BY Filled DEF Applied
    <3> QED BY <3>1, <3>2, <3>3 DEF RemovalInv
  <2> QED BY <2>1, <2>2
<1>2. ASSUME secret'[i] = None PROVE FALSE
  <2>1. Operator /\ Deleting /\ i = op.id BY <1>1, <1>2, Missing
  <2>2. op.cmd = "revoke" /\ Step = "delete"
    BY <2>1, Placed DEF Deleting, IInv, UnfailedInv, Unfailed
  <2>3. broker.want[op.id] = "off" BY <2>2 DEF RemovalInv
  <2> QED BY <2>1, <2>3 DEF Deleting
<1> QED BY <1>2

\* The token of a commission stays out of every Secret.
LEMMA CommissionStep ==
  ASSUME IInv, Next, Unfailed
  PROVE  CommissionInv'
<1> /\ Types /\ OpInv /\ OldInv /\ PodsInv /\ DeliveryInv /\ CommissionInv /\ FreshInv
  BY DEF IInv, Types, UnfailedInv, Unfailed
<1>1. CASE Operator
  <2>1. CASE Refusing \/ Reporting
    BY <2>1, Ending1 DEF Refusing, Reporting, Ended, CommissionInv
  <2>2. CASE Starting BY <2>2 DEF Starting, CommissionInv
  <2>3. CASE Onto /\ op.cmd # "commission" BY <2>3 DEF Onto, CommissionInv
  <2>4. CASE Onto /\ ~GivenUp /\ op.cmd = "commission"
    <3>1. /\ Step \in {"mint", "return"} /\ Step' # "mint" /\ op'.id = op.id /\ op.id \in Ids
          /\ op'.cmd = op.cmd
      BY <2>4, Afters DEF Onto, OpInv
    <3>2. CASE Step = "mint"
      <4>1. Issuing BY <1>1, <2>4, <3>2, OnOrOff
      <4>2. Minting BY <2>4, <3>2 DEF CommissionInv, Minting
      <4>3. op'.token = Minted /\ secret' = secret BY <4>1 DEF Issuing, Kept
      <4> QED BY <3>1, <4>2, <4>3, Unseen DEF CommissionInv
    <3>3. CASE Step = "return"
      <4>1. Revoking BY <1>1, <2>4, <3>3, OnOrOff DEF Ends1
      <4>2. Fresh /\ secret' = secret BY <2>4, <4>1 DEF Revoking, Kept, Onward, GivenUp
      <4> QED BY <2>4, <3>1, <4>2 DEF CommissionInv, Fresh
    <3> QED BY <3>1, <3>2, <3>3
  <2> QED BY <1>1, <2>1, <2>2, <2>3, <2>4, UnfailedMoves
<1>2. CASE RenewalActions
  <2>1. op' = op /\ Step' = Step /\ Renewing BY <1>2, RenewalMoves, Waiting
  <2>2. CASE Projecting
    <3>1. PICK i \in Group :
            /\ i \in renewal.due \ renewal.done
            /\ renewal.fresh[i] = MintedFor(i) /\ MintedFor(i) \in Token
            /\ secret'[i] = [token |-> MintedFor(i), session |-> session]
            /\ \A j \in Ids \ {i} : secret'[j] = secret[j]
      BY <2>2, Replacing
    <3>2. MintedFor(i) # NoToken BY <3>1 DEF Token, NoToken
    <3>3. MintedFor(i) # op.token
      <4>1. Held(i) BY <2>2, <3>1, <3>2 DEF Held, Projecting
      <4> QED BY <3>1, <4>1 DEF FreshInv
    <3>4. op.cmd = "commission" => op.id \in Ids BY DEF OpInv
    <3> QED BY <2>1, <3>1, <3>3, <3>4 DEF CommissionInv
  <2>3. CASE ~Projecting
    <3>1. secret' = secret
      BY <2>1, <2>3 DEF Renewing, Waking, Observing, Choosing, Continuing, Issuing1, Returning, Kept
    <3> QED BY <2>1, <3>1 DEF CommissionInv
  <2> QED BY <2>2, <2>3
<1>3. CASE Surroundings
  <2>1. UNCHANGED <<op, secret>>
    BY <1>3 DEF Surroundings, Roll, Sync, RollWgcf, Ages, Expires, SessionMoves, cluster
  <2> QED BY <2>1, Waiting DEF CommissionInv
<1> QED BY <1>1, <1>2, <1>3, Splitting

\* What a renewal replaced is not what it had read, nor mounted once it was found
\* consumed.
LEMMA DoneStep ==
  ASSUME IInv, Next, Unfailed
  PROVE  DoneInv'
<1> Types /\ OpInv /\ DeliveryInv /\ FreshInv /\ DoneInv
  BY DEF IInv, Types, UnfailedInv, Unfailed
<1>0. ASSUME \A i \in renewal'.done : secret'[i].token # renewal'.seen[i].token
      PROVE  DoneInv'
  <2> SUFFICES ASSUME NEW i \in renewal'.done, Step1' = "retire"
               PROVE  broker'.mount[i] # renewal'.seen[i].token
    BY <1>0 DEF DoneInv
  <2>1. CASE RenewalActions
    <3>1. /\ Consumed /\ UNCHANGED <<broker, secret>>
          /\ renewal'.seen = renewal.seen /\ renewal'.done = renewal.done
      BY <2>1, Following1
    <3>2. i \in Group /\ secret[i].token # renewal.seen[i].token
      BY <3>1, Replacements DEF DoneInv
    <3> QED BY <3>1, <3>2 DEF Consumed
  <2>2. CASE UNCHANGED renewal
    <3>1. Step1 = "retire" /\ i \in renewal.done BY <2>2 DEF Step1
    <3>2. /\ i \in Ids /\ renewal.seen[i].token \in Token
          /\ secret[i].token # renewal.seen[i].token /\ broker.mount[i] # renewal.seen[i].token
      BY <3>1, Replacements DEF DoneInv
    <3>3. renewal.seen[i].token # NoToken BY <3>2 DEF Token, NoToken
    <3> QED BY <2>2, <3>2, <3>3, PodMoves
  <2> QED BY <2>1, <2>2, Splitting, OperatorMoves, Around
<1>1. CASE Operator
  <2>1. renewal' = renewal BY <1>1, OperatorMoves
  <2> SUFFICES ASSUME NEW i \in renewal.done PROVE secret'[i].token # renewal.seen[i].token
    BY <1>0, <2>1
  <2>2. /\ i \in Group /\ i \in Ids /\ renewal.seen[i].token # NoToken
        /\ secret[i].token # renewal.seen[i].token
    BY Replacements DEF DoneInv, Token, NoToken
  <2>3. CASE Writing
    <3>1. Step = "apply" /\ Delivering BY <2>3, Written DEF Writing
    <3>2. i = op.id => renewal.seen[i].token # op.token
      BY <2>2, <3>1, Written DEF DeliveryInv
    <3> QED BY <2>2, <2>3, <3>2, Secrets
  <2>4. CASE Deleting
    BY <2>2, <2>4, Secrets DEF None
  <2>5. CASE secret' = secret BY <2>2, <2>5
  <2> QED BY <1>1, <2>3, <2>4, <2>5, SecretMoves, OperatorMoves
          DEF Commanding, Passing, Reading, Refusing, Issuing, Revoking, Failures, Waited, Setting,
              SettingWgcf, Reporting, Starting, Kept
<1>2. CASE RenewalActions
  <2>1. Renewing BY <1>2, RenewalMoves
  <2>2. CASE renewal'.done = {} BY <1>0, <2>2
  <2>3. CASE renewal' = Asleep BY <2>2, <2>3, AtRest
  <2>4. CASE Projecting
    <3>1. PICK i \in Group :
            /\ i \in Ids /\ i \in renewal.due \ renewal.done /\ secret[i] = renewal.seen[i]
            /\ renewal.fresh[i] = MintedFor(i) /\ MintedFor(i) \in Token
            /\ secret'[i] = [token |-> MintedFor(i), session |-> session]
            /\ \A j \in Ids \ {i} : secret'[j] = secret[j]
            /\ \/ /\ Unspent /\ Step1' = "project"
                  /\ renewal'.seen = renewal.seen /\ renewal'.due = renewal.due
                  /\ renewal'.done = renewal.done \cup {i} /\ renewal'.fresh = renewal.fresh
               \/ Faulty /\ (renewal' = Asleep \/ Onto1)
      BY <2>4, Replacing
    <3>2. renewal'.seen = renewal.seen /\ renewal'.done = renewal.done \cup {i}
      BY <3>1 DEF Faulty, Unfailed
    <3>3. MintedFor(i) # renewal.seen[i].token
      <4>1. MintedFor(i) # NoToken BY <3>1 DEF Token, NoToken
      <4>2. Held(i) BY <2>4, <3>1, <4>1 DEF Held, Projecting
      <4> QED BY <3>1, <4>2 DEF FreshInv
    <3>4. \A j \in renewal.done : j \in Ids \ {i} /\ secret[j].token # renewal.seen[j].token
      BY <3>1, Replacements DEF DoneInv
    <3> QED BY <1>0, <3>1, <3>2, <3>3, <3>4
  <2>5. CASE (Continuing \/ Issuing1) /\ renewal' # Asleep
    <3>1. renewal'.seen = renewal.seen /\ renewal'.done = renewal.done /\ secret' = secret
      BY <2>5 DEF Continuing, Issuing1, Onto1, Kept
    <3> QED BY <1>0, <3>1 DEF DoneInv
  <2> QED BY <2>1, <2>2, <2>3, <2>4, <2>5 DEF Renewing, Waking, Observing, Choosing, Returning
<1>3. CASE Surroundings
  BY <1>0, <1>3, Around DEF DoneInv
<1> QED BY <1>1, <1>2, <1>3, Splitting

\* GitHub goes on accepting what a renewal has still to project.
LEMMA FreshLiveStep ==
  ASSUME IInv, Next, Unfailed
  PROVE  FreshLive'
<1> /\ Types /\ FreshInv /\ FreshLive /\ RenewalInv /\ renewal \in Renewal /\ Group \subseteq Ids
  BY DEF IInv, Types, UnfailedInv, Unfailed, RenewalInv, Group, Ids
<1>1. CASE Operator
  <2>1. renewal' = renewal BY <1>1, OperatorMoves
  <2> SUFFICES ASSUME NEW i \in Group, renewal.fresh[i] # NoToken, i \notin renewal.done
               PROVE  renewal.fresh[i] \in live'
    BY <2>1 DEF FreshLive
  <2>2. renewal.fresh[i] \in live BY DEF FreshLive
  <2>3. renewal.fresh[i] \notin {op.token, op.prior} BY DEF FreshInv, Held, Unfailed
  <2>4. CASE Revoking
    <3>1. Step \in Ends1 BY <2>4 DEF Revoking
    <3>2. Ends(Step) \in {op.token, op.prior} BY <3>1 DEF Ends, Ends1
    <3>3. live' \in {live, live \ {Ends(Step)}} BY <2>4 DEF Revoking
    <3> QED BY <2>2, <2>3, <3>2, <3>3
  <2>5. CASE ~Revoking
    <3>1. live \subseteq live' BY <1>1, <2>5, Ending2
    <3> QED BY <2>2, <3>1
  <2> QED BY <2>4, <2>5
<1>2. CASE RenewalActions
  <2>1. Renewing BY <1>2, RenewalMoves
  <2>2. CASE Waking \/ renewal' = Asleep BY <2>2, AtRest DEF Waking, FreshLive
  <2>3. CASE Observing \/ Choosing
    <3>1. renewal'.fresh = renewal.fresh /\ renewal.done = {} /\ live' = live
      BY <2>3, Replacements DEF Observing, Choosing
    <3> QED BY <3>1 DEF FreshLive
  <2>4. CASE Continuing /\ renewal' # Asleep
    <3>1. renewal'.fresh = renewal.fresh /\ renewal'.done = renewal.done /\ live' = live
      BY <2>4 DEF Continuing, Onto1
    <3> QED BY <3>1 DEF FreshLive
  <2>5. CASE Issuing1
    <3>1. PICK j \in Group :
            /\ live' = live \cup {MintedFor(j)}
            /\ renewal'.fresh = [renewal.fresh EXCEPT ![j] = MintedFor(j)]
      BY <2>5 DEF Issuing1
    <3>2. renewal.fresh \in [Group -> TokenOrNone] /\ renewal'.done = renewal.done
      BY <2>5 DEF Renewal, Issuing1
    <3>3. \A i \in Group : renewal'.fresh[i] = IF i = j THEN MintedFor(j) ELSE renewal.fresh[i]
      BY <3>1, <3>2
    <3> QED BY <3>1, <3>2, <3>3 DEF FreshLive
  <2>6. CASE Projecting /\ renewal' # Asleep
    <3>1. /\ live' = live /\ renewal'.fresh = renewal.fresh /\ renewal.done \subseteq renewal'.done
      BY <2>6 DEF Projecting, Onto1
    <3> QED BY <3>1 DEF FreshLive
  <2> QED BY <2>1, <2>2, <2>3, <2>4, <2>5, <2>6 DEF Renewing, Returning
<1>3. CASE Surroundings
  <2>1. UNCHANGED <<op, renewal, secret, spent>> /\ (UNCHANGED live \/ Quiet) BY <1>3, Around
  <2>2. CASE UNCHANGED live BY <2>1, <2>2 DEF FreshLive
  <2>3. CASE Quiet BY <2>1, <2>3, AtRest DEF Quiet, FreshLive
  <2> QED BY <2>1, <2>2, <2>3
<1> QED BY <1>1, <1>2, <1>3, Splitting

\* What the Secret and the pods of a delivery hold is ended by nobody.
LEMMA Keeping ==
  ASSUME IInv, Next, Unfailed, Delivering, op.id \in Group, Step \in Applied, NEW t \in live,
         t = secret[op.id].token \/ (Carried /\ t = broker.mount[op.id])
  PROVE  t \in live'
<1> /\ Types /\ OpInv /\ DeliveryInv /\ MountInv /\ FreshInv /\ DoneInv /\ PodsInv
    /\ op.id \in Ids /\ spent.faults = 0
  BY DEF IInv, Types, UnfailedInv, Unfailed, Group, Ids
<1>1. t \in Token /\ t # NoToken BY DEF Types, TypeOK, Token, NoToken
<1>2. t.id = op.id
  <2>1. CASE t = secret[op.id].token
    <3>1. secret[op.id] # None BY <1>1, <2>1 DEF None
    <3> QED BY <2>1, <3>1 DEF Types, TypeOK
  <2>2. CASE t = broker.mount[op.id] BY <1>1, <2>2 DEF PodsInv
  <2> QED BY <2>1, <2>2
<1>3. t # op.prior BY DEF DeliveryInv, MountInv
<1>4. CASE Operator
  <2>1. CASE Revoking
    <3>1. Step = "retire" BY <2>1 DEF Revoking, Ends1, Applied
    <3>2. Ends(Step) = op.prior BY <3>1 DEF Ends
    <3>3. live' \in {live, live \ {Ends(Step)}} BY <2>1 DEF Revoking
    <3> QED BY <1>3, <3>2, <3>3
  <2>2. CASE ~Revoking BY <1>4, <2>2, Ending2
  <2> QED BY <2>1, <2>2
<1>5. CASE RenewalActions
  <2>1. Renewing BY <1>5, RenewalMoves
  <2>2. CASE Returning
    <3>1. ASSUME NEW i \in renewal.done, Step1 = "retire" PROVE t # renewal.seen[i].token
      <4>1. renewal.seen[i].token.id = i BY Replacements
      <4>2. secret[i].token # renewal.seen[i].token /\ broker.mount[i] # renewal.seen[i].token
        BY <3>1 DEF DoneInv
      <4> QED BY <1>2, <4>1, <4>2
    <3>2. ASSUME NEW i \in Unprojected PROVE t # renewal.fresh[i]
      <4>1. /\ i \in Group /\ i \notin renewal.done /\ renewal.fresh[i] # NoToken
            /\ renewal.fresh[i].id = i
        BY Replacements
      <4>2. Held(i) BY <4>1 DEF Held
      <4>3. renewal.fresh[i] # secret[i].token /\ renewal.fresh[i] # broker.mount[i]
        BY <4>1, <4>2 DEF FreshInv
      <4> QED BY <1>2, <4>1, <4>3
    <3> QED BY <2>2, <3>1, <3>2 DEF Returning
  <2>3. CASE ~Returning
    <3>1. live \subseteq live'
      BY <2>1, <2>3 DEF Renewing, Waking, Observing, Choosing, Continuing, Issuing1, Projecting
    <3> QED BY <3>1
  <2> QED BY <2>2, <2>3
<1>6. CASE Surroundings
  <2>1. ~Quiet BY IdleCommand DEF Quiet, Delivering
  <2> QED BY <1>6, <2>1, Around
<1> QED BY <1>4, <1>5, <1>6, Splitting

\* So GitHub goes on accepting it.
LEMMA CarriedLiveStep ==
  ASSUME IInv, Next, Unfailed
  PROVE  CarriedLive'
<1> /\ Types /\ OpInv /\ DeliveryInv /\ CarriedLive /\ FreshLive /\ Group \subseteq Ids
  BY DEF IInv, Types, UnfailedInv, Unfailed, Group, Ids
<1>1. ASSUME Delivering', op'.id \in Group, Step' \in Applied
      PROVE  secret'[op'.id].token \in live'
  <2>1. CASE Operator /\ Onto /\ ~GivenUp
    <3>1. Delivering /\ op'.id = op.id /\ op.id \in Group /\ op.id \in Ids
      BY <1>1, <2>1, Afters DEF Onto
    <3>2. Step \in Applied \cup {"apply"} BY <1>1, <2>1, <3>1, BrokerDelivers DEF Applied
    <3>3. CASE Step = "apply"
      <4>1. Writing BY <2>1, <3>3, OnOrOff
      <4>2. secret'[op.id].token = op.token BY <4>1, Written, Secrets
      <4>3. op.token \in live BY <3>1, <3>3, <4>1, Written DEF DeliveryInv
      <4> QED BY <3>1, <4>1, <4>2, <4>3 DEF Writing
    <3>4. CASE Step \in Applied
      <4>1. ~Writing /\ ~Deleting BY <3>4 DEF Writing, Deleting, Applied
      <4>2. secret' = secret
        BY <2>1, <4>1, OperatorMoves
           DEF Commanding, Passing, Reading, Refusing, Issuing, Revoking, Failures, Waited, Setting,
               SettingWgcf, Reporting, Starting, Kept
      <4>3. secret[op.id].token \in live BY <3>1, <3>4 DEF CarriedLive
      <4> QED BY <3>1, <3>4, <4>2, <4>3, Keeping
    <3> QED BY <3>2, <3>3, <3>4
  <2>2. CASE Operator /\ ~(Onto /\ ~GivenUp)
    <3>1. CASE GivenUp BY <1>1, <3>1, Stopping DEF GivenUp
    <3>2. CASE Starting BY <1>1, <3>2 DEF Starting, Applied
    <3> QED BY <2>2, <3>1, <3>2, OnOrOff
  <2>3. CASE RenewalActions \/ Surroundings
    <3>1. UNCHANGED op BY <2>3, RenewalMoves, Around
    <3>2. Step' = Step /\ Delivering' = Delivering /\ op' = op BY <3>1, Waiting
    <3>3. secret[op.id].token \in live BY <1>1, <3>2 DEF CarriedLive
    <3>4. CASE secret'[op.id].token = secret[op.id].token
      BY <1>1, <3>2, <3>3, <3>4, Keeping
    <3>5. CASE secret'[op.id].token # secret[op.id].token
      <4>1. RenewalActions /\ Renewing BY <2>3, <3>5, Around, RenewalMoves
      <4>2. Projecting
        BY <3>5, <4>1 DEF Renewing, Waking, Observing, Choosing, Continuing, Issuing1, Returning, Kept
      <4>3. PICK i \in Group :
              /\ i \in Ids /\ i \in renewal.due \ renewal.done
              /\ renewal.fresh[i] = MintedFor(i) /\ MintedFor(i) \in Token
              /\ secret'[i] = [token |-> MintedFor(i), session |-> session]
              /\ \A j \in Ids \ {i} : secret'[j] = secret[j]
        BY <4>2, Replacing
      <4>4. i = op.id /\ secret'[op.id].token = MintedFor(i)
        BY <1>1, <3>2, <3>5, <4>3
      <4>5. MintedFor(i) \in live
        <5>1. MintedFor(i) # NoToken BY TickTokens
        <5> QED BY <4>3, <5>1 DEF FreshLive
      <4>6. live' = live BY <4>2 DEF Projecting
      <4> QED BY <3>2, <4>4, <4>5, <4>6
    <3> QED BY <3>4, <3>5
  <2> QED BY <2>1, <2>2, <2>3, Splitting
<1>2. ASSUME Carried' PROVE broker'.mount[op'.id] \in live'
  <2>1. /\ op'.id = op.id /\ Delivering /\ op.id \in Group /\ Step \in Applied
        /\ \/ Carried /\ broker'.mount[op.id] = broker.mount[op.id]
           \/ broker'.mount[op.id] = secret[op.id].token
    BY <1>2, Carrying
  <2>2. secret[op.id].token \in live /\ (Carried => broker.mount[op.id] \in live)
    BY <2>1 DEF CarriedLive
  <2>3. CASE broker'.mount[op.id] = secret[op.id].token BY <2>1, <2>2, <2>3, Keeping
  <2>4. CASE Carried /\ broker'.mount[op.id] = broker.mount[op.id]
    BY <2>1, <2>2, <2>4, Keeping
  <2> QED BY <2>1, <2>3, <2>4
<1> QED BY <1>1, <1>2 DEF CarriedLive

\* A Secret whose token lives still holds one after the step, unless the running
\* revocation is about to delete it.
LEMMA LiveNext ==
  ASSUME \A i \in Ids : secret'[i] # None =>
           \/ secret'[i].token \in live' \cup aging'
           \/ /\ op'.cmd = "revoke" /\ op'.id = i /\ op'.token = secret'[i].token
              /\ Step' \in {"unpatch", "rollout", "delete"}
  PROVE  SecretsLive'
BY DEF SecretsLive, Condemned

\* A step of the operator ends no token that a Secret keeps.
LEMMA LiveOperator ==
  ASSUME IInv, Next, Unfailed, Operator
  PROVE  SecretsLive'
<1> /\ Types /\ OpInv /\ OldInv /\ DeliveryInv /\ SecretsLive /\ CommissionInv /\ UNCHANGED aging
    /\ op.failing = FALSE
  BY OperatorMoves DEF IInv, Types, UnfailedInv, Unfailed
<1>1. ASSUME Step \notin {"unpatch", "rollout", "delete"}, NEW i \in Ids, secret[i] # None
      PROVE  secret[i].token \in live \cup aging
  BY <1>1 DEF SecretsLive, Condemned
<1>2. CASE Refusing \/ Reporting \/ Starting
  <2>1. UNCHANGED <<secret, live>> BY <1>2 DEF Refusing, Reporting, Starting, Kept
  <2>2. Step \notin {"unpatch", "rollout", "delete"}
    <3>1. op.cmd = "idle" => Step = "none" BY Steps
    <3> QED BY <1>2, <3>1 DEF Refusing, Reporting, Starting
  <2> QED BY <1>1, <2>1, <2>2, LiveNext
<1>3. CASE Onto /\ ~GivenUp
  <2>1. op'.cmd = op.cmd /\ op'.id = op.id /\ op.id \in Ids
    BY <1>3, Afters, Steps DEF Onto, OpInv
  <2>2. CASE Revoking
    <3>1. Step \in {"revoke", "return", "retire"}
      BY <2>2, Placed DEF Revoking, Ends1
    <3>2. /\ live' = live \ {Ends(Step)} /\ Fresh /\ UNCHANGED secret
      BY <1>3, <2>2 DEF Revoking, Onward, GivenUp, Unfailed, Faulty, Kept
    <3>3. ASSUME NEW i \in Ids, secret[i] # None
          PROVE  \/ secret[i].token \in live' \cup aging
                 \/ /\ op'.cmd = "revoke" /\ op'.id = i /\ op'.token = secret[i].token
                    /\ Step' \in {"unpatch", "rollout", "delete"}
      <4>1. secret[i].token \in live \cup aging BY <1>1, <3>1, <3>3
      <4>2. secret[i].token # NoToken /\ secret[i].token.id = i
        BY <3>3 DEF Types, TypeOK, Token, NoToken
      <4>3. i # op.id => secret[i].token \notin {op.token, op.prior}
        BY <4>2 DEF OpInv
      <4>4. Ends(Step) \in {op.token, op.prior} BY <3>1 DEF Ends
      <4>5. CASE i # op.id BY <3>2, <4>1, <4>3, <4>4, <4>5
      <4>6. CASE i = op.id /\ Step = "revoke"
        <5>1. op.cmd = "revoke" BY <4>6, Placed
        <5>2. Step' \in {"unpatch", "delete"} BY <1>3, <4>6, <5>1, Afters
        <5>3. Ends(Step) = op.token BY <4>6 DEF Ends
        <5> QED BY <2>1, <3>2, <4>1, <4>6, <5>1, <5>2, <5>3 DEF Fresh
      <4>7. CASE i = op.id /\ Step = "return"
        <5>1. op.cmd = "commission" BY <4>7, Placed
        <5>2. Ends(Step) = op.token BY <4>7 DEF Ends
        <5>3. secret[i].token # op.token BY <4>2, <4>7, <5>1 DEF CommissionInv
        <5> QED BY <3>2, <4>1, <5>2, <5>3
      <4>8. CASE i = op.id /\ Step = "retire"
        <5>1. Delivering BY <4>8, Placed
        <5>2. Ends(Step) = op.prior BY <4>8 DEF Ends
        <5>3. secret[i].token # op.prior
          BY <4>8, <5>1 DEF DeliveryInv, Applied
        <5> QED BY <3>2, <4>1, <5>2, <5>3
      <4> QED BY <3>1, <4>5, <4>6, <4>7, <4>8
    <3> QED BY <3>2, <3>3, LiveNext
  <2>3. CASE Writing
    <3>1. Step = "apply" /\ Delivering /\ live' = live BY <2>3, Written DEF Writing
    <3>2. op.token \in live BY <2>3, <3>1, Written DEF DeliveryInv
    <3> QED BY <1>1, <2>1, <2>3, <3>1, <3>2, Secrets, LiveNext
  <2>4. CASE Deleting
    <3>1. live' = live BY <2>4 DEF Deleting
    <3>2. \A i \in Ids \ {op.id} : secret[i] # None => secret[i].token \in live \cup aging
      BY DEF SecretsLive, Condemned
    <3> QED BY <2>1, <2>4, <3>1, <3>2, Secrets, LiveNext
  <2>5. CASE Passing \/ Reading \/ Issuing \/ Setting \/ SettingWgcf
    <3>1. live \subseteq live' /\ secret' = secret
      BY <2>5 DEF Passing, Reading, Issuing, Setting, SettingWgcf, Kept
    <3>2. ASSUME NEW i \in Ids, Condemned(i)
          PROVE  /\ op'.cmd = "revoke" /\ op'.id = i /\ op'.token = secret[i].token
                 /\ Step' \in {"unpatch", "rollout", "delete"}
      <4>1. op.cmd = "revoke" /\ op.id = i /\ op.token = secret[i].token
            /\ Step \in {"unpatch", "rollout", "delete"}
        BY <3>2 DEF Condemned
      <4>2. Passing \/ Setting
        BY <2>5, <4>1 DEF Reading, Issuing, SettingWgcf
      <4>3. Fresh BY <1>3, <4>2 DEF Passing, Setting, Onward, GivenUp
      <4>4. Step # "delete" BY <4>2 DEF Passing, Setting
      <4>5. Step' \in {"rollout", "delete"} BY <1>3, <4>1, <4>4, Afters
      <4> QED BY <2>1, <4>1, <4>3, <4>5 DEF Fresh
    <3> QED BY <3>1, <3>2, LiveNext DEF SecretsLive
  <2> QED BY <1>3, <2>2, <2>3, <2>4, <2>5, OnOrOff
<1> QED BY <1>2, <1>3, UnfailedMoves

\* Neither does any other step.
LEMMA LiveStep ==
  ASSUME IInv, Next, Unfailed
  PROVE  SecretsLive'
<1> /\ Types /\ OpInv /\ SecretsLive /\ FreshInv /\ FreshLive /\ DoneInv /\ spent.faults = 0
  BY DEF IInv, Types, UnfailedInv, Unfailed
<1>1. CASE RenewalActions
  <2>1. Renewing /\ op' = op /\ Step' = Step /\ aging' = aging BY <1>1, RenewalMoves, Waiting
  <2>2. CASE Returning
    <3>1. secret' = secret BY <2>2 DEF Returning, Kept
    <3>2. ASSUME NEW i \in Ids, secret[i] # None, secret[i].token \in live
          PROVE  secret[i].token \in live'
      <4>1. secret[i].token.id = i BY <3>2 DEF Types, TypeOK
      <4>2. secret[i].token \notin {renewal.seen[j].token : j \in renewal.done}
        <5>1. ASSUME NEW j \in renewal.done PROVE secret[i].token # renewal.seen[j].token
          <6>1. renewal.seen[j].token.id = j BY Replacements
          <6>2. secret[j].token # renewal.seen[j].token BY DEF DoneInv
          <6> QED BY <4>1, <6>1, <6>2
        <5> QED BY <5>1
      <4>3. secret[i].token \notin {renewal.fresh[j] : j \in Unprojected}
        <5>1. ASSUME NEW j \in Unprojected PROVE secret[i].token # renewal.fresh[j]
          <6>1. /\ renewal.fresh[j].id = j /\ renewal.fresh[j] # NoToken /\ j \notin renewal.done
                /\ j \in Group
            BY Replacements
          <6>2. Held(j) BY <6>1 DEF Held
          <6>3. secret[j].token # renewal.fresh[j] BY <6>1, <6>2 DEF FreshInv
          <6> QED BY <4>1, <6>1, <6>3
        <5> QED BY <5>1
      <4> QED BY <2>2, <3>2, <4>2, <4>3 DEF Returning
    <3> QED BY <2>1, <3>1, <3>2, LiveNext DEF SecretsLive, Condemned
  <2>3. CASE Projecting
    <3>1. PICK i \in Group :
            /\ i \in Ids /\ i \in renewal.due \ renewal.done
            /\ renewal.fresh[i] = MintedFor(i) /\ MintedFor(i) \in Token
            /\ secret'[i] = [token |-> MintedFor(i), session |-> session]
            /\ \A j \in Ids \ {i} : secret'[j] = secret[j]
      BY <2>3, Replacing
    <3>2. live' = live BY <2>3 DEF Projecting
    <3>3. MintedFor(i) \in live
      <4>1. MintedFor(i) # NoToken BY <3>1 DEF Token, NoToken
      <4> QED BY <3>1, <4>1 DEF FreshLive
    <3> QED BY <2>1, <3>1, <3>2, <3>3, LiveNext DEF SecretsLive, Condemned
  <2>4. CASE Waking \/ Observing \/ Choosing \/ Continuing \/ Issuing1
    <3>1. live \subseteq live' /\ secret' = secret
      BY <2>4 DEF Waking, Observing, Choosing, Continuing, Issuing1, Kept
    <3> QED BY <2>1, <3>1, LiveNext DEF SecretsLive, Condemned
  <2> QED BY <2>1, <2>2, <2>3, <2>4 DEF Renewing
<1>2. CASE Surroundings
  <2>1. /\ UNCHANGED <<secret, op>> /\ live \cup aging \subseteq live' \cup aging'
    BY <1>2, Around
  <2> QED BY <2>1, Waiting, LiveNext DEF SecretsLive, Condemned
<1> QED BY <1>1, <1>2, LiveOperator, Splitting

\* Without failed calls nothing of this is lost.
LEMMA UnfailedStep ==
  ASSUME IInv, Next
  PROVE  UnfailedInv'
<1> Types BY DEF IInv
<1>1. spent'.faults = 0 => spent.faults = 0 BY FaultsGrow
<1>2. Unfailed => op'.failing = FALSE
  <2>1. CASE Operator BY <2>1, UnfailedMoves
  <2>2. CASE UNCHANGED op BY <2>2 DEF IInv, UnfailedInv, Unfailed
  <2> QED BY <2>1, <2>2, RenewalMoves, Around, Splitting
<1>3. Unfailed => SecretsLive' /\ WantedThere' /\ CommissionInv' /\ FreshLive' /\ DoneInv' /\ CarriedLive'
  BY LiveStep, WantedStep, CommissionStep, FreshLiveStep, DoneStep, CarriedLiveStep
<1> QED BY <1>1, <1>2, <1>3 DEF UnfailedInv, Unfailed

-----------------------------------------------------------------------------
(* The theorems.                                                           *)

LEMMA Starts ==
  ASSUME Init
  PROVE  IInv
<1>1. PICK ready \in BOOLEAN :
        /\ live = IF ready THEN {Start(i) : i \in Group} ELSE {}
        /\ secret = [i \in Ids |-> IF ready /\ i \in Group
                                     THEN [token |-> Start(i), session |-> 1] ELSE None]
        /\ LET mode == [i \in Ids |-> IF ready /\ i \in Group THEN "on" ELSE "off"]
           IN broker = [want |-> mode, has |-> mode, rolled |-> TRUE,
                        stamp |-> [i \in Ids |-> secret[i].token],
                        mount |-> [i \in Ids |-> secret[i].token]]
        /\ LET serves == [i \in Workflows |-> IF ready THEN "on" ELSE "off"]
           IN wgcf = [want |-> serves, has |-> serves, rolled |-> TRUE]
  BY DEF Init
<1>2. /\ aging = {} /\ session = 1 /\ op = Idle /\ renewal = Asleep /\ removed = {}
      /\ spent = [commands |-> 0, ticks |-> 0, faults |-> 0]
  BY DEF Init
<1>3. ASSUME NEW i \in Group
      PROVE  /\ Start(i) \in Token /\ Start(i).id = i /\ Start(i).from = "start" /\ Start(i) # NoToken
             /\ i \in Ids /\ i \notin Plain
  BY IdentitiesAssumption DEF Start, Token, NoToken, Group, Ids
<1>4. \A i \in Ids : \/ /\ i \in Group /\ ready /\ secret[i].token = Start(i)
                        /\ secret[i] \in [token : Token, session : {1}] /\ secret[i] # None
                     \/ ~(i \in Group /\ ready) /\ secret[i] = None
  <2> SUFFICES ASSUME NEW i \in Ids
               PROVE  \/ /\ i \in Group /\ ready /\ secret[i].token = Start(i)
                         /\ secret[i] \in [token : Token, session : {1}] /\ secret[i] # None
                      \/ ~(i \in Group /\ ready) /\ secret[i] = None
    OBVIOUS
  <2>1. CASE i \in Group /\ ready
    <3>1. secret[i] = [token |-> Start(i), session |-> 1] BY <1>1, <2>1
    <3>2. Start(i) \in Token /\ Start(i) # NoToken BY <1>3, <2>1
    <3>3. secret[i].token = Start(i) BY <3>1
    <3>4. secret[i] # None BY <3>2, <3>3 DEF None
    <3> QED BY <2>1, <3>1, <3>2, <3>3, <3>4
  <2>2. CASE ~(i \in Group /\ ready) BY <1>1, <2>2
  <2> QED BY <2>1, <2>2
<1>5. /\ \A i \in Ids : /\ broker.want[i] = IF ready /\ i \in Group THEN "on" ELSE "off"
                        /\ broker.has[i] = IF ready /\ i \in Group THEN "on" ELSE "off"
      /\ broker.has = broker.want
      /\ \A i \in Workflows : /\ wgcf.want[i] = IF ready THEN "on" ELSE "off"
                              /\ wgcf.has[i] = IF ready THEN "on" ELSE "off"
      /\ wgcf.has = wgcf.want
  BY <1>1
<1>6. broker \in Broker /\ wgcf \in Wgcf
  <2>1. [i \in Ids |-> secret[i].token] \in [Ids -> TokenOrNone]
    <3>1. \A i \in Ids : secret[i].token \in Token \cup {NoToken} BY <1>4 DEF None
    <3> QED BY <3>1 DEF TokenOrNone
  <2> QED BY <1>1, <2>1 DEF Broker, Wgcf, Modes
<1>7. /\ Step = "none" /\ ~Delivering /\ ~Withdrawing /\ op.cmd = "idle" /\ op.todo = << >>
      /\ op.failing = FALSE /\ op.token = NoToken /\ op.prior = NoToken /\ ~Minting /\ OpInv
  BY <1>2, IdleCommand DEF Step, Delivering, Withdrawing, Minting, OpInv
<1>8. RenewalInv /\ renewal.todo = << >> /\ renewal.done = {}
      /\ \A i \in Group : renewal.seen[i] = None /\ renewal.fresh[i] = NoToken
  <2>1. Step1 = "none" /\ renewal.todo = << >> BY <1>2, AtRest DEF Step1
  <2>2. renewal.todo \notin Looking BY <2>1 DEF Looking
  <2> QED BY <1>2, <2>1, <2>2, AtRest DEF RenewalInv
<1>9. TypeOK
  <2>1. live \subseteq Token /\ aging \subseteq Token BY <1>1, <1>2, <1>3
  <2>2. session \in 1 .. Sessions BY <1>2, IdentitiesAssumption
  <2>3. \A i \in Ids : secret[i] = None \/ (secret[i].token \in Token /\ secret[i].token.id = i)
    <3> SUFFICES ASSUME NEW i \in Ids, secret[i] # None
                 PROVE  secret[i].token \in Token /\ secret[i].token.id = i
      OBVIOUS
    <3>1. i \in Group /\ secret[i].token = Start(i) BY <1>4
    <3> QED BY <3>1, <1>3
  <2>4. secret \in [Ids -> [token : Token \cup {NoToken}, session : 0 .. session]]
    <3>1. \A i \in Ids : secret[i] \in [token : Token \cup {NoToken}, session : 0 .. session]
      <4>1. None \in [token : Token \cup {NoToken}, session : 0 .. session] BY <1>2 DEF None
      <4>2. [token : Token, session : {1}] \subseteq [token : Token \cup {NoToken}, session : 0 .. session]
        BY <1>2
      <4> QED BY <1>4, <4>1, <4>2
    <3> QED BY <1>1, <3>1
  <2> QED BY <1>2, <1>6, <1>7, <2>1, <2>2, <2>3, <2>4 DEF TypeOK, Broker, Wgcf
<1>10. Types BY <1>2, <1>6, <1>7, <1>8, <1>9 DEF Types
<1>11. CoverInv
  <2>1. Workflows \subseteq Ids BY DEF Ids
  <2> QED BY <1>5, <2>1 DEF CoverInv
<1>12. OrderInv BY <1>7 DEF OrderInv
<1>13. RemovalInv
  <2>1. Plain \subseteq Ids /\ Plain \cap Group = {} BY IdentitiesAssumption DEF Ids
  <2> QED BY <1>2, <1>5, <1>7, <2>1 DEF RemovalInv, RevokedStaysAway
<1>14. OldInv
  <2>1. \A i \in Group : Old(Start(i)) BY <1>3 DEF Old
  <2>2. \A t \in live \cup aging : Old(t) BY <1>1, <1>2, <2>1
  <2>3. \A i \in Ids : secret[i] # None => Old(secret[i].token)
    <3> SUFFICES ASSUME NEW i \in Ids, secret[i] # None PROVE Old(secret[i].token)
      OBVIOUS
    <3>1. i \in Group /\ secret[i].token = Start(i) BY <1>4
    <3> QED BY <2>1, <3>1
  <2> QED BY <1>7, <1>8, <2>2, <2>3 DEF OldInv
<1>15. ~Carried /\ DeliveryInv /\ MountInv BY <1>7 DEF Carried, DeliveryInv, MountInv
<1>16. UnfailedInv
  <2>1. SecretsLive BY <1>1, <1>4 DEF SecretsLive
  <2>2. WantedThere BY <1>4, <1>5 DEF WantedThere
  <2>3. CommissionInv /\ FreshLive /\ DoneInv /\ CarriedLive
    BY <1>7, <1>8, <1>15 DEF CommissionInv, FreshLive, DoneInv, CarriedLive
  <2> QED BY <1>7, <2>1, <2>2, <2>3 DEF UnfailedInv
<1>17. PodsInv
  <2> SUFFICES ASSUME NEW i \in Ids
               PROVE  /\ broker.mount[i] # NoToken => Old(broker.mount[i]) /\ broker.mount[i].id = i
                      /\ broker.stamp[i] # NoToken => Old(broker.stamp[i])
    BY DEF PodsInv
  <2>1. broker.mount[i] = secret[i].token /\ broker.stamp[i] = secret[i].token
    BY <1>1
  <2>2. secret[i].token # NoToken => secret[i] # None BY DEF None
  <2> QED BY <1>9, <1>14, <2>1, <2>2 DEF OldInv, TypeOK
<1>18. FreshInv BY <1>8 DEF FreshInv, Held
<1> QED BY <1>10, <1>11, <1>12, <1>13, <1>14, <1>15, <1>16, <1>17, <1>18 DEF IInv

\* Nothing changes when nothing happens.
LEMMA Stutters ==
  ASSUME IInv, UNCHANGED vars
  PROVE  IInv'
<1> UNCHANGED <<live, aging, secret, broker, wgcf, session, op, renewal, removed, spent>>
  BY DEF vars
<1>1. Step' = Step /\ Delivering' = Delivering /\ Withdrawing' = Withdrawing /\ Minting' = Minting
  BY Waiting
<1>2. Types'
  <2>1. RenewalInv' BY Waiting1 DEF IInv
  <2> QED BY <2>1 DEF IInv, Types, TypeOK, OpInv
<1>3. CoverInv' /\ OrderInv' /\ RemovalInv'
  BY <1>1 DEF IInv, CoverInv, OrderInv, RemovalInv, RevokedStaysAway
<1>4. OldInv' /\ PodsInv'
  BY <1>1 DEF IInv, OldInv, PodsInv, Old
<1>5. Step1' = Step1 /\ Carried' = Carried
  BY <1>1 DEF Step1, Carried
<1>6. DeliveryInv' /\ MountInv'
  BY <1>1, <1>5 DEF IInv, DeliveryInv, MountInv
<1>7. FreshInv'
  BY <1>5 DEF IInv, FreshInv, Held
<1>8. UnfailedInv'
  <2>1. SecretsLive' = SecretsLive BY <1>1 DEF SecretsLive, Condemned
  <2>2. FreshLive' = FreshLive /\ DoneInv' = DoneInv BY <1>5 DEF FreshLive, DoneInv
  <2>3. CarriedLive' = CarriedLive BY <1>1, <1>5 DEF CarriedLive
  <2> QED BY <1>1, <2>1, <2>2, <2>3 DEF IInv, UnfailedInv, WantedThere, CommissionInv
<1> QED BY <1>2, <1>3, <1>4, <1>6, <1>7, <1>8 DEF IInv

LEMMA Preserved ==
  ASSUME IInv, [Next]_vars
  PROVE  IInv'
<1>1. CASE UNCHANGED vars BY <1>1, Stutters
<1>2. CASE Next
  <2>1. Types' BY <1>2, TypesStep DEF IInv
  <2> QED BY <1>2, <2>1, CoverStep, OrderStep, RemovalStep, OldStep, PodsStep, DeliveryStep,
             MountStep, FreshStep, UnfailedStep DEF IInv
<1> QED BY <1>1, <1>2

\* The inductive invariant holds: types, the order in which the two deployments
\* are enabled and disabled, what a revocation has taken away, that minted
\* tokens are new, what a delivery keeps or a renewal put in its place, forced or
\* not, and what its pods mount, and, as long as no call fails, that no Secret's
\* token was ended (prototype_workflow_identity.py,
\* console_workflow_credentials.py).
THEOREM Invariant == Spec => []IInv
<1>1. Init => IInv BY Starts
<1>2. IInv /\ [Next]_vars => IInv' BY Preserved
<1> QED BY <1>1, <1>2, PTL DEF Spec

\* The broker accepts requests of a workflow only while the readiness runtime
\* serves that workflow (prototype_workflow_identity.py:1121).
THEOREM Covered == Spec => []ReadinessCovers
<1>1. IInv => ReadinessCovers BY DEF IInv, CoverInv, ReadinessCovers
<1> QED BY <1>1, Invariant, PTL

\* What was revoked is in no Secret and no pod, and, as long as no call fails,
\* no Secret holds a token that was revoked, whatever command and renewal meet
\* (console_workflow_credentials.py:367, 389).
THEOREM Revoked == Spec => []RevocationHolds
<1>1. IInv => TypeOK /\ RevokedStaysAway BY DEF IInv, Types, RemovalInv
<1>2. IInv => NoRevokedToken
  <2> SUFFICES ASSUME IInv, Quiet, spent.faults = 0, NEW i \in Ids,
                      secret[i] # None, secret[i].token \notin aging
               PROVE  secret[i].token \in live
    BY DEF NoRevokedToken
  <2>1. SecretsLive BY DEF IInv, UnfailedInv
  <2>2. ~Condemned(i) BY IdleCommand DEF Quiet, Condemned
  <2> QED BY <2>1, <2>2 DEF SecretsLive
<1>3. IInv => RevocationHolds BY <1>1, <1>2 DEF RevocationHolds
<1> QED BY <1>3, Invariant, PTL

\* A delivery to the broker is reported only when its pods mount the token that
\* was minted for it and GitHub accepts it, or the one of a renewal that replaced
\* it meanwhile, never the one it replaced; unless a call failed GitHub accepts
\* what they mount (workspace-intake-identity.md, "Success therefore proves").
THEOREM Delivered == Spec => DeliveredIsMounted
<1> DEFINE Reported ==
      LET mounted == broker.mount[op.id]
          current == secret[op.id].token
      IN /\ current = op.token => mounted = op.token /\ op.token \in live
         /\ current # op.token => current.from = "tick"
         /\ mounted = op.token \/ mounted.from = "tick"
         /\ mounted # op.prior
         /\ spent.faults = 0 => mounted \in live
<1>1. ASSUME IInv, Receipt, op.cmd = "deliver", op.id \in Group PROVE Reported
  <2>1. Step = "receipt" /\ OpInv
    BY <1>1, Steps DEF IInv, Types, Receipt, StepName
  <2>2. Delivering BY <1>1, <2>1, Placed DEF Delivering
  <2>3. Carried BY <1>1, <2>1, <2>2 DEF Carried
  <2>4. op.token # NoToken BY <1>1, <2>1, <2>2 DEF IInv, DeliveryInv, Unmounted
  <2>5. /\ secret[op.id].token = op.token => op.token \in live
        /\ secret[op.id].token # op.token => secret[op.id].token.from = "tick"
    BY <1>1, <2>1, <2>2, <2>4 DEF IInv, DeliveryInv, Applied
  <2>6. /\ secret[op.id].token = op.token => broker.mount[op.id] = op.token
        /\ broker.mount[op.id] = op.token \/ broker.mount[op.id].from = "tick"
        /\ broker.mount[op.id] # op.prior
    BY <1>1, <2>3 DEF IInv, MountInv
  <2>7. spent.faults = 0 => broker.mount[op.id] \in live
    BY <1>1, <2>3 DEF IInv, UnfailedInv, CarriedLive
  <2> QED BY <2>5, <2>6, <2>7
<1>2. IInv /\ [Next]_vars => [Receipt /\ op.cmd = "deliver" /\ op.id \in Group => Reported]_vars
  BY <1>1
<1> QED BY <1>2, Invariant, PTL DEF Spec, DeliveredIsMounted
=============================================================================
