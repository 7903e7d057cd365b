-------------------------- MODULE DevSessionProofs --------------------------
(***************************************************************************)
(* Proofs about DevSession and HostServices, for any composition, any      *)
(* number of commands in flight, failures, kills and restarts.             *)
(***************************************************************************)
EXTENDS DevSession, SequenceTheorems, FiniteSetTheorems, FunctionTheorems, TLAPS

-----------------------------------------------------------------------------
(* The invariant: commands.                                                *)

StepName == {"guard", "open", "stop", "command", "reconcile", "spawn", "note", "await",
             "unit", "close"}

\* What may be left of a profile command.
Rests(action) ==
  CASE action = "up" ->
         {<< >>, <<"close">>, <<"unit", "close">>, <<"await", "unit", "close">>,
          <<"note", "await", "unit", "close">>, <<"spawn", "note", "await", "unit", "close">>,
          <<"reconcile", "unit", "close">>, <<"command", "reconcile", "unit", "close">>,
          <<"open", "command", "reconcile", "unit", "close">>,
          <<"guard", "open", "command", "reconcile", "unit", "close">>}
    [] action = "down" ->
         {<< >>, <<"close">>, <<"unit", "close">>, <<"command", "unit", "close">>,
          <<"stop", "command", "unit", "close">>, <<"open", "stop", "command", "unit", "close">>,
          <<"guard", "open", "stop", "command", "unit", "close">>}
    [] action = "status" -> {<< >>, <<"command">>}
    [] OTHER -> {<< >>, <<"close">>, <<"command", "close">>, <<"open", "command", "close">>,
                 <<"guard", "open", "command", "close">>}

Credential == 0 .. Cardinality(Profiles) + Slots + 1

Work == [cmd : {"idle", "composition", "profile", "child"},
         action : {"none", "up", "down", "restore", "access", "smoke", "status"},
         by : Profiles \cup {"operator", "none"},
         stage : {"none", "credentials", "intent", "dispatch", "cleanup", "record"},
         todo : Seq(Profiles), cred : Credential, created : BOOLEAN, done : Seq(Profiles),
         failed : BOOLEAN, undo : BOOLEAN, spoiled : BOOLEAN, raced : BOOLEAN,
         steps : Seq(StepName), ok : BOOLEAN, spec : 0 .. 2, start : Nat]

\* A command in flight, as its code can leave it between two steps.
Orderly(c) ==
  /\ c \in Work
  /\ c.cmd = "idle" => c.steps = << >>
  /\ c.cmd \in {"profile", "child"} => c.steps # << >>
  /\ c.cmd = "profile" => ~c.undo
  /\ c.cmd = "composition" => /\ c.action \in {"up", "down", "status"}
                              /\ c.stage = "dispatch" <=> c.steps # << >>
  /\ c.steps # << >> => c.todo # << >>
  /\ c.steps \in Rests(Act(c))
  /\ c.undo => c.failed /\ c.action = "up"
  /\ c.start # 0 => c.steps # << >> /\ Head(c.steps) \in {"note", "await"}
  /\ c.cmd = "composition" /\ ~c.failed =>
       \A p \in Profiles : p \in ToSet(c.done) \/ p \in ToSet(c.todo)
  /\ c.stage \in {"cleanup", "record"} => c.todo = << >>
  /\ c.stage \in {"credentials", "intent"} => c.done = << >>
  /\ c.stage = "intent" => c.action # "status"

-----------------------------------------------------------------------------
(* The invariant: processes.                                               *)

Spawning(c, p) == c.steps # << >> /\ Head(c.steps) = "spawn" /\ At(c) = p
Noting(c, p) == c.steps # << >> /\ Head(c.steps) = "note" /\ At(c) = p
Awaiting(c, p) == c.steps # << >> /\ Head(c.steps) = "await" /\ At(c) = p
Holds(c, p) == Spawning(c, p) \/ Noting(c, p) \/ Awaiting(c, p)

\* Who starts a service holds the lock of its profile.
LockHeld(p) == \A s \in Slot : lock[p] = s <=> Holds(slot[s], p)

\* A living process is recorded, and nobody is about to record another, or it
\* is the one that is about to be recorded.
Accounted(p) ==
  \A n \in leaders[p] \ lost[p] :
    \/ /\ record[p].start = n /\ record[p].current
       /\ \A s \in Slot : ~Noting(slot[s], p) /\ ~Spawning(slot[s], p)
    \/ \E s \in Slot : Noting(slot[s], p) /\ slot[s].start = n

\* A process without a record is not the recorded one, nor about to be recorded.
Unrecorded(p) ==
  /\ record[p].current => record[p].start \notin lost[p]
  /\ \A s \in Slot : Noting(slot[s], p) => /\ slot[s].start \notin lost[p]
                                           /\ slot[s].start # record[p].start
  /\ \A s \in Slot : Awaiting(slot[s], p) => record[p].current

Sound(p) == LockHeld(p) /\ Accounted(p) /\ Unrecorded(p)
ServiceInv == \A p \in Profiles : Sound(p)

-----------------------------------------------------------------------------
(* The invariant: the record of the composition.                           *)

\* A start or a shutdown of the composition, and the steps after its intent.
Running(c) == c.cmd = "composition" /\ c.action \in {"up", "down"}
Under(c) == c.stage \notin {"credentials", "intent"}
Sure(c) == Running(c) /\ ~c.raced /\ ~c.failed

\* A command on a profile alone that may change it.
Alone(c) == c.cmd \in {"profile", "child"} /\ c.action \in Mutating

\* The owner's command of the profile has run.
Past(c) ==
  c.steps # << >> /\ Head(c.steps) \in {"reconcile", "spawn", "note", "await", "unit", "close"}

\* A run is through with a profile, and with its unit, when the command it is at
\* has come so far, or when an earlier one succeeded.
Through(c, p) ==
  IF c.steps # << >> /\ At(c) = p THEN Past(c) /\ c.ok ELSE p \in ToSet(c.done)
Unregistered(c, p) ==
  IF c.steps # << >> /\ At(c) = p THEN Head(c.steps) = "close" /\ c.ok ELSE p \in ToSet(c.done)

\* No command on the profile alone has still to write what it has changed.
Quiet(p) == \A t \in Slot : Alone(slot[t]) /\ Past(slot[t]) => At(slot[t]) # p

\* Two starts or shutdowns at a time know that they are.
RaceInv ==
  \A s, t \in Slot : s # t /\ Running(slot[s]) /\ Running(slot[t]) => slot[s].raced

\* An action on its way is not a finished one, unless another one finished.
IntentInv ==
  \A s \in Slot : Running(slot[s]) /\ Under(slot[s]) /\ comp.good =>
                    slot[s].raced /\ meddled = Profiles

\* A start uses the credential on disk.
CredentialInv ==
  \A s \in Slot : Sure(slot[s]) /\ slot[s].action = "up" /\ slot[s].stage # "credentials" =>
                    slot[s].cred = creds /\ creds # 0

\* What a start or a shutdown is through with is as it should be.
ThroughInv ==
  \A s \in Slot : Sure(slot[s]) =>
    \A p \in Profiles \ meddled :
      /\ Through(slot[s], p) =>
           /\ Quiet(p)
           /\ slot[s].action = "up" => runtime[p] = [up |-> TRUE, cred |-> slot[s].cred]
           /\ slot[s].action = "down" => ~runtime[p].up
      /\ Unregistered(slot[s], p) /\ slot[s].action = "down" => unit[p] # "composition"

\* What was finished last still is.
FinishedInv ==
  comp.good =>
    /\ \A p \in Profiles \ meddled :
         /\ Quiet(p)
         /\ comp.last = "up" => runtime[p] = [up |-> TRUE, cred |-> creds]
         /\ comp.last = "down" => ~runtime[p].up /\ unit[p] # "composition"
    /\ comp.last = "up" => creds # 0 \/ meddled = Profiles

\* Active is the last start, suspended the last shutdown that finished.
LifecycleInv ==
  /\ comp.lifecycle = "active" => comp.good /\ comp.last = "up"
  /\ comp.lifecycle = "suspended" => comp.good /\ comp.last = "down"

-----------------------------------------------------------------------------
Types ==
  /\ TypeOK
  /\ comp \in [lifecycle : {"none", "active", "degraded", "suspended"},
               last : {"none", "up", "down"}, good : BOOLEAN]
  /\ lost \in [Profiles -> SUBSET Start] /\ reused \in [Profiles -> BOOLEAN]
  /\ lock \in [Profiles -> 0 .. Slots]
  /\ \A p \in Profiles : IsFiniteSet(groups[p])

Orders == slot \in [Slot -> Work] /\ \A s \in Slot : Orderly(slot[s])

RecordInv ==
  RaceInv /\ IntentInv /\ CredentialInv /\ ThroughInv /\ FinishedInv /\ LifecycleInv

IInv == Types /\ Orders /\ ServiceInv /\ RecordInv

-----------------------------------------------------------------------------
(* Commands.                                                               *)

\* A service is started before the unit is registered.
LEMMA Unfolded ==
  <<"spawn", "note", "await">> \o <<"unit", "close">> =
    <<"spawn", "note", "await", "unit", "close">>
<1> DEFINE u == <<"spawn", "note", "await">> \o <<"unit", "close">>
<1>1. u \in Seq(StepName) /\ Len(u) = 5 BY DEF StepName
<1>2. u[1] = "spawn" /\ u[2] = "note" /\ u[3] = "await" /\ u[4] = "unit" /\ u[5] = "close" OBVIOUS
<1> HIDE DEF u
<1>3. u = <<"spawn", "note", "await", "unit", "close">> BY <1>1, <1>2
<1> QED BY <1>3 DEF u

\* How a profile command goes on after its present step.
Continues(s, action) ==
  /\ Tail(s) \in Rests(action) /\ Head(s) \in StepName
  /\ Tail(s) = << >> <=> Head(s) = "close" \/ action = "status"
  /\ Head(s) \in {"guard", "open", "stop"} => Head(Tail(s)) \in {"open", "stop", "command"}
  /\ Head(s) = "command" /\ action = "up" => Head(Tail(s)) = "reconcile"
  /\ Head(s) = "command" /\ action = "down" => Head(Tail(s)) = "unit"
  /\ Head(s) \in {"reconcile", "await"} => Head(Tail(s)) = "unit"
  /\ Head(s) = "spawn" => Head(Tail(s)) = "note"
  /\ Head(s) = "note" => Head(Tail(s)) = "await"
  /\ Head(s) = "unit" => Head(Tail(s)) = "close"
  /\ Head(s) \in {"reconcile", "spawn", "note", "await"} => action = "up"
  /\ Head(s) = "unit" => action \in {"up", "down"}
  /\ action = "status" => Head(s) = "command"
  /\ Head(s) = "reconcile" => <<"spawn", "note", "await">> \o Tail(s) \in Rests(action)

LEMMA Onward ==
  ASSUME NEW action, NEW s \in Rests(action), s # << >>
  PROVE  Continues(s, action)
<1>1. CASE action = "up"
  <2>1. CASE s = <<"close">>
    <3>1. Head(s) = "close" /\ Tail(s) = << >> BY <2>1
    <3> QED BY <1>1, <2>1, <3>1 DEF Continues, Rests, StepName
  <2>2. CASE s = <<"unit", "close">>
    <3>1. Head(s) = "unit" /\ Tail(s) = <<"close">> /\ Head(Tail(s)) = "close" BY <2>2
    <3> QED BY <1>1, <2>2, <3>1 DEF Continues, Rests, StepName
  <2>3. CASE s = <<"await", "unit", "close">>
    <3>1. /\ Head(s) = "await" /\ Head(Tail(s)) = "unit"
          /\ Tail(s) = <<"unit", "close">> BY <2>3
    <3> QED BY <1>1, <2>3, <3>1 DEF Continues, Rests, StepName
  <2>4. CASE s = <<"note", "await", "unit", "close">>
    <3>1. /\ Head(s) = "note" /\ Head(Tail(s)) = "await"
          /\ Tail(s) = <<"await", "unit", "close">> BY <2>4
    <3> QED BY <1>1, <2>4, <3>1 DEF Continues, Rests, StepName
  <2>5. CASE s = <<"spawn", "note", "await", "unit", "close">>
    <3>1. /\ Head(s) = "spawn" /\ Head(Tail(s)) = "note"
          /\ Tail(s) = <<"note", "await", "unit", "close">> BY <2>5
    <3> QED BY <1>1, <2>5, <3>1 DEF Continues, Rests, StepName
  <2>6. CASE s = <<"reconcile", "unit", "close">>
    <3>1. /\ Head(s) = "reconcile" /\ Head(Tail(s)) = "unit"
          /\ Tail(s) = <<"unit", "close">> BY <2>6
    <3> QED BY <1>1, <2>6, <3>1, Unfolded DEF Continues, Rests, StepName
  <2>7. CASE s = <<"command", "reconcile", "unit", "close">>
    <3>1. /\ Head(s) = "command" /\ Head(Tail(s)) = "reconcile"
          /\ Tail(s) = <<"reconcile", "unit", "close">> BY <2>7
    <3> QED BY <1>1, <2>7, <3>1 DEF Continues, Rests, StepName
  <2>8. CASE s = <<"open", "command", "reconcile", "unit", "close">>
    <3>1. /\ Head(s) = "open" /\ Head(Tail(s)) = "command"
          /\ Tail(s) = <<"command", "reconcile", "unit", "close">> BY <2>8
    <3> QED BY <1>1, <2>8, <3>1 DEF Continues, Rests, StepName
  <2>9. CASE s = <<"guard", "open", "command", "reconcile", "unit", "close">>
    <3>1. /\ Head(s) = "guard" /\ Head(Tail(s)) = "open"
          /\ Tail(s) = <<"open", "command", "reconcile", "unit", "close">> BY <2>9
    <3> QED BY <1>1, <2>9, <3>1 DEF Continues, Rests, StepName
  <2> QED BY <1>1, <2>1, <2>2, <2>3, <2>4, <2>5, <2>6, <2>7, <2>8, <2>9 DEF Rests
<1>2. CASE action = "down"
  <2>1. CASE s = <<"close">>
    <3>1. Head(s) = "close" /\ Tail(s) = << >> BY <2>1
    <3> QED BY <1>2, <2>1, <3>1 DEF Continues, Rests, StepName
  <2>2. CASE s = <<"unit", "close">>
    <3>1. Head(s) = "unit" /\ Tail(s) = <<"close">> /\ Head(Tail(s)) = "close" BY <2>2
    <3> QED BY <1>2, <2>2, <3>1 DEF Continues, Rests, StepName
  <2>3. CASE s = <<"command", "unit", "close">>
    <3>1. /\ Head(s) = "command" /\ Head(Tail(s)) = "unit"
          /\ Tail(s) = <<"unit", "close">> BY <2>3
    <3> QED BY <1>2, <2>3, <3>1 DEF Continues, Rests, StepName
  <2>4. CASE s = <<"stop", "command", "unit", "close">>
    <3>1. /\ Head(s) = "stop" /\ Head(Tail(s)) = "command"
          /\ Tail(s) = <<"command", "unit", "close">> BY <2>4
    <3> QED BY <1>2, <2>4, <3>1 DEF Continues, Rests, StepName
  <2>5. CASE s = <<"open", "stop", "command", "unit", "close">>
    <3>1. /\ Head(s) = "open" /\ Head(Tail(s)) = "stop"
          /\ Tail(s) = <<"stop", "command", "unit", "close">> BY <2>5
    <3> QED BY <1>2, <2>5, <3>1 DEF Continues, Rests, StepName
  <2>6. CASE s = <<"guard", "open", "stop", "command", "unit", "close">>
    <3>1. /\ Head(s) = "guard" /\ Head(Tail(s)) = "open"
          /\ Tail(s) = <<"open", "stop", "command", "unit", "close">> BY <2>6
    <3> QED BY <1>2, <2>6, <3>1 DEF Continues, Rests, StepName
  <2> QED BY <1>2, <2>1, <2>2, <2>3, <2>4, <2>5, <2>6 DEF Rests
<1>3. CASE action = "status"
  <2>1. CASE s = <<"command">>
    <3>1. Head(s) = "command" /\ Tail(s) = << >> BY <2>1
    <3> QED BY <1>3, <2>1, <3>1 DEF Continues, Rests, StepName
  <2> QED BY <1>3, <2>1 DEF Rests
<1>4. CASE action \notin {"up", "down", "status"}
  <2>1. CASE s = <<"close">>
    <3>1. Head(s) = "close" /\ Tail(s) = << >> BY <2>1
    <3> QED BY <1>4, <2>1, <3>1 DEF Continues, Rests, StepName
  <2>2. CASE s = <<"command", "close">>
    <3>1. /\ Head(s) = "command" /\ Head(Tail(s)) = "close"
          /\ Tail(s) = <<"close">> BY <2>2
    <3> QED BY <1>4, <2>2, <3>1 DEF Continues, Rests, StepName
  <2>3. CASE s = <<"open", "command", "close">>
    <3>1. /\ Head(s) = "open" /\ Head(Tail(s)) = "command"
          /\ Tail(s) = <<"command", "close">> BY <2>3
    <3> QED BY <1>4, <2>3, <3>1 DEF Continues, Rests, StepName
  <2>4. CASE s = <<"guard", "open", "command", "close">>
    <3>1. /\ Head(s) = "guard" /\ Head(Tail(s)) = "open"
          /\ Tail(s) = <<"open", "command", "close">> BY <2>4
    <3> QED BY <1>4, <2>4, <3>1 DEF Continues, Rests, StepName
  <2> QED BY <1>4, <2>1, <2>2, <2>3, <2>4 DEF Rests
<1> QED BY <1>1, <1>2, <1>3, <1>4

LEMMA Ended == ASSUME NEW action PROVE << >> \in Rests(action)
BY DEF Rests

LEMMA Closing == ASSUME NEW action, action # "status" PROVE <<"close">> \in Rests(action)
BY DEF Rests

LEMMA Beginning ==
  ASSUME NEW action
  PROVE  /\ Steps(action) \in Rests(action) /\ Steps(action) \in Seq(StepName)
         /\ Steps(action) # << >> /\ Head(Steps(action)) \in {"guard", "command"}
<1>1. CASE action = "up" BY <1>1 DEF Rests, Steps, StepName
<1>2. CASE action = "down" BY <1>2 DEF Rests, Steps, StepName
<1>3. CASE action = "status" BY <1>3 DEF Rests, Steps, StepName
<1>4. CASE action \notin {"up", "down", "status"}
  <2>1. Steps(action) = <<"guard", "open", "command", "close">> BY <1>4 DEF Steps
  <2>2. Head(Steps(action)) = "guard" BY <2>1
  <2> QED BY <1>4, <2>1, <2>2 DEF Rests, StepName
<1> QED BY <1>1, <1>2, <1>3, <1>4

\* What an orderly command has left of its profile command.
LEMMA Proceeding ==
  ASSUME NEW c, Orderly(c), c.steps # << >>
  PROVE  /\ Continues(c.steps, Act(c))
         /\ c.todo # << >> /\ At(c) \in Profiles /\ Tail(c.todo) \in Seq(Profiles)
         /\ Tail(c.steps) \in Seq(StepName)
<1>1. c.steps \in Rests(Act(c)) /\ c.todo # << >> /\ c \in Work BY DEF Orderly
<1>2. c.todo \in Seq(Profiles) /\ c.steps \in Seq(StepName) BY <1>1 DEF Work
<1>3. At(c) \in Profiles /\ Tail(c.todo) \in Seq(Profiles) BY <1>1, <1>2, HeadTailProperties DEF At
<1>4. Tail(c.steps) \in Seq(StepName) BY <1>2, HeadTailProperties
<1> QED BY <1>1, <1>3, <1>4, Onward

\* Whatever the present step leaves of the process it starts.
LEMMA RestOrderly ==
  ASSUME NEW c, Orderly(c), c.steps # << >>, Head(c.steps) \notin {"close", "spawn", "note"},
         Act(c) # "status"
  PROVE  Orderly([c EXCEPT !.steps = Tail(@), !.start = 0])
<1> DEFINE d == [c EXCEPT !.steps = Tail(@), !.start = 0]
<1>1. Continues(c.steps, Act(c)) /\ c.todo # << >> /\ Tail(c.steps) \in Seq(StepName)
  BY Proceeding
<1>2. d \in Work BY <1>1 DEF Orderly, Work
<1>3. Act(d) = Act(c) BY DEF Act, Orderly, Work
<1> QED BY <1>1, <1>2, <1>3 DEF Orderly, Continues, Work

LEMMA FailsOrderly ==
  ASSUME NEW c, Orderly(c), c.steps # << >>, Act(c) # "status"
  PROVE  Orderly([c EXCEPT !.ok = FALSE, !.start = 0, !.steps = <<"close">>])
<1> DEFINE d == [c EXCEPT !.ok = FALSE, !.start = 0, !.steps = <<"close">>]
<1> <<"close">> \in Seq(StepName) BY DEF StepName
<1>1. d \in Work BY DEF Orderly, Work
<1>2. Act(d) = Act(c) BY DEF Act, Orderly, Work
<1>3. <<"close">> \in Rests(Act(d)) BY <1>2, Closing
<1> QED BY <1>1, <1>3, Proceeding DEF Orderly, Work

\* The composition has finitely many profiles.
LEMMA FiniteProfiles ==
  /\ IsFiniteSet(Profiles) /\ Cardinality(Profiles) \in Nat /\ Profiles # {}
  /\ Order \in Seq(Profiles) /\ \A p \in Profiles : p \in ToSet(Order)
<1>1. Order \in Seq(Profiles) /\ Order # << >> /\ ToSet(Order) = Profiles
  BY DevSessionAssumption
<1>2. Len(Order) \in Nat /\ DOMAIN Order = 1 .. Len(Order) /\ Order \in [1 .. Len(Order) -> Profiles]
  BY <1>1
<1>3. \A p \in Profiles : \E i \in 1 .. Len(Order) : Order[i] = p BY <1>1, <1>2 DEF ToSet
<1>4. Order \in Surjection(1 .. Len(Order), Profiles) BY <1>2, <1>3, Fun_IsSurj
<1>5. IsFiniteSet(1 .. Len(Order)) BY <1>2, FS_Interval
<1>6. IsFiniteSet(Profiles) BY <1>4, <1>5, FS_Surjection
<1>7. Profiles # {} BY <1>1, EmptySeq
<1> QED BY <1>1, <1>6, <1>7, FS_CardinalityType

LEMMA CredentialType == Credential \subseteq Nat /\ 0 \in Credential /\ Values = Credential \ {0}
<1>1. Cardinality(Profiles) \in Nat /\ Slots \in Nat BY FiniteProfiles, DevSessionAssumption
<1> QED BY <1>1 DEF Credential, Values

LEMMA IdleOrderly == Orderly(Idle)
<1>1. Idle \in Work BY CredentialType DEF Idle, Work
<1>2. << >> \in Rests(Act(Idle)) BY Ended
<1> QED BY <1>1, <1>2 DEF Idle, Orderly

LEMMA ProfileOrderly ==
  ASSUME NEW action \in Actions \cup {"up"}, NEW p \in Profiles,
         NEW by \in Profiles \cup {"operator"}
  PROVE  Orderly(Profile(action, p, by))
<1> DEFINE c == Profile(action, p, by)
<1>1. action \in {"up", "down", "restore", "access", "smoke"} BY DevSessionAssumption
<1>2. <<p>> \in Seq(Profiles) /\ <<p>> # << >> OBVIOUS
<1>3. c \in Work
  <2>1. Idle \in Work /\ Steps(action) \in Seq(StepName) BY IdleOrderly, Beginning DEF Orderly
  <2> QED BY <1>1, <1>2, <2>1 DEF Profile, Work
<1>4. Act(c) = action BY DEF Act, Profile, Idle
<1> QED BY <1>2, <1>3, <1>4, Beginning DEF Orderly, Profile, Idle

LEMMA CompositionOrderly ==
  ASSUME NEW action \in {"up", "down", "status"}, NEW by \in Profiles \cup {"operator"}
  PROVE  Orderly(Composition(action, by))
<1> DEFINE c == Composition(action, by)
<1>1. /\ Reverse(Order) \in Seq(Profiles)
      /\ \A p \in Profiles : p \in ToSet(Reverse(Order))
  <2>1. Len(Order) \in Nat /\ DOMAIN Order = 1 .. Len(Order) /\ Order \in [1 .. Len(Order) -> Profiles]
    BY FiniteProfiles
  <2>2. Reverse(Order) = [i \in 1 .. Len(Order) |-> Order[(Len(Order) - i) + 1]] BY DEF Reverse
  <2>3. \A i \in 1 .. Len(Order) : (Len(Order) - i) + 1 \in 1 .. Len(Order) BY <2>1
  <2>4. Reverse(Order) \in [1 .. Len(Order) -> Profiles] BY <2>1, <2>2, <2>3
  <2>5. Reverse(Order) \in Seq(Profiles) BY <2>1, <2>4
  <2>6. ASSUME NEW p \in Profiles PROVE p \in ToSet(Reverse(Order))
    <3>1. PICK i \in 1 .. Len(Order) : Order[i] = p BY <2>1, FiniteProfiles DEF ToSet
    <3>2. /\ (Len(Order) - i) + 1 \in 1 .. Len(Order)
          /\ (Len(Order) - ((Len(Order) - i) + 1)) + 1 = i
      BY <2>1, <2>3
    <3>3. Reverse(Order)[(Len(Order) - i) + 1] = p BY <2>2, <3>1, <3>2
    <3> QED BY <2>4, <3>2, <3>3 DEF ToSet
  <2> QED BY <2>5, <2>6
<1>2. c \in Work
  <2>1. Idle \in Work BY IdleOrderly DEF Orderly
  <2>2. (IF action = "down" THEN Reverse(Order) ELSE Order) \in Seq(Profiles)
    BY <1>1, FiniteProfiles
  <2> QED BY ZenonT(60), <2>1, <2>2 DEF Composition, Work
<1>3. << >> \in Rests(Act(c)) BY Ended
<1>4. \A p \in Profiles : p \in ToSet(c.todo) BY <1>1, FiniteProfiles DEF Composition, Idle
<1> QED BY <1>2, <1>3, <1>4 DEF Orderly, Composition, Idle

\* A new credential is none of those that run or are in use.
LEMMA FreshValue ==
  ASSUME Types, Orders
  PROVE  Fresh \in Credential \ {0}
<1> DEFINE f == [p \in Profiles |-> runtime[p].cred]
           g == [t \in Slot |-> slot[t].cred]
           used == Range(f) \cup Range(g)
<1>1. Cardinality(Profiles) \in Nat /\ IsFiniteSet(Profiles) /\ Slots \in Nat
  BY FiniteProfiles, DevSessionAssumption
<1>2. IsFiniteSet(Slot) /\ Cardinality(Slot) = Slots BY <1>1, FS_Interval DEF Slot
<1>3. f \in Surjection(Profiles, Range(f)) /\ g \in Surjection(Slot, Range(g))
  BY Fun_IsSurj DEF Range
<1>4. /\ IsFiniteSet(Range(f)) /\ Cardinality(Range(f)) <= Cardinality(Profiles)
      /\ IsFiniteSet(Range(g)) /\ Cardinality(Range(g)) <= Slots
  BY <1>1, <1>2, <1>3, FS_Surjection
<1>5. IsFiniteSet(used) /\ Cardinality(used) <= Cardinality(Profiles) + Slots
  <2>1. /\ Cardinality(Range(f)) \in Nat /\ Cardinality(Range(g)) \in Nat
        /\ Cardinality(Range(f) \cap Range(g)) \in Nat
    BY <1>4, FS_CardinalityType, FS_Intersection
  <2>2. /\ IsFiniteSet(used)
        /\ Cardinality(used) = Cardinality(Range(f)) + Cardinality(Range(g))
                                 - Cardinality(Range(f) \cap Range(g))
    BY <1>4, FS_Union
  <2> HIDE DEF f, g
  <2> QED BY <1>1, <1>4, <2>1, <2>2
<1>6. IsFiniteSet(Values) /\ Cardinality(Values) = Cardinality(Profiles) + Slots + 1
  BY SMTT(30), <1>1, FS_Interval DEF Values
<1>7. \E v \in Values : v \notin used
  <2>1. SUFFICES ASSUME Values \subseteq used PROVE FALSE OBVIOUS
  <2>2. Cardinality(Values) <= Cardinality(used) BY <1>5, <2>1, FS_Subset
  <2>3. Cardinality(used) \in Nat BY <1>5, FS_CardinalityType
  <2> QED BY <1>1, <1>5, <1>6, <2>2, <2>3
<1>8. PICK v \in Values : v \notin used BY <1>7
<1>9. \A p \in Profiles : runtime[p].cred # v BY <1>8 DEF Range
<1>10. \A t \in Slot : slot[t].cred # v BY <1>8 DEF Range
<1>11. Fresh \in Values BY <1>8, <1>9, <1>10 DEF Fresh
<1> QED BY <1>11, CredentialType

LEMMA Nothing == << >> \in Seq(StepName) /\ 0 \in 0 .. 2 /\ 0 \in Nat
OBVIOUS

\* The composition goes to its next profile, or to its end.
LEMMA DispatchedOrderly ==
  ASSUME NEW c \in Work, c.cmd = "composition", c.action \in {"up", "down", "status"},
         c.undo => c.failed /\ c.action = "up", c.start # 0 => c.todo # << >>,
         ~c.failed => \A p \in Profiles : p \in ToSet(c.done) \/ p \in ToSet(c.todo),
         NEW d, d = Dispatched(c)
  PROVE  /\ Orderly(d) /\ d.cmd = c.cmd /\ d.action = c.action /\ d.raced = c.raced
         /\ d.cred = c.cred /\ d.failed = c.failed /\ d.done = c.done
         /\ d.stage \in {"dispatch", "cleanup"}
         /\ d.steps # << >> => Head(d.steps) \in {"guard", "command"}
<1>1. CASE c.todo = << >>
  <2>1. d = [c EXCEPT !.stage = "cleanup", !.steps = << >>] BY <1>1 DEF Dispatched
  <2>2. d \in Work BY <2>1, Nothing DEF Work
  <2>3. << >> \in Rests(Act(d)) BY Ended
  <2> QED BY <1>1, <2>1, <2>2, <2>3 DEF Orderly, Work
<1>2. CASE c.todo # << >>
  <2>1. d = [c EXCEPT !.stage = "dispatch", !.steps = Steps(Act(c)), !.ok = TRUE, !.start = 0,
                      !.spec = 0]
    BY <1>2 DEF Dispatched
  <2>2. /\ Steps(Act(c)) \in Rests(Act(c)) /\ Steps(Act(c)) \in Seq(StepName)
        /\ Steps(Act(c)) # << >> /\ Head(Steps(Act(c))) \in {"guard", "command"}
    BY Beginning
  <2>3. d \in Work BY ZenonT(60), <2>1, <2>2, Nothing DEF Work
  <2>4. Act(d) = Act(c) BY <2>1 DEF Act, Work
  <2>5. d.steps = Steps(Act(c)) BY <2>1 DEF Work
  <2> QED BY <1>2, <2>1, <2>2, <2>3, <2>4, <2>5 DEF Orderly, Work
<1> QED BY <1>1, <1>2

\* A composition whose profile command returns: it fails, or has one more done.
LEMMA ReturnedOrderly ==
  ASSUME NEW c, Orderly(c), c.cmd = "composition", c.steps # << >>, NEW ok \in BOOLEAN,
         NEW d, d = Returned(c, ok)
  PROVE  /\ Orderly(d) /\ d.cmd = c.cmd /\ d.action = c.action /\ d.raced = c.raced
         /\ d.cred = c.cred /\ d.stage \in {"dispatch", "cleanup"}
         /\ d.steps # << >> => Head(d.steps) \in {"guard", "command"}
         /\ ~d.failed => /\ ~c.failed /\ ok
                         /\ \A p \in ToSet(d.done) : p \in ToSet(c.done) \/ p = At(c)
<1>0. c \in Work BY DEF Orderly
<1>1. /\ c.action \in {"up", "down", "status"} /\ (c.undo => c.failed /\ c.action = "up")
      /\ c.todo # << >> /\ At(c) \in Profiles /\ Tail(c.todo) \in Seq(Profiles)
      /\ c.todo \in Seq(Profiles) /\ c.done \in Seq(Profiles)
  BY <1>0, Proceeding DEF Orderly, Work
<1>2. \A p : p \in ToSet(c.todo) => p = At(c) \/ p \in ToSet(Tail(c.todo))
  <2>1. TAKE p
  <2>2. HAVE p \in ToSet(c.todo)
  <2>3. PICK i \in 1 .. Len(c.todo) : c.todo[i] = p BY <1>1, <2>2 DEF ToSet
  <2>4. CASE i = 1 BY <1>1, <2>3, <2>4 DEF At
  <2>5. CASE i # 1
    <3>1. i - 1 \in 1 .. Len(Tail(c.todo)) /\ Tail(c.todo)[i - 1] = p BY <1>1, <2>3, <2>5
    <3>2. DOMAIN Tail(c.todo) = 1 .. Len(Tail(c.todo)) BY <1>1
    <3> QED BY <3>1, <3>2 DEF ToSet
  <2> QED BY <2>4, <2>5
<1>3. /\ Append(c.done, At(c)) \in Seq(Profiles)
      /\ \A p : p \in ToSet(Append(c.done, At(c))) <=> p \in ToSet(c.done) \/ p = At(c)
  <2> DEFINE e == Append(c.done, At(c))
  <2>1. /\ e \in Seq(Profiles) /\ Len(e) = Len(c.done) + 1 /\ e[Len(c.done) + 1] = At(c)
        /\ \A i \in 1 .. Len(c.done) : e[i] = c.done[i] /\ Len(c.done) \in Nat
    BY <1>1
  <2>2. Len(c.done) \in Nat BY <1>1
  <2> HIDE DEF e
  <2>3. /\ ToSet(e) = {e[i] : i \in 1 .. Len(c.done) + 1}
        /\ ToSet(c.done) = {c.done[i] : i \in 1 .. Len(c.done)}
    BY <1>1, <2>1 DEF ToSet
  <2>4. \A i \in 1 .. Len(c.done) + 1 : i \in 1 .. Len(c.done) \/ i = Len(c.done) + 1 BY <2>2
  <2>5. \A i \in 1 .. Len(c.done) : i \in 1 .. Len(c.done) + 1 BY <2>2
  <2>6. Len(c.done) + 1 \in 1 .. Len(c.done) + 1 BY <2>2
  <2>7. ASSUME NEW p PROVE p \in ToSet(e) <=> p \in ToSet(c.done) \/ p = At(c)
    BY <2>1, <2>3, <2>4, <2>5, <2>6
  <2> QED BY <2>1, <2>7 DEF e
<1>4. CASE ok
  <2> DEFINE e == [c EXCEPT !.done = IF c.undo THEN @ ELSE Append(@, At(c))]
             f == [e EXCEPT !.todo = Tail(@), !.start = 0, !.spec = 0]
  <2>1. d = Dispatched(f) BY <1>4 DEF Returned, Advanced
  <2>2. /\ e \in Work /\ e.todo = c.todo /\ e.cmd = c.cmd /\ e.action = c.action
        /\ e.raced = c.raced /\ e.cred = c.cred /\ e.undo = c.undo /\ e.failed = c.failed
        /\ e.done = IF c.undo THEN c.done ELSE Append(c.done, At(c))
    <3>1. (IF c.undo THEN c.done ELSE Append(c.done, At(c))) \in Seq(Profiles) BY <1>1, <1>3
    <3> QED BY <1>0, <3>1 DEF Work
  <2>3. /\ f \in Work /\ f.cmd = c.cmd /\ f.action = c.action /\ f.raced = c.raced /\ f.cred = c.cred
        /\ f.undo = c.undo /\ f.failed = c.failed /\ f.todo = Tail(c.todo) /\ f.start = 0
        /\ f.done = IF c.undo THEN c.done ELSE Append(c.done, At(c))
    <3> HIDE DEF e
    <3>1. Tail(c.todo) \in Seq(Profiles) BY <1>1
    <3> QED BY <2>2, <3>1, Nothing DEF Work
  <2> HIDE DEF e, f
  <2>4. ~f.failed => /\ ~c.undo
                     /\ \A p \in Profiles : p \in ToSet(f.done) \/ p \in ToSet(f.todo)
    BY <1>1, <1>2, <1>3, <2>3 DEF Orderly
  <2>5. (f.undo => f.failed /\ f.action = "up") /\ (~f.failed => ~c.failed)
    BY Zenon, <1>1, <2>3
  <2>6. /\ Orderly(d) /\ d.cmd = c.cmd /\ d.action = c.action /\ d.raced = c.raced
        /\ d.cred = c.cred /\ d.failed = f.failed /\ d.done = f.done
        /\ d.stage \in {"dispatch", "cleanup"}
        /\ d.steps # << >> => Head(d.steps) \in {"guard", "command"}
    BY <1>1, <2>1, <2>3, <2>4, <2>5, DispatchedOrderly
  <2>7. ~d.failed => ~f.failed BY Zenon, <2>6
  <2> QED BY <1>3, <1>4, <2>3, <2>5, <2>6, <2>7
<1>5. CASE ~ok /\ c.undo
  <2> DEFINE e == [c EXCEPT !.spoiled = TRUE]
             f == [e EXCEPT !.todo = Tail(@), !.start = 0, !.spec = 0]
  <2>1. d = Dispatched(f) BY <1>5 DEF Returned, Advanced
  <2>2. /\ f \in Work /\ f.cmd = c.cmd /\ f.action = c.action /\ f.raced = c.raced /\ f.cred = c.cred
        /\ f.undo = c.undo /\ f.failed = c.failed /\ f.start = 0
    <3>1. /\ e \in Work /\ e.todo = c.todo /\ e.cmd = c.cmd /\ e.action = c.action
          /\ e.raced = c.raced /\ e.cred = c.cred /\ e.undo = c.undo /\ e.failed = c.failed
      BY <1>0 DEF Work
    <3> HIDE DEF e
    <3>2. Tail(c.todo) \in Seq(Profiles) BY <1>1
    <3> QED BY <3>1, <3>2, Nothing DEF Work
  <2> HIDE DEF e, f
  <2>3. f.undo => c.undo /\ c.action = "up" BY <1>1, <2>2
  <2>6. f.cmd = "composition" /\ f.action \in {"up", "down", "status"} /\ f.failed
    BY <1>1, <1>5, <2>2
  <2>7. f.undo => f.failed /\ f.action = "up" BY <2>2, <2>3, <2>6
  <2>4. /\ Orderly(d) /\ d.cmd = c.cmd /\ d.action = c.action /\ d.raced = c.raced
        /\ d.cred = c.cred /\ d.failed = f.failed /\ d.stage \in {"dispatch", "cleanup"}
        /\ d.steps # << >> => Head(d.steps) \in {"guard", "command"}
    BY <2>1, <2>2, <2>6, <2>7, DispatchedOrderly
  <2>5. d.failed BY Zenon, <2>4, <2>6
  <2> QED BY <2>4, <2>5
<1>6. CASE ~ok /\ ~c.undo /\ c.action = "up"
  <2> DEFINE f == Compensation(c)
  <2>1. d = Dispatched(f) BY <1>6 DEF Returned
  <2>2. <<At(c)>> \o Reverse(c.done) \in Seq(Profiles) /\ <<At(c)>> \o Reverse(c.done) # << >>
    <3>1. Reverse(c.done) \in Seq(Profiles)
      <4>1. Len(c.done) \in Nat /\ c.done \in [1 .. Len(c.done) -> Profiles] BY <1>1
      <4>2. Reverse(c.done) = [i \in 1 .. Len(c.done) |-> c.done[(Len(c.done) - i) + 1]]
        BY DEF Reverse
      <4>3. \A i \in 1 .. Len(c.done) : (Len(c.done) - i) + 1 \in 1 .. Len(c.done) BY <4>1
      <4>4. Reverse(c.done) \in [1 .. Len(c.done) -> Profiles] BY <4>1, <4>2, <4>3
      <4> QED BY <4>1, <4>4
    <3>2. <<At(c)>> \in Seq(Profiles) /\ Len(<<At(c)>>) = 1 BY <1>1
    <3> QED BY <3>1, <3>2
  <2>3. /\ f \in Work /\ f.cmd = c.cmd /\ f.action = c.action /\ f.raced = c.raced /\ f.cred = c.cred
        /\ f.failed = TRUE /\ f.todo # << >>
    <3> DEFINE way == <<At(c)>> \o Reverse(c.done)
    <3>1. f = [c EXCEPT !.undo = TRUE, !.failed = TRUE, !.todo = way] BY DEF Compensation
    <3> HIDE DEF way, f
    <3>2. way \in Seq(Profiles) /\ way # << >> BY <2>2 DEF way
    <3> QED BY <1>0, <3>1, <3>2 DEF Work
  <2> HIDE DEF f
  <2>4. f.undo => f.failed /\ f.action = "up" BY <1>6, <2>3
  <2> QED BY <1>1, <1>6, <2>4, <2>1, <2>3, DispatchedOrderly
<1>7. CASE ~ok /\ ~c.undo /\ c.action # "up"
  <2> DEFINE e == [c EXCEPT !.failed = TRUE]
             f == [e EXCEPT !.todo = Tail(@), !.start = 0, !.spec = 0]
  <2>1. d = Dispatched(f) BY <1>7 DEF Returned, Advanced
  <2>2. /\ f \in Work /\ f.cmd = c.cmd /\ f.action = c.action /\ f.raced = c.raced /\ f.cred = c.cred
        /\ f.undo = c.undo /\ f.failed = TRUE /\ f.start = 0
    <3>1. /\ e \in Work /\ e.todo = c.todo /\ e.cmd = c.cmd /\ e.action = c.action
          /\ e.raced = c.raced /\ e.cred = c.cred /\ e.undo = c.undo /\ e.failed = TRUE
      BY <1>0 DEF Work
    <3> HIDE DEF e
    <3>2. Tail(c.todo) \in Seq(Profiles) BY <1>1
    <3> QED BY <3>1, <3>2, Nothing DEF Work
  <2> HIDE DEF e, f
  <2>3. f.undo => c.undo /\ c.action = "up" BY <1>1, <2>2
  <2>6. f.cmd = "composition" /\ f.action \in {"up", "down", "status"} /\ f.failed
    BY <1>1, <1>7, <2>2
  <2>7. f.undo => f.failed /\ f.action = "up" BY <2>2, <2>3, <2>6
  <2>4. /\ Orderly(d) /\ d.cmd = c.cmd /\ d.action = c.action /\ d.raced = c.raced
        /\ d.cred = c.cred /\ d.failed = f.failed /\ d.stage \in {"dispatch", "cleanup"}
        /\ d.steps # << >> => Head(d.steps) \in {"guard", "command"}
    BY <2>1, <2>2, <2>6, <2>7, DispatchedOrderly
  <2>5. d.failed BY Zenon, <2>4, <2>6
  <2> QED BY <2>4, <2>5
<1> QED BY <1>4, <1>5, <1>6, <1>7

-----------------------------------------------------------------------------
(* One command goes on.                                                    *)

Works(c) == c.steps # << >> /\ Head(c.steps) \in {"spawn", "note", "await"}

\* A command goes on without being through with more, and without hiding what
\* it may still write.
Onwards(c, d) ==
  /\ Running(d) =>
       /\ Running(c) /\ d.action = c.action /\ d.raced = c.raced /\ d.cred = c.cred
       /\ Under(d) => Under(c)
       /\ d.stage # "credentials" => c.stage # "credentials"
       /\ ~d.failed =>
            /\ ~c.failed
            /\ \A p \in Profiles : Through(d, p) => Through(c, p)
            /\ \A p \in Profiles : Unregistered(d, p) => Unregistered(c, p)
  /\ Alone(d) /\ Past(d) => Alone(c) /\ Past(c) /\ At(d) = At(c)

LEMMA Changed ==
  ASSUME Orders, NEW s \in Slot, NEW d, Orderly(d), Becomes(s, d)
  PROVE  Orders' /\ slot'[s] = d /\ \A t \in Slot \ {s} : slot'[t] = slot[t]
BY DEF Orders, Becomes, Orderly

LEMMA Steady ==
  ASSUME Orders, RecordInv, NEW s \in Slot, NEW d, Becomes(s, d), Orderly(d),
         Onwards(slot[s], d), UNCHANGED <<comp, creds, runtime, unit, meddled>>
  PROVE  RecordInv'
<1>1. slot'[s] = d /\ \A t \in Slot \ {s} : slot'[t] = slot[t] BY Changed
<1>2. \A p \in Profiles : Quiet(p) => Quiet(p)' BY <1>1 DEF Quiet, Onwards
<1>3. RaceInv' BY <1>1 DEF RaceInv, Onwards, RecordInv
<1>4. IntentInv' BY <1>1 DEF IntentInv, Onwards, RecordInv
<1>5. CredentialInv' BY <1>1 DEF CredentialInv, Onwards, Sure, RecordInv
<1>6. ThroughInv'
  <2>1. ASSUME NEW t \in Slot, Sure(slot'[t]), NEW p \in Profiles \ meddled
        PROVE  /\ Through(slot'[t], p) =>
                    /\ Quiet(p)'
                    /\ slot'[t].action = "up" => runtime[p] = [up |-> TRUE, cred |-> slot'[t].cred]
                    /\ slot'[t].action = "down" => ~runtime[p].up
               /\ Unregistered(slot'[t], p) /\ slot'[t].action = "down" => unit[p] # "composition"
    <3>1. CASE t = s BY <1>1, <1>2, <2>1, <3>1 DEF ThroughInv, Onwards, Sure, RecordInv
    <3>2. CASE t # s BY <1>1, <1>2, <2>1, <3>2 DEF ThroughInv, RecordInv
    <3> QED BY <3>1, <3>2
  <2> QED BY <2>1 DEF ThroughInv
<1>7. FinishedInv' BY <1>2 DEF FinishedInv, RecordInv
<1>8. LifecycleInv' BY DEF LifecycleInv, RecordInv
<1> QED BY <1>3, <1>4, <1>5, <1>6, <1>7, <1>8 DEF RecordInv

\* A profile is as it was when no command starts or stops its service.
LEMMA Elsewhere ==
  ASSUME Orders, NEW s \in Slot, NEW d, Becomes(s, d), Orderly(d),
         NEW q \in Profiles, Sound(q), ~Holds(slot[s], q), ~Holds(d, q),
         record'[q] = record[q], leaders'[q] = leaders[q], lost'[q] = lost[q], lock'[q] = lock[q]
  PROVE  Sound(q)'
<1>1. slot'[s] = d /\ \A t \in Slot \ {s} : slot'[t] = slot[t] BY Changed
<1>2. /\ \A t \in Slot : Holds(slot'[t], q) <=> Holds(slot[t], q)
      /\ \A t \in Slot : Spawning(slot'[t], q) <=> Spawning(slot[t], q)
      /\ \A t \in Slot : Noting(slot'[t], q) <=> Noting(slot[t], q)
      /\ \A t \in Slot : Awaiting(slot'[t], q) <=> Awaiting(slot[t], q)
      /\ \A t \in Slot : Noting(slot[t], q) => slot'[t].start = slot[t].start
  BY <1>1 DEF Holds
<1>3. LockHeld(q)' BY <1>2 DEF LockHeld, Sound
<1>4. Accounted(q)' BY <1>2 DEF Accounted, Sound
<1>5. Unrecorded(q)' BY <1>2 DEF Unrecorded, Sound
<1> QED BY <1>3, <1>4, <1>5 DEF Sound

\* The processes are as they were when the command starts none.
LEMMA Still ==
  ASSUME Orders, ServiceInv, NEW s \in Slot, NEW d, Becomes(s, d), Orderly(d),
         ~Works(slot[s]), ~Works(d), UNCHANGED services
  PROVE  ServiceInv'
<1>1. \A p \in Profiles : ~Holds(slot[s], p) /\ ~Holds(d, p)
  BY DEF Holds, Spawning, Noting, Awaiting, Works
<1> QED BY <1>1, Elsewhere DEF ServiceInv, services

LEMMA Kinds ==
  ASSUME IInv
  PROVE  /\ Types /\ Orders /\ ServiceInv /\ RecordInv
         /\ \A s \in Slot : Orderly(slot[s]) /\ slot[s] \in Work
BY DEF IInv, Orders

\* What does not touch a service or what the composition records.
LEMMA Passing ==
  ASSUME IInv, NEW s \in Slot, NEW d, Becomes(s, d), Orderly(d), Onwards(slot[s], d),
         ~Works(slot[s]), ~Works(d),
         UNCHANGED <<services, comp, creds, runtime, unit, source, helm, meddled>>,
         manifest' \in [Profiles -> {"none", "free", "bound"}],
         starting' \in [Profiles -> 0 .. Burst]
  PROVE  IInv'
<1>1. Types /\ Orders /\ ServiceInv /\ RecordInv BY Kinds
<1>2. Orders' BY <1>1, Changed
<1>3. ServiceInv' BY <1>1, Still
<1>4. RecordInv' BY <1>1, Steady
<1>5. \A t \in Slot : slot'[t].cmd \in {"idle", "composition", "profile", "child"}
  BY <1>2 DEF Orders, Work
<1>6. Types' BY <1>1, <1>5 DEF Types, TypeOK, ServicesTypeOK, services
<1> QED BY <1>2, <1>3, <1>4, <1>6 DEF IInv

\* A profile command proceeds, or has failed.
LEMMA InSteps ==
  ASSUME NEW c, NEW d, Orderly(c), Orderly(d), c.steps # << >>, d.steps # << >>,
         d.cmd = c.cmd, d.action = c.action, d.raced = c.raced, d.stage = c.stage,
         d.failed = c.failed, d.done = c.done, d.todo = c.todo,
         Running(c) => d.cred = c.cred,
         Past(d) => Past(c), d.ok => c.ok,
         Head(d.steps) = "close" /\ d.ok => Head(c.steps) = "close"
  PROVE  Onwards(c, d)
<1>1. At(d) = At(c) BY DEF At
<1>2. \A p : Through(d, p) => Through(c, p) BY <1>1 DEF Through
<1>3. \A p : Unregistered(d, p) => Unregistered(c, p) BY <1>1 DEF Unregistered
<1>4. Running(c) => c.stage = "dispatch" BY DEF Running, Orderly
<1>5. Running(d) <=> Running(c) BY DEF Running
<1>6. Alone(d) <=> Alone(c) BY DEF Alone
<1>7. ~d.failed => ~c.failed BY Zenon
<1> QED BY <1>1, <1>2, <1>3, <1>4, <1>5, <1>6, <1>7 DEF Onwards, Under

-----------------------------------------------------------------------------
(* The steps of a profile command.                                         *)

LEMMA Untouched ==
  ASSUME NEW c, Orderly(c)
  PROVE  /\ Onwards(c, Idle) /\ ~Works(Idle)
         /\ ~Running(Idle) /\ ~Alone(Idle)
BY DEF Onwards, Works, Running, Alone, Idle

\* A profile command returns.
LEMMA Returning ==
  ASSUME IInv, NEW s \in Slot, NEW ok \in BOOLEAN, Return(s, ok), slot[s].steps # << >>,
         ok => Act(slot[s]) = "status" \/ (Head(slot[s].steps) = "close" /\ slot[s].ok)
  PROVE  /\ starting' \in [Profiles -> 0 .. Burst]
         /\ \E d : Orderly(d) /\ Becomes(s, d) /\ ~Works(d) /\ Onwards(slot[s], d)
<1> DEFINE c == slot[s]
<1>1. Orderly(c) /\ starting \in [Profiles -> 0 .. Burst] BY Kinds DEF Types, TypeOK
<1>2. CASE c.cmd = "composition"
  <2> DEFINE d == Returned(c, ok)
  <2>1. Becomes(s, d) /\ UNCHANGED starting BY <1>2 DEF Return
  <2>7. d = Returned(c, ok) OBVIOUS
  <2> HIDE DEF d
  <2>2. /\ Orderly(d) /\ d.cmd = c.cmd /\ d.action = c.action /\ d.raced = c.raced
        /\ d.cred = c.cred /\ d.stage \in {"dispatch", "cleanup"}
        /\ d.steps # << >> => Head(d.steps) \in {"guard", "command"}
        /\ ~d.failed => /\ ~c.failed /\ ok
                        /\ \A p \in ToSet(d.done) : p \in ToSet(c.done) \/ p = At(c)
    BY SMTT(30), <1>1, <1>2, <2>7, ReturnedOrderly
  <2>3. c.stage = "dispatch" /\ ~Past(d) /\ ~Works(d)
        /\ ~(d.steps # << >> /\ Head(d.steps) = "close")
    BY <1>1, <1>2, <2>2 DEF Orderly, Past, Works
  <2>4. ASSUME Running(d), ~d.failed
        PROVE  Head(c.steps) = "close" /\ c.ok
    <3>1. ~c.failed /\ ok /\ c.action \in {"up", "down"} BY <2>2, <2>4 DEF Running
    <3>2. Act(c) # "status" BY <3>1 DEF Act
    <3> QED BY <3>1, <3>2
  <2>5. ASSUME Running(d), ~d.failed, NEW p \in Profiles
        PROVE  /\ Through(d, p) => Through(c, p)
               /\ Unregistered(d, p) => Unregistered(c, p)
    <3>1. Past(c) BY <2>4, <2>5 DEF Past
    <3> QED BY <2>2, <2>3, <2>4, <2>5, <3>1 DEF Through, Unregistered
  <2>6. Onwards(c, d)
    <3>1. Running(d) <=> Running(c) BY <2>2 DEF Running
    <3>2. ~Alone(d) BY <1>2, <2>2 DEF Alone
    <3> QED BY <2>2, <2>3, <2>5, <3>1, <3>2 DEF Onwards, Under
  <2> QED BY <1>1, <2>1, <2>2, <2>3, <2>6
<1>3. CASE c.cmd # "composition"
  <2>1. Becomes(s, Idle) /\ (starting' = starting \/ Finished(s)) BY <1>3 DEF Return, End
  <2>2. starting' \in [Profiles -> 0 .. Burst]
    <3>1. CASE starting' = starting BY <1>1, <3>1
    <3>2. CASE Finished(s) BY <1>1, <3>2 DEF Finished, Burst
    <3> QED BY <2>1, <3>1, <3>2
  <2> QED BY <1>1, <2>1, <2>2, IdleOrderly, Untouched
<1> QED BY <1>2, <1>3

\* A profile command proceeds, with what its guard has read.
LEMMA Proceeds ==
  ASSUME IInv, NEW s \in Slot, slot[s].steps # << >>,
         Head(slot[s].steps) \in {"guard", "open", "stop"}
  PROVE  LET d == Rest(s) IN
         /\ Orderly(d) /\ ~Works(slot[s]) /\ ~Works(d) /\ Onwards(slot[s], d)
<1> DEFINE c == slot[s]
           d == Rest(s)
<1>1. Orderly(c) /\ c \in Work BY Kinds
<1>2. c.start = 0 BY <1>1 DEF Orderly
<1>3. d = [c EXCEPT !.steps = Tail(@), !.start = 0] BY <1>1, <1>2 DEF Rest, Work
<1>4. Continues(c.steps, Act(c)) BY <1>1, Proceeding
<1>5. Act(c) # "status" BY <1>4 DEF Continues
<1>6. Orderly(d) BY <1>1, <1>3, <1>5, RestOrderly
<1>7. /\ d.steps = Tail(c.steps) /\ d.cmd = c.cmd /\ d.action = c.action /\ d.raced = c.raced
      /\ d.stage = c.stage /\ d.failed = c.failed /\ d.done = c.done /\ d.todo = c.todo
      /\ d.cred = c.cred /\ d.ok = c.ok
  BY <1>1 DEF Rest, Work
<1>8. d.steps # << >> /\ Head(d.steps) \in {"open", "stop", "command"}
  BY <1>4, <1>5, <1>7 DEF Continues
<1>9. ~Past(d) /\ ~Works(d) /\ ~Works(c) BY <1>8 DEF Past, Works
<1> HIDE DEF d
<1>10. Onwards(c, d) BY <1>1, <1>6, <1>7, <1>8, <1>9, InSteps
<1> QED BY <1>6, <1>9, <1>10 DEF d

LEMMA GuardStep == ASSUME IInv, NEW s \in Slot, Guard(s) PROVE IInv'
<1> DEFINE c == slot[s]
<1>1. c.steps # << >> /\ Head(c.steps) = "guard" /\ Orderly(c) /\ c \in Work
  BY Kinds DEF Guard, Now
<1>2. UNCHANGED <<services, manifest, comp, creds, runtime, unit, source, helm, meddled>>
  BY DEF Guard, local
<1>3. manifest \in [Profiles -> {"none", "free", "bound"}] /\ starting \in [Profiles -> 0 .. Burst]
      /\ source \in [Profiles -> 0 .. 2] /\ creds \in Credential
  BY Kinds DEF Types, TypeOK, Credential
<1>4. ~Works(c) BY <1>1 DEF Works
<1>5. CASE Refused(c) \/ SmokeRefused(c)
  <2>1. Return(s, FALSE) BY <1>5 DEF Guard
  <2> QED BY <1>1, <1>2, <1>3, <1>4, <2>1, Returning, Passing
<1>6. CASE ~(Refused(c) \/ SmokeRefused(c))
  <2> DEFINE r == Rest(s)
             cred == IF c.cmd = "profile" /\ c.action = "smoke" /\ comp.lifecycle = "active"
                       THEN creds ELSE r.cred
             d == [r EXCEPT !.spec = source[At(c)], !.cred = cred]
  <2>1. Becomes(s, d) /\ UNCHANGED starting BY <1>6 DEF Guard
  <2>2. Orderly(r) /\ ~Works(r) /\ Onwards(c, r) BY <1>1, Proceeds
  <2>3. r.cmd = c.cmd /\ r \in Work BY <1>1, <2>2 DEF Rest, Work, Orderly
  <2> HIDE DEF r
  <2>4. At(c) \in Profiles /\ source[At(c)] \in 0 .. 2 BY <1>1, <1>3, Proceeding
  <2>5. cred \in Credential BY <1>3, <2>3 DEF Work
  <2>6. r.cmd = "composition" => cred = r.cred BY <2>3
  <2> HIDE DEF cred
  <2>7. /\ d \in Work /\ d.cmd = r.cmd /\ d.action = r.action /\ d.raced = r.raced
        /\ d.stage = r.stage /\ d.failed = r.failed /\ d.done = r.done /\ d.todo = r.todo
        /\ d.ok = r.ok /\ d.steps = r.steps /\ d.start = r.start /\ d.undo = r.undo
        /\ d.cred = cred
    BY <2>3, <2>4, <2>5 DEF Work
  <2> HIDE DEF d
  <2>8. Act(d) = Act(r) BY <2>7 DEF Act
  <2>9. Orderly(d) BY <2>2, <2>7, <2>8 DEF Orderly
  <2>10. ~Works(d) BY <2>2, <2>7 DEF Works
  <2>11. Onwards(c, d)
    <3>1. /\ Running(d) <=> Running(r) 
          /\ Alone(d) <=> Alone(r)
          /\ Under(d) <=> Under(r)
          /\ Past(d) <=> Past(r)
          /\ At(d) = At(r)
      BY <2>7 DEF Running, Alone, Under, Past, At
    <3>2. \A p : (Through(d, p) => Through(r, p)) /\ (Unregistered(d, p) => Unregistered(r, p))
      BY <2>7, <3>1 DEF Through, Unregistered
    <3>3. Running(d) => d.cred = r.cred BY <2>6, <2>7 DEF Running
    <3> QED BY <2>2, <2>7, <3>1, <3>2, <3>3 DEF Onwards
  <2> QED BY <1>2, <1>3, <1>4, <2>1, <2>9, <2>10, <2>11, Passing
<1> QED BY <1>5, <1>6

LEMMA OpenStep == ASSUME IInv, NEW s \in Slot, Open(s) PROVE IInv'
<1>1. slot[s].steps # << >> /\ Head(slot[s].steps) = "open" /\ Orderly(slot[s])
  BY Kinds DEF Open, Now
<1>2. UNCHANGED <<services, comp, creds, runtime, unit, source, helm, meddled, starting>>
  BY DEF Open
<1>3. manifest \in [Profiles -> {"none", "free", "bound"}] /\ starting \in [Profiles -> 0 .. Burst]
  BY Kinds DEF Types, TypeOK
<1>4. manifest' \in [Profiles -> {"none", "free", "bound"}] BY <1>3 DEF Open, Written
<1>5. Becomes(s, Rest(s)) BY DEF Open, Proceed
<1> QED BY <1>1, <1>2, <1>3, <1>4, <1>5, Proceeds, Passing

LEMMA CloseStep == ASSUME IInv, NEW s \in Slot, Close(s) PROVE IInv'
<1>1. slot[s].steps # << >> /\ Head(slot[s].steps) = "close" /\ Orderly(slot[s])
      /\ slot[s].ok \in BOOLEAN
  BY Kinds DEF Close, Now, Work
<1>2. UNCHANGED <<services, comp, creds, runtime, unit, source, helm, meddled>>
  BY DEF Close
<1>3. manifest \in [Profiles -> {"none", "free", "bound"}]
  BY Kinds DEF Types, TypeOK
<1>4. manifest' \in [Profiles -> {"none", "free", "bound"}] BY <1>3 DEF Close, Written
<1>5. Return(s, slot[s].ok) /\ ~Works(slot[s]) BY <1>1 DEF Close, Works
<1> QED BY <1>1, <1>2, <1>4, <1>5, Returning, Passing

-----------------------------------------------------------------------------
(* The steps on a service.                                                 *)

Records == [Profiles -> [status : {"absent", "starting", "running", "stopped", "failed"},
                         start : Nat, digest : 0 .. 2, current : BOOLEAN]]

\* The processes of the profiles are of their types, before and after a step.
Processes ==
  /\ leaders \in [Profiles -> SUBSET Start] /\ groups \in [Profiles -> SUBSET Start]
  /\ lost \in [Profiles -> SUBSET Start]
  /\ \A q \in Profiles : /\ leaders[q] \subseteq groups[q] /\ lost[q] \subseteq groups[q]
                         /\ IsFiniteSet(groups[q])

LEMMA ServiceTypes ==
  Types <=> /\ record \in Records /\ Processes
            /\ reused \in [Profiles -> BOOLEAN] /\ lock \in [Profiles -> 0 .. Slots]
            /\ Types
BY DEF Types, TypeOK, ServicesTypeOK, Records, Processes

LEMMA Removal ==
  ASSUME Processes, NEW p \in Profiles, NEW n, n \notin lost[p], Gone(p, n), UNCHANGED lost
  PROVE  /\ Processes' /\ leaders'[p] = leaders[p] \ {n}
         /\ \A q \in Profiles \ {p} : leaders'[q] = leaders[q]
<1>1. /\ leaders' \in [Profiles -> SUBSET Start] /\ groups' \in [Profiles -> SUBSET Start]
      /\ leaders'[p] = leaders[p] \ {n} /\ groups'[p] = groups[p] \ {n}
      /\ \A q \in Profiles \ {p} : leaders'[q] = leaders[q] /\ groups'[q] = groups[q]
  BY DEF Gone, Processes
<1>2. IsFiniteSet(groups'[p]) BY <1>1, FS_Subset DEF Processes
<1> QED BY <1>1, <1>2 DEF Processes

LEMMA Addition ==
  ASSUME Processes, NEW p \in Profiles, NEW n \in Start, Spawned(p, n), UNCHANGED lost
  PROVE  /\ Processes' /\ leaders'[p] = leaders[p] \cup {n}
         /\ \A q \in Profiles \ {p} : leaders'[q] = leaders[q]
<1>1. /\ leaders' \in [Profiles -> SUBSET Start] /\ groups' \in [Profiles -> SUBSET Start]
      /\ leaders'[p] = leaders[p] \cup {n} /\ groups'[p] = groups[p] \cup {n}
      /\ \A q \in Profiles \ {p} : leaders'[q] = leaders[q] /\ groups'[q] = groups[q]
  BY DEF Spawned, Processes
<1>2. IsFiniteSet(groups[p]) BY DEF Processes
<1>3. IsFiniteSet(groups'[p]) BY <1>1, <1>2, FS_AddElement
<1> QED BY <1>1, <1>3 DEF Processes

LEMMA Recording ==
  ASSUME record \in Records, reused \in [Profiles -> BOOLEAN], NEW p \in Profiles,
         NEW status \in {"starting", "running", "stopped", "failed"}, NEW n \in Nat,
         NEW digest \in 0 .. 2, Recorded(p, status, n, digest)
  PROVE  /\ record' \in Records /\ reused' \in [Profiles -> BOOLEAN]
         /\ record'[p].start = n /\ record'[p].current
         /\ \A q \in Profiles \ {p} : record'[q] = record[q]
BY DEF Recorded, Records

\* A stopped service has no recorded process any more.
LEMMA Stopping ==
  ASSUME record \in Records, Processes, reused \in [Profiles -> BOOLEAN],
         NEW p \in Profiles, Unrecorded(p), Stopped(p), UNCHANGED lost
  PROVE  /\ record' \in Records /\ Processes' /\ reused' \in [Profiles -> BOOLEAN]
         /\ record'[p].start = 0 /\ record'[p].current
         /\ leaders'[p] = leaders[p] \ (IF record[p].current THEN {record[p].start} ELSE {})
         /\ \A q \in Profiles \ {p} : record'[q] = record[q] /\ leaders'[q] = leaders[q]
<1>1. record[p].start \in Nat /\ record[p].digest \in 0 .. 2 /\ record[p].current \in BOOLEAN
  BY DEF Records
<1>2. Recorded(p, "stopped", 0, record[p].digest) BY DEF Stopped
<1>3. /\ record' \in Records /\ reused' \in [Profiles -> BOOLEAN]
      /\ record'[p].start = 0 /\ record'[p].current
      /\ \A q \in Profiles \ {p} : record'[q] = record[q]
  BY <1>1, <1>2, Recording
<1>4. CASE record[p].current
  <2>1. Gone(p, record[p].start) /\ record[p].start \notin lost[p]
    BY <1>4 DEF Stopped, Unrecorded
  <2> QED BY <1>3, <1>4, <2>1, Removal
<1>5. CASE ~record[p].current
  <2>1. UNCHANGED <<groups, leaders>> BY <1>5 DEF Stopped
  <2>2. Processes' BY <2>1 DEF Processes
  <2> QED BY <1>3, <1>5, <2>1, <2>2
<1> QED BY <1>1, <1>4, <1>5

\* A step of a command on the service of its profile.
LEMMA Served ==
  ASSUME IInv, NEW s \in Slot, NEW d, Becomes(s, d), Orderly(d), Onwards(slot[s], d),
         slot[s].steps # << >>, d.todo = slot[s].todo \/ ~Works(d),
         NEW p \in Profiles, p = At(slot[s]),
         record' \in Records, Processes', reused' \in [Profiles -> BOOLEAN],
         lock' \in [Profiles -> 0 .. Slots],
         Sound(p)',
         \A q \in Profiles \ {p} : /\ record'[q] = record[q] /\ leaders'[q] = leaders[q]
                                 /\ lost'[q] = lost[q] /\ lock'[q] = lock[q],
         UNCHANGED <<comp, creds, runtime, unit, source, helm, meddled, manifest>>,
         starting' \in [Profiles -> 0 .. Burst]
  PROVE  IInv'
<1>1. Types /\ Orders /\ ServiceInv /\ RecordInv BY Kinds
<1>2. Orders' BY <1>1, Changed
<1>3. RecordInv' BY <1>1, Steady
<1>4. \A t \in Slot : slot'[t].cmd \in {"idle", "composition", "profile", "child"}
  BY <1>2 DEF Orders, Work
<1>5. Types' BY <1>1, <1>4 DEF Types, TypeOK, ServicesTypeOK, Processes, Records
<1>6. ASSUME NEW q \in Profiles PROVE Sound(q)'
  <2>1. CASE q = p BY <2>1
  <2>2. CASE q # p
    <3>1. ~Holds(slot[s], q) /\ ~Holds(d, q)
      BY <2>2 DEF Holds, Spawning, Noting, Awaiting, Works, At
    <3> QED BY <1>1, <2>2, <3>1, Elsewhere DEF ServiceInv
  <2> QED BY <2>1, <2>2
<1> QED BY <1>2, <1>3, <1>5, <1>6 DEF IInv, ServiceInv

\* What a step on a service knows.
LEMMA AtService ==
  ASSUME IInv, NEW s \in Slot, slot[s].steps # << >>
  PROVE  /\ Orderly(slot[s]) /\ slot[s] \in Work /\ At(slot[s]) \in Profiles
         /\ Sound(At(slot[s])) /\ slot[s].spec \in 0 .. 2 /\ slot[s].start \in Nat
         /\ record \in Records /\ Processes /\ reused \in [Profiles -> BOOLEAN]
         /\ lock \in [Profiles -> 0 .. Slots] /\ starting \in [Profiles -> 0 .. Burst]
         /\ record[At(slot[s])].start \in Nat /\ record[At(slot[s])].digest \in 0 .. 2
<1>1. Orderly(slot[s]) /\ slot[s] \in Work /\ At(slot[s]) \in Profiles BY Kinds, Proceeding
<1>2. Sound(At(slot[s])) BY <1>1 DEF IInv, ServiceInv
<1>3. record \in Records /\ Processes /\ reused \in [Profiles -> BOOLEAN]
      /\ lock \in [Profiles -> 0 .. Slots] /\ starting \in [Profiles -> 0 .. Burst]
  BY Kinds, ServiceTypes DEF Types, TypeOK
<1>4. slot[s].spec \in 0 .. 2 /\ slot[s].start \in Nat BY <1>1 DEF Work
<1> QED BY <1>1, <1>2, <1>3, <1>4 DEF Records

\* Nobody holds the lock of the profile, and its living process is recorded.
LEMMA Unlocked ==
  ASSUME NEW p \in Profiles, Sound(p), lock[p] = 0
  PROVE  /\ \A t \in Slot : ~Holds(slot[t], p)
         /\ \A n \in leaders[p] \ lost[p] : record[p].start = n /\ record[p].current
<1>1. \A t \in Slot : ~Holds(slot[t], p) BY DevSessionAssumption DEF Sound, LockHeld, Slot
<1>2. \A t \in Slot : ~Noting(slot[t], p) BY <1>1 DEF Holds
<1> QED BY <1>1, <1>2 DEF Sound, Accounted

\* With nobody at the service and nothing alive without a record, it is sound.
LEMMA Resting ==
  ASSUME NEW p \in Profiles, \A t \in Slot : ~Holds(slot'[t], p), lock'[p] = 0,
         \A n \in leaders'[p] \ lost'[p] : record'[p].start = n /\ record'[p].current,
         record'[p].current => record'[p].start \notin lost'[p]
  PROVE  Sound(p)'
<1>1. \A t \in Slot : t # 0 BY DevSessionAssumption DEF Slot
<1>2. LockHeld(p)' BY <1>1 DEF LockHeld
<1>3. Accounted(p)' BY DEF Accounted, Holds
<1>4. Unrecorded(p)' BY DEF Unrecorded, Holds
<1> QED BY <1>2, <1>3, <1>4 DEF Sound

LEMMA StopStep == ASSUME IInv, NEW s \in Slot, Stop(s) PROVE IInv'
<1> DEFINE c == slot[s]
<1>0. PICK p \in Profiles : p = At(c) BY AtService DEF Stop, Now
<1>1. c.steps # << >> /\ Head(c.steps) = "stop" /\ lock[p] = 0 BY <1>0 DEF Stop, Now, Free
<1>2. UNCHANGED <<lost, lock, manifest, runtime, unit, comp, creds, source, helm, meddled>>
  BY DEF Stop
<1>3. /\ Orderly(c) /\ p \in Profiles /\ Sound(p) /\ record \in Records /\ Processes
      /\ reused \in [Profiles -> BOOLEAN] /\ lock \in [Profiles -> 0 .. Slots]
      /\ starting \in [Profiles -> 0 .. Burst] /\ ~Works(c)
  BY <1>0, <1>1, AtService DEF Works
<1>4. CASE Identity(p) = "identity-mismatch"
  <2>1. Return(s, FALSE) /\ UNCHANGED services BY <1>0, <1>2, <1>4 DEF Stop, services
  <2>2. manifest \in [Profiles -> {"none", "free", "bound"}] BY Kinds DEF Types, TypeOK
  <2> QED BY <1>1, <1>2, <1>3, <2>1, <2>2, Returning, Passing
<1>5. CASE Identity(p) # "identity-mismatch"
  <2> DEFINE d == Rest(s)
  <2>1. Becomes(s, d) /\ UNCHANGED starting
        /\ (Stopped(p) \/ UNCHANGED <<record, leaders, groups, reused>>)
    BY <1>0, <1>5 DEF Stop, Proceed
  <2>2. Orderly(d) /\ ~Works(d) /\ Onwards(c, d) BY <1>1, Proceeds
  <2> HIDE DEF d
  <2>3. CASE UNCHANGED <<record, leaders, groups, reused>>
    <3>1. manifest \in [Profiles -> {"none", "free", "bound"}] BY Kinds DEF Types, TypeOK
    <3> QED BY <1>2, <1>3, <2>1, <2>2, <2>3, <3>1, Passing DEF services
  <2>4. CASE Stopped(p)
    <3>1. /\ record' \in Records /\ Processes' /\ reused' \in [Profiles -> BOOLEAN]
          /\ record'[p].start = 0 /\ record'[p].current
          /\ leaders'[p] = leaders[p] \ (IF record[p].current THEN {record[p].start} ELSE {})
          /\ \A q \in Profiles \ {p} : record'[q] = record[q] /\ leaders'[q] = leaders[q]
      BY <1>2, <1>3, <2>4, Stopping DEF Sound
    <3>2. \A t \in Slot : ~Holds(slot'[t], p)
      <4>1. slot'[s] = d /\ \A t \in Slot \ {s} : slot'[t] = slot[t] BY <2>1, <2>2, Kinds, Changed
      <4>2. ~Holds(d, p) BY <2>2 DEF Holds, Spawning, Noting, Awaiting, Works
      <4> QED BY <1>1, <1>3, <4>1, <4>2, Unlocked
    <3>3. \A n \in leaders'[p] \ lost'[p] : FALSE BY <1>1, <1>2, <1>3, <3>1, Unlocked
    <3>4. 0 \notin lost'[p] BY <1>2, <1>3 DEF Processes, Start
    <3>5. Sound(p)' BY <1>1, <1>2, <3>1, <3>2, <3>3, <3>4, Resting
    <3> QED BY <1>0, <1>1, <1>2, <1>3, <2>1, <2>2, <3>1, <3>5, Served
  <2> QED BY <2>1, <2>3, <2>4
<1> QED BY <1>4, <1>5

\* A profile command that has failed writes what it found.
LEMMA Failing ==
  ASSUME IInv, NEW s \in Slot, slot[s].steps # << >>, Act(slot[s]) # "status", Past(slot[s]),
         NEW d, d = Fails(s)
  PROVE  Orderly(d) /\ ~Works(d) /\ Onwards(slot[s], d)
<1> DEFINE c == slot[s]
<1>1. Orderly(c) /\ c \in Work BY Kinds
<1>2. d = [c EXCEPT !.ok = FALSE, !.start = 0, !.steps = <<"close">>] BY DEF Fails
<1>3. Orderly(d) BY <1>1, <1>2, FailsOrderly
<1>4. /\ d.steps = <<"close">> /\ d.cmd = c.cmd /\ d.action = c.action /\ d.raced = c.raced
      /\ d.stage = c.stage /\ d.failed = c.failed /\ d.done = c.done /\ d.todo = c.todo
      /\ d.cred = c.cred /\ d.ok = FALSE
  BY <1>1, <1>2 DEF Work
<1>5. d.steps # << >> /\ Head(d.steps) = "close" BY <1>4
<1>6. ~Works(d) BY <1>5 DEF Works
<1>7. Onwards(c, d) BY <1>1, <1>3, <1>4, <1>5, InSteps
<1> QED BY <1>3, <1>6, <1>7

\* Who holds the lock is the only one at the service.
LEMMA Locked ==
  ASSUME NEW p \in Profiles, NEW s \in Slot, Sound(p), Holds(slot[s], p)
  PROVE  lock[p] = s /\ \A t \in Slot \ {s} : ~Holds(slot[t], p)
BY DEF Sound, LockHeld

\* Nobody is at the service after a step of the one who was, or of another.
LEMMA Leaving ==
  ASSUME Orders, NEW s \in Slot, NEW d, Becomes(s, d), Orderly(d), ~Works(d), NEW p \in Profiles,
         \A t \in Slot \ {s} : ~Holds(slot[t], p)
  PROVE  \A t \in Slot : ~Holds(slot'[t], p)
<1>1. slot'[s] = d /\ \A t \in Slot \ {s} : slot'[t] = slot[t] BY Changed
<1>2. ~Holds(d, p) BY DEF Holds, Spawning, Noting, Awaiting, Works
<1> QED BY <1>1, <1>2

LEMMA StopFailsStep == ASSUME IInv, NEW s \in Slot, StopFails(s) PROVE IInv'
<1>1. slot[s].steps # << >> /\ Head(slot[s].steps) = "stop" /\ ~Works(slot[s])
  BY DEF StopFails, Now, Works
<1>2. UNCHANGED <<services, manifest, comp, creds, runtime, unit, source, helm, meddled>>
  BY DEF StopFails, local
<1>3. manifest \in [Profiles -> {"none", "free", "bound"}] BY Kinds DEF Types, TypeOK
<1>4. Return(s, FALSE) BY DEF StopFails
<1> QED BY <1>1, <1>2, <1>3, <1>4, Returning, Passing

LEMMA UnitFailsStep == ASSUME IInv, NEW s \in Slot, UnitFails(s) PROVE IInv'
<1> DEFINE c == slot[s]
           d == Fails(s)
<1>1. c.steps # << >> /\ Head(c.steps) = "unit" /\ ~Works(c) /\ Past(c)
  BY DEF UnitFails, Now, Works, Past
<1>2. UNCHANGED <<services, manifest, comp, creds, runtime, unit, source, helm, meddled, starting>>
  BY DEF UnitFails, local
<1>3. /\ manifest \in [Profiles -> {"none", "free", "bound"}]
      /\ starting \in [Profiles -> 0 .. Burst]
  BY Kinds DEF Types, TypeOK
<1>4. Becomes(s, d) BY DEF UnitFails
<1>5. Act(c) # "status" BY <1>1, Kinds, Proceeding DEF Continues
<1>6. Orderly(d) /\ ~Works(d) /\ Onwards(c, d) BY <1>1, <1>5, Failing
<1> HIDE DEF d
<1> QED BY <1>1, <1>2, <1>3, <1>4, <1>6, Passing

\* The owner's command has run, and the service may go on to the unit.
LEMMA Serves ==
  ASSUME IInv, NEW s \in Slot, slot[s].steps # << >>,
         Head(slot[s].steps) \in {"reconcile", "await"}, NEW d,
         d = [slot[s] EXCEPT !.steps = Tail(@), !.start = 0]
  PROVE  Orderly(d) /\ ~Works(d) /\ Onwards(slot[s], d)
<1> DEFINE c == slot[s]
<1>1. Orderly(c) /\ c \in Work BY Kinds
<1>2. Continues(c.steps, Act(c)) BY <1>1, Proceeding
<1>3. Act(c) = "up" BY <1>2 DEF Continues
<1>4. Orderly(d) BY <1>1, <1>3, RestOrderly
<1>5. /\ d.steps = Tail(c.steps) /\ d.cmd = c.cmd /\ d.action = c.action /\ d.raced = c.raced
      /\ d.stage = c.stage /\ d.failed = c.failed /\ d.done = c.done /\ d.todo = c.todo
      /\ d.cred = c.cred /\ d.ok = c.ok
  BY <1>1 DEF Work
<1>6. d.steps # << >> /\ Head(d.steps) = "unit" BY <1>2, <1>3, <1>5 DEF Continues
<1>7. ~Works(d) /\ Past(c) BY <1>6 DEF Works, Past
<1>8. Onwards(c, d) BY <1>1, <1>4, <1>5, <1>6, <1>7, InSteps
<1> QED BY <1>4, <1>7, <1>8

LEMMA ReconcileStep == ASSUME IInv, NEW s \in Slot, Reconcile(s) PROVE IInv'
<1> DEFINE c == slot[s]
<1>0. PICK p \in Profiles : p = At(c) BY AtService DEF Reconcile, Now
<1>1. c.steps # << >> /\ Head(c.steps) = "reconcile" /\ lock[p] = 0
  BY <1>0 DEF Reconcile, Now, Free
<1>2. UNCHANGED <<lost, manifest, runtime, unit, starting, comp, creds, source, helm, meddled>>
  BY DEF Reconcile
<1>3. /\ Orderly(c) /\ c \in Work /\ p \in Profiles /\ Sound(p) /\ record \in Records /\ Processes
      /\ reused \in [Profiles -> BOOLEAN] /\ lock \in [Profiles -> 0 .. Slots]
      /\ starting \in [Profiles -> 0 .. Burst] /\ ~Works(c) /\ c.start = 0
  BY <1>0, <1>1, AtService DEF Works, Orderly
<1>4. manifest \in [Profiles -> {"none", "free", "bound"}] BY Kinds DEF Types, TypeOK
<1>5. Continues(c.steps, Act(c)) /\ Act(c) = "up" BY <1>1, <1>3, Proceeding DEF Continues
<1> DEFINE r == Rest(s)
<1>6. r = [c EXCEPT !.steps = Tail(@), !.start = 0] BY <1>3 DEF Rest, Work
<1>7. Orderly(r) /\ ~Works(r) /\ Onwards(c, r) BY <1>1, <1>6, Serves
<1>8. CASE Becomes(s, Fails(s)) /\ UNCHANGED <<record, leaders, groups, reused, lock>>
  <2> DEFINE d == Fails(s)
  <2>1. Past(c) BY <1>1 DEF Past
  <2>2. Orderly(d) /\ ~Works(d) /\ Onwards(c, d) BY <1>1, <1>5, <2>1, Failing
  <2> HIDE DEF d
  <2>3. Becomes(s, d) BY <1>8 DEF d
  <2> QED BY <1>2, <1>3, <1>4, <1>8, <2>2, <2>3, Passing DEF services
<1>9. CASE Becomes(s, r) /\ UNCHANGED <<record, leaders, groups, reused, lock>>
  <2> HIDE DEF r
  <2> QED BY <1>2, <1>3, <1>4, <1>7, <1>9, Passing DEF services
<1>10. CASE Becomes(s, r) /\ Stopped(p) /\ UNCHANGED lock
  <2> HIDE DEF r
  <2>1. /\ record' \in Records /\ Processes' /\ reused' \in [Profiles -> BOOLEAN]
        /\ record'[p].start = 0 /\ record'[p].current
        /\ leaders'[p] = leaders[p] \ (IF record[p].current THEN {record[p].start} ELSE {})
        /\ \A q \in Profiles \ {p} : record'[q] = record[q] /\ leaders'[q] = leaders[q]
    BY <1>2, <1>3, <1>10, Stopping DEF Sound
  <2>2. \A t \in Slot : ~Holds(slot'[t], p)
    BY <1>1, <1>3, <1>7, <1>10, Kinds, Unlocked, Leaving
  <2>3. \A n \in leaders'[p] \ lost'[p] : FALSE BY <1>1, <1>2, <1>3, <2>1, Unlocked
  <2>4. 0 \notin lost'[p] BY <1>2, <1>3 DEF Processes, Start
  <2>5. Sound(p)' BY <1>1, <1>10, <2>1, <2>2, <2>3, <2>4, Resting
  <2> QED BY <1>0, <1>1, <1>2, <1>3, <1>7, <1>10, <2>1, <2>5, Served
<1>11. CASE /\ Cleared(p) /\ Take(p, s)
            /\ Becomes(s, [r EXCEPT !.steps = <<"spawn", "note", "await">> \o @])
  <2> DEFINE d == [r EXCEPT !.steps = <<"spawn", "note", "await">> \o @]
  <2>1. r.steps = Tail(c.steps) /\ r \in Work BY <1>3, <1>6, <1>7 DEF Work, Orderly
  <2> HIDE DEF r
  <2>2. /\ <<"spawn", "note", "await">> \o Tail(c.steps) \in Rests(Act(c))
        /\ <<"spawn", "note", "await">> \o Tail(c.steps) \in Seq(StepName)
        /\ <<"spawn", "note", "await">> \o Tail(c.steps) # << >>
        /\ Head(<<"spawn", "note", "await">> \o Tail(c.steps)) = "spawn"
    <3>1. Tail(c.steps) \in Seq(StepName) BY <1>1, <1>3, Proceeding
    <3>2. <<"spawn", "note", "await">> \in Seq(StepName) /\ Len(<<"spawn", "note", "await">>) = 3
      BY DEF StepName
    <3> QED BY <1>1, <1>5, <3>1, <3>2 DEF Continues
  <2>3. /\ d \in Work /\ d.steps = <<"spawn", "note", "await">> \o Tail(c.steps)
        /\ d.cmd = r.cmd /\ d.action = r.action /\ d.raced = r.raced /\ d.stage = r.stage
        /\ d.failed = r.failed /\ d.done = r.done /\ d.todo = r.todo /\ d.ok = r.ok
        /\ d.start = r.start /\ d.undo = r.undo /\ d.cred = r.cred
    BY <2>1, <2>2 DEF Work
  <2>4. /\ r.cmd = c.cmd /\ r.action = c.action /\ r.raced = c.raced /\ r.stage = c.stage
        /\ r.failed = c.failed /\ r.done = c.done /\ r.todo = c.todo /\ r.ok = c.ok
        /\ r.start = 0 /\ r.undo = c.undo /\ r.cred = c.cred
    BY <1>3, <1>6 DEF Work
  <2> HIDE DEF d
  <2>5. d.steps # << >> /\ Head(d.steps) = "spawn" /\ Act(d) = Act(c) /\ At(d) = p
    BY <1>0, <2>2, <2>3, <2>4 DEF Act, At
  <2>6. Orderly(d)
    BY <1>1, <1>3, <1>5, <1>7, <2>2, <2>3, <2>4, <2>5 DEF Orderly
  <2>7. Past(d) /\ Past(c) BY <1>1, <2>5 DEF Past
  <2>8. Onwards(c, d) BY <1>1, <1>3, <2>3, <2>4, <2>5, <2>6, <2>7, InSteps
  <2>9. Becomes(s, d) BY <1>11 DEF d
  <2>10. slot'[s] = d /\ \A t \in Slot \ {s} : slot'[t] = slot[t] BY <2>6, <2>9, Kinds, Changed
  <2>11. \A t \in Slot : ~Holds(slot[t], p) BY <1>1, <1>3, Unlocked
  <2>12. /\ record' \in Records /\ Processes' /\ reused' \in [Profiles -> BOOLEAN]
         /\ leaders'[p] \ lost'[p] = {}
         /\ record'[p].current => record'[p].start \notin lost'[p]
         /\ \A q \in Profiles \ {p} : record'[q] = record[q] /\ leaders'[q] = leaders[q]
    <3>1. \A n \in leaders[p] \ lost[p] : record[p].start = n /\ record[p].current
      BY <1>1, <1>3, Unlocked
    <3>2. CASE Identity(p) = "running"
      <4>1. Stopped(p) BY <1>11, <3>2 DEF Cleared
      <4>2. /\ record' \in Records /\ Processes' /\ reused' \in [Profiles -> BOOLEAN]
            /\ record'[p].start = 0 /\ record'[p].current
            /\ leaders'[p] = leaders[p] \ (IF record[p].current THEN {record[p].start} ELSE {})
            /\ \A q \in Profiles \ {p} : record'[q] = record[q] /\ leaders'[q] = leaders[q]
        BY <1>2, <1>3, <4>1, Stopping DEF Sound
      <4>3. 0 \notin lost'[p] BY <1>2, <1>3 DEF Processes, Start
      <4> QED BY <1>2, <3>1, <4>2, <4>3
    <3>3. CASE Identity(p) # "running"
      <4>1. UNCHANGED <<record, leaders, groups, reused>> BY <1>11, <3>3 DEF Cleared
      <4>2. Processes' BY <1>2, <1>3, <4>1 DEF Processes
      <4>3. ASSUME NEW n \in leaders[p] \ lost[p] PROVE FALSE
        <5>1. n \in Start /\ record[p].start = n /\ record[p].current
          BY <1>3, <3>1, <4>3 DEF Processes
        <5> QED BY <3>3, <4>3, <5>1 DEF Identity, Start
      <4> QED BY <1>2, <1>3, <4>1, <4>2, <4>3 DEF Sound, Unrecorded
    <3> QED BY <3>2, <3>3
  <2>13. lock' \in [Profiles -> 0 .. Slots] /\ lock'[p] = s
         /\ \A q \in Profiles \ {p} : lock'[q] = lock[q]
    BY <1>3, <1>11, DevSessionAssumption DEF Take, Slot
  <2>14. Sound(p)'
    <3>1. Spawning(d, p) /\ ~Noting(d, p) /\ ~Awaiting(d, p)
      BY <2>5 DEF Spawning, Noting, Awaiting
    <3>2. \A t \in Slot : (Holds(slot'[t], p) <=> t = s)
                          /\ ~Noting(slot'[t], p) /\ ~Awaiting(slot'[t], p)
      BY <2>10, <2>11, <3>1 DEF Holds
    <3>3. LockHeld(p)' BY <2>13, <3>2 DEF LockHeld
    <3>4. Accounted(p)' BY <2>12 DEF Accounted
    <3>5. Unrecorded(p)' BY <2>12, <3>2 DEF Unrecorded
    <3> QED BY <3>3, <3>4, <3>5 DEF Sound
  <2> QED BY <1>0, <1>1, <1>2, <1>3, <2>3, <2>4, <2>6, <2>8, <2>9, <2>12, <2>13, <2>14, Served
<1>12. \/ Becomes(s, Fails(s)) /\ UNCHANGED <<record, leaders, groups, reused, lock>>
       \/ Becomes(s, r) /\ UNCHANGED <<record, leaders, groups, reused, lock>>
       \/ Becomes(s, r) /\ Stopped(p) /\ UNCHANGED lock
       \/ /\ Cleared(p) /\ Take(p, s)
          /\ Becomes(s, [r EXCEPT !.steps = <<"spawn", "note", "await">> \o @])
  BY <1>0 DEF Reconcile, Proceed
<1> QED BY <1>8, <1>9, <1>10, <1>11, <1>12

\* There is always a number that stands for no process.
LEMMA UnusedNumber ==
  ASSUME NEW p \in Profiles, Processes, record \in Records
  PROVE  Unused(p) \in Start /\ Unused(p) \notin groups[p] /\ Unused(p) # record[p].start
<1> DEFINE g == groups[p] \cup {record[p].start}
           k == Cardinality(groups[p])
           free == 1 .. k + 2 \ g
<1>1. IsFiniteSet(groups[p]) /\ k \in Nat BY FS_CardinalityType DEF Processes
<1>2. IsFiniteSet(g) /\ Cardinality(g) <= k + 1 /\ Cardinality(g) \in Nat
  <2>1. IsFiniteSet(g) /\ (Cardinality(g) = k \/ Cardinality(g) = k + 1) BY <1>1, FS_AddElement
  <2> HIDE DEF g, k
  <2> QED BY <1>1, <2>1
<1> HIDE DEF k
<1>3. IsFiniteSet(1 .. k + 2) /\ Cardinality(1 .. k + 2) = k + 2
  <2>1. k + 2 \in Nat /\ 1 \in Int BY <1>1
  <2>2. \A a, b \in Int : IsFiniteSet(a .. b) /\ Cardinality(a .. b) = IF a > b THEN 0 ELSE (b - a) + 1
    BY FS_Interval
  <2>3. IsFiniteSet(1 .. k + 2) /\ Cardinality(1 .. k + 2) = IF 1 > k + 2 THEN 0 ELSE ((k + 2) - 1) + 1
    BY <2>1, <2>2
  <2> QED BY <2>1, <2>3
<1> HIDE DEF g
<1>4. free # {}
  <2>1. SUFFICES ASSUME 1 .. k + 2 \subseteq g PROVE FALSE OBVIOUS
  <2>2. Cardinality(1 .. k + 2) <= Cardinality(g) BY <1>2, <2>1, FS_Subset
  <2> QED BY <1>1, <1>2, <1>3, <2>2
<1>5. \E n \in 1 .. k + 2 : n \notin g BY <1>4
<1>6. Unused(p) = CHOOSE n \in 1 .. k + 2 : n \notin g BY DEF Unused, g, k
<1>7. Unused(p) \in 1 .. k + 2 /\ Unused(p) \notin g BY <1>5, <1>6
<1> QED BY <1>1, <1>7 DEF g, Start

LEMMA SpawnStep == ASSUME IInv, NEW s \in Slot, Spawn(s) PROVE IInv'
<1> DEFINE c == slot[s]
<1>0. PICK p \in Profiles : p = At(c) BY AtService DEF Spawn, Now
<1>1. c.steps # << >> /\ Head(c.steps) = "spawn" /\ Spawning(c, p) /\ Past(c)
  BY <1>0 DEF Spawn, Now, Spawning, Past
<1>2. UNCHANGED <<record, reused, lost, lock, manifest, runtime, unit, starting, comp, creds, source,
                  helm, meddled>>
  BY DEF Spawn
<1>3. /\ Orderly(c) /\ c \in Work /\ p \in Profiles /\ Sound(p) /\ record \in Records /\ Processes
      /\ reused \in [Profiles -> BOOLEAN] /\ lock \in [Profiles -> 0 .. Slots]
      /\ starting \in [Profiles -> 0 .. Burst]
  BY <1>0, <1>1, AtService
<1>4. Continues(c.steps, Act(c)) /\ Act(c) = "up" BY <1>1, <1>3, Proceeding DEF Continues
<1>5. PICK n \in Start : n = Unused(p) BY <1>3, UnusedNumber
<1>6. n \notin groups[p] /\ n # record[p].start /\ n \notin lost[p]
  BY <1>3, <1>5, UnusedNumber DEF Processes
<1> DEFINE d == [c EXCEPT !.steps = Tail(@), !.start = n]
<1>7. Becomes(s, d) /\ Spawned(p, n)
  <2>1. [Rest(s) EXCEPT !.start = n] = d BY <1>3 DEF Rest, Work
  <2> QED BY <1>0, <1>5, <2>1 DEF Spawn
<1>8. /\ d \in Work /\ d.steps = Tail(c.steps) /\ d.start = n /\ d.cmd = c.cmd
      /\ d.action = c.action /\ d.raced = c.raced /\ d.stage = c.stage /\ d.undo = c.undo
      /\ d.failed = c.failed /\ d.done = c.done /\ d.todo = c.todo /\ d.cred = c.cred /\ d.ok = c.ok
  <2>1. Tail(c.steps) \in Seq(StepName) BY <1>1, <1>3, Proceeding
  <2> QED BY <1>3, <2>1 DEF Work, Start
<1> HIDE DEF d
<1>9. d.steps # << >> /\ Head(d.steps) = "note" /\ Act(d) = Act(c) /\ At(d) = p
  BY <1>0, <1>1, <1>4, <1>8 DEF Continues, Act, At
<1>10. Orderly(d) BY <1>1, <1>3, <1>4, <1>8, <1>9 DEF Orderly, Continues
<1>11. Onwards(c, d) BY <1>1, <1>3, <1>8, <1>9, <1>10, InSteps
<1>12. slot'[s] = d /\ \A t \in Slot \ {s} : slot'[t] = slot[t] BY <1>7, <1>10, Kinds, Changed
<1>13. Holds(c, p) /\ lock[p] = s /\ \A t \in Slot \ {s} : ~Holds(slot[t], p)
  BY <1>1, <1>3, Locked DEF Holds
<1>14. leaders[p] \ lost[p] = {}
  <2>1. \A t \in Slot : ~Noting(slot[t], p) BY <1>1, <1>13 DEF Holds, Noting
  <2> QED BY <1>1, <1>3, <2>1 DEF Sound, Accounted
<1>15. /\ Processes' /\ leaders'[p] = leaders[p] \cup {n}
       /\ \A q \in Profiles \ {p} : leaders'[q] = leaders[q]
  BY <1>2, <1>3, <1>7, Addition
<1>16. Sound(p)'
  <2>1. Noting(d, p) /\ ~Spawning(d, p) /\ ~Awaiting(d, p) BY <1>9 DEF Spawning, Noting, Awaiting
  <2>2. \A t \in Slot : (Holds(slot'[t], p) <=> t = s) /\ (Noting(slot'[t], p) <=> t = s)
                        /\ ~Awaiting(slot'[t], p)
    BY <1>12, <1>13, <2>1 DEF Holds
  <2>3. LockHeld(p)' BY <1>2, <1>13, <2>2 DEF LockHeld
  <2>4. Accounted(p)' BY <1>2, <1>8, <1>12, <1>14, <1>15, <2>2 DEF Accounted
  <2>5. Unrecorded(p)' BY <1>2, <1>3, <1>6, <1>8, <1>12, <2>2 DEF Unrecorded, Sound
  <2> QED BY <2>3, <2>4, <2>5 DEF Sound
<1>17. \A q \in Profiles \ {p} : record'[q] = record[q] /\ lost'[q] = lost[q] /\ lock'[q] = lock[q]
  BY <1>2
<1> QED BY <1>0, <1>1, <1>2, <1>3, <1>7, <1>8, <1>10, <1>11, <1>15, <1>16, <1>17, Served

\* Who was at the service leaves it, with its process recorded or gone.
LEMMA Left ==
  ASSUME IInv, NEW s \in Slot, NEW d, Becomes(s, d), Orderly(d), Onwards(slot[s], d), ~Works(d),
         slot[s].steps # << >>, NEW p \in Profiles, p = At(slot[s]), Holds(slot[s], p), Yield(p),
         record' \in Records, Processes', reused' \in [Profiles -> BOOLEAN],
         \A n \in leaders'[p] \ lost'[p] : record'[p].start = n /\ record'[p].current,
         record'[p].current => record'[p].start \notin lost'[p],
         \A q \in Profiles \ {p} : record'[q] = record[q] /\ leaders'[q] = leaders[q],
         UNCHANGED <<lost, manifest, runtime, unit, starting, comp, creds, source, helm, meddled>>
  PROVE  IInv'
<1>1. Sound(p) /\ lock \in [Profiles -> 0 .. Slots] /\ starting \in [Profiles -> 0 .. Burst]
  BY AtService
<1>2. /\ lock' \in [Profiles -> 0 .. Slots] /\ lock'[p] = 0
      /\ \A q \in Profiles \ {p} : lock'[q] = lock[q] /\ lost'[q] = lost[q]
  BY <1>1, DevSessionAssumption DEF Yield
<1>3. \A t \in Slot : ~Holds(slot'[t], p) BY <1>1, Locked, Leaving, Kinds
<1>4. Sound(p)' BY <1>2, <1>3, Resting
<1> QED BY <1>1, <1>2, <1>4, Served

LEMMA SpawnFailsStep == ASSUME IInv, NEW s \in Slot, SpawnFails(s) PROVE IInv'
<1> DEFINE c == slot[s]
<1>0. PICK p \in Profiles : p = At(c) BY AtService DEF SpawnFails, Now
<1>1. c.steps # << >> /\ Head(c.steps) = "spawn" /\ Spawning(c, p) /\ Past(c) /\ Holds(c, p)
  BY <1>0 DEF SpawnFails, Now, Spawning, Past, Holds
<1>2. UNCHANGED <<record, leaders, groups, reused, lost, manifest, runtime, unit, starting, comp,
                  creds, source, helm, meddled>> /\ Yield(p)
  BY <1>0 DEF SpawnFails
<1>3. Orderly(c) /\ Sound(p) /\ record \in Records /\ Processes /\ reused \in [Profiles -> BOOLEAN]
  BY <1>0, <1>1, AtService
<1>4. Act(c) # "status" BY <1>1, <1>3, Proceeding DEF Continues
<1> DEFINE d == Fails(s)
<1>5. Orderly(d) /\ ~Works(d) /\ Onwards(c, d) BY <1>1, <1>4, Failing
<1>6. Becomes(s, d) BY DEF SpawnFails
<1> HIDE DEF d
<1>7. leaders[p] \ lost[p] = {}
  <2>1. \A t \in Slot \ {s} : ~Holds(slot[t], p) BY <1>1, <1>3, Locked
  <2>2. \A t \in Slot : ~Noting(slot[t], p) BY <1>1, <2>1 DEF Holds, Noting
  <2> QED BY <1>1, <1>3, <2>2 DEF Sound, Accounted
<1>8. Processes' BY <1>2, <1>3 DEF Processes
<1>9. record[p].current => record[p].start \notin lost[p] BY <1>3 DEF Sound, Unrecorded
<1> QED BY <1>0, <1>1, <1>2, <1>3, <1>5, <1>6, <1>7, <1>8, <1>9, Left

LEMMA NoteStep == ASSUME IInv, NEW s \in Slot, Note(s) PROVE IInv'
<1> DEFINE c == slot[s]
           n == c.start
<1>0. PICK p \in Profiles : p = At(c) BY AtService DEF Note, Now
<1>1. c.steps # << >> /\ Head(c.steps) = "note" /\ Noting(c, p) /\ Past(c) /\ Holds(c, p)
  BY <1>0 DEF Note, Now, Noting, Past, Holds
<1>2. UNCHANGED <<lost, manifest, runtime, unit, starting, comp, creds, source, helm, meddled>>
  BY DEF Note
<1>3. /\ Orderly(c) /\ c \in Work /\ Sound(p) /\ record \in Records /\ Processes
      /\ reused \in [Profiles -> BOOLEAN] /\ n \in Nat /\ c.spec \in 0 .. 2
      /\ lock \in [Profiles -> 0 .. Slots] /\ starting \in [Profiles -> 0 .. Burst]
  BY <1>0, <1>1, AtService
<1>4. Continues(c.steps, Act(c)) /\ Act(c) = "up" BY <1>1, <1>3, Proceeding DEF Continues
<1>5. lock[p] = s /\ \A t \in Slot \ {s} : ~Holds(slot[t], p) BY <1>1, <1>3, Locked
<1>6. \A m \in leaders[p] \ lost[p] : m = n
  <2>1. \A t \in Slot : Noting(slot[t], p) => t = s BY <1>5 DEF Holds
  <2> QED BY <1>1, <1>3, <2>1 DEF Sound, Accounted
<1>7. n \notin lost[p] /\ (record[p].current => record[p].start \notin lost[p])
  BY <1>1, <1>3 DEF Sound, Unrecorded
<1>8. CASE n \in leaders[p]
  <2> DEFINE d == Rest(s)
  <2>1. Recorded(p, "starting", n, c.spec) /\ Becomes(s, d) /\ UNCHANGED <<leaders, groups, lock>>
    BY <1>0, <1>8 DEF Note, Proceed
  <2>2. /\ d \in Work /\ d.steps = Tail(c.steps) /\ d.start = n /\ d.cmd = c.cmd
        /\ d.action = c.action /\ d.raced = c.raced /\ d.stage = c.stage /\ d.undo = c.undo
        /\ d.failed = c.failed /\ d.done = c.done /\ d.todo = c.todo /\ d.cred = c.cred
        /\ d.ok = c.ok
    <3>1. Tail(c.steps) \in Seq(StepName) BY <1>1, <1>3, Proceeding
    <3> QED BY <1>3, <3>1 DEF Rest, Work
  <2> HIDE DEF d
  <2>3. d.steps # << >> /\ Head(d.steps) = "await" /\ Act(d) = Act(c) /\ At(d) = p
    BY <1>0, <1>1, <1>4, <2>2 DEF Continues, Act, At
  <2>4. Orderly(d) BY <1>1, <1>3, <1>4, <2>2, <2>3 DEF Orderly, Continues
  <2>5. Onwards(c, d) BY <1>1, <1>3, <2>2, <2>3, <2>4, InSteps
  <2>6. slot'[s] = d /\ \A t \in Slot \ {s} : slot'[t] = slot[t] BY <2>1, <2>4, Kinds, Changed
  <2>7. /\ record' \in Records /\ reused' \in [Profiles -> BOOLEAN]
        /\ record'[p].start = n /\ record'[p].current
        /\ \A q \in Profiles \ {p} : record'[q] = record[q]
    BY <1>3, <2>1, Recording
  <2>8. Sound(p)'
    <3>1. Awaiting(d, p) /\ ~Spawning(d, p) /\ ~Noting(d, p) BY <2>3 DEF Spawning, Noting, Awaiting
    <3>2. \A t \in Slot : (Holds(slot'[t], p) <=> t = s) /\ ~Noting(slot'[t], p)
                          /\ ~Spawning(slot'[t], p)
      BY <1>5, <2>6, <3>1 DEF Holds
    <3>3. LockHeld(p)' BY <1>5, <2>1, <3>2 DEF LockHeld
    <3>4. Accounted(p)' BY <1>2, <1>6, <2>1, <2>7, <3>2 DEF Accounted
    <3>5. Unrecorded(p)' BY <1>2, <1>7, <2>7, <3>2 DEF Unrecorded
    <3> QED BY <3>3, <3>4, <3>5 DEF Sound
  <2>9. Processes' /\ \A q \in Profiles \ {p} : leaders'[q] = leaders[q] /\ lost'[q] = lost[q]
                                                /\ lock'[q] = lock[q]
    BY <1>2, <1>3, <2>1 DEF Processes
  <2> QED BY <1>0, <1>1, <1>2, <1>3, <2>1, <2>2, <2>4, <2>5, <2>7, <2>8, <2>9, Served
<1>9. CASE n \notin leaders[p]
  <2> DEFINE d == Fails(s)
  <2>1. Gone(p, n) /\ Yield(p) /\ Becomes(s, d) /\ UNCHANGED <<record, reused>>
    BY <1>0, <1>9 DEF Note
  <2>2. Orderly(d) /\ ~Works(d) /\ Onwards(c, d) BY <1>1, <1>4, Failing
  <2> HIDE DEF d
  <2>3. /\ Processes' /\ leaders'[p] = leaders[p] \ {n}
        /\ \A q \in Profiles \ {p} : leaders'[q] = leaders[q]
    BY <1>2, <1>3, <1>7, <2>1, Removal
  <2>4. leaders'[p] \ lost'[p] = {} BY <1>2, <1>6, <2>3
  <2> QED BY <1>0, <1>1, <1>2, <1>3, <1>7, <2>1, <2>2, <2>3, <2>4, Left
<1> QED BY <1>8, <1>9

\* A service that is waited for has its process recorded.
LEMMA Awaited ==
  ASSUME IInv, NEW s \in Slot, NEW p \in Profiles, p = At(slot[s]), Now(s, "await")
  PROVE  /\ Orderly(slot[s]) /\ Act(slot[s]) # "status" /\ Past(slot[s]) /\ Holds(slot[s], p)
         /\ record[p].current /\ record[p].start \notin lost[p]
         /\ \A n \in leaders[p] \ lost[p] : record[p].start = n
<1>1. slot[s].steps # << >> /\ Head(slot[s].steps) = "await" BY DEF Now
<1>2. Awaiting(slot[s], p) /\ Past(slot[s]) /\ Holds(slot[s], p) BY <1>1 DEF Awaiting, Past, Holds
<1>3. Orderly(slot[s]) /\ Sound(p) BY <1>1, AtService
<1>4. Act(slot[s]) # "status" BY <1>1, <1>3, Proceeding DEF Continues
<1>5. record[p].current /\ record[p].start \notin lost[p] BY <1>2, <1>3 DEF Sound, Unrecorded
<1>6. \A t \in Slot : ~Noting(slot[t], p)
  <2>1. \A t \in Slot \ {s} : ~Holds(slot[t], p) BY <1>2, <1>3, Locked
  <2> QED BY <1>1, <2>1 DEF Holds, Noting
<1> QED BY <1>2, <1>3, <1>4, <1>5, <1>6 DEF Sound, Accounted

LEMMA UnreadyStep ==
  ASSUME IInv, NEW s \in Slot, NEW p \in Profiles, p = At(slot[s]), Now(s, "await"),
         Unready(s, p), Yield(p),
         UNCHANGED <<lost, manifest, runtime, unit, starting, comp, creds, source, helm, meddled>>
  PROVE  IInv'
<1> DEFINE d == Fails(s)
<1>1. slot[s].steps # << >> BY DEF Now
<1>2. /\ Orderly(slot[s]) /\ Act(slot[s]) # "status" /\ Past(slot[s]) /\ Holds(slot[s], p)
      /\ record[p].current /\ record[p].start \notin lost[p]
      /\ \A n \in leaders[p] \ lost[p] : record[p].start = n
  BY Awaited
<1>3. /\ record \in Records /\ Processes /\ reused \in [Profiles -> BOOLEAN]
      /\ slot[s].spec \in 0 .. 2
  BY <1>1, AtService
<1>4. Gone(p, record[p].start) /\ Recorded(p, "failed", 0, slot[s].spec) /\ Becomes(s, d)
  BY DEF Unready
<1>5. Orderly(d) /\ ~Works(d) /\ Onwards(slot[s], d) BY <1>1, <1>2, Failing
<1> HIDE DEF d
<1>6. /\ Processes' /\ leaders'[p] = leaders[p] \ {record[p].start}
      /\ \A q \in Profiles \ {p} : leaders'[q] = leaders[q]
  BY <1>2, <1>3, <1>4, Removal
<1>7. /\ record' \in Records /\ reused' \in [Profiles -> BOOLEAN]
      /\ record'[p].start = 0 /\ record'[p].current
      /\ \A q \in Profiles \ {p} : record'[q] = record[q]
  BY <1>3, <1>4, Recording
<1>8. leaders'[p] \ lost'[p] = {} BY <1>2, <1>6
<1>9. 0 \notin lost'[p] BY <1>3 DEF Processes, Start
<1> QED BY <1>1, <1>2, <1>4, <1>5, <1>6, <1>7, <1>8, <1>9, Left

LEMMA AwaitStep == ASSUME IInv, NEW s \in Slot, Await(s) PROVE IInv'
<1> DEFINE c == slot[s]
<1>0. PICK p \in Profiles : p = At(c) BY AtService DEF Await, Now
<1>1. Now(s, "await") /\ c.steps # << >> /\ Head(c.steps) = "await" /\ Yield(p)
  BY <1>0 DEF Await, Now
<1>2. UNCHANGED <<lost, manifest, runtime, unit, starting, comp, creds, source, helm, meddled>>
  BY DEF Await
<1>3. CASE Identity(p) # "running"
  <2>1. Unready(s, p) BY <1>0, <1>3 DEF Await
  <2> QED BY <1>0, <1>1, <1>2, <2>1, UnreadyStep
<1>4. CASE Identity(p) = "running"
  <2> DEFINE d == [c EXCEPT !.steps = Tail(@), !.start = 0]
  <2>1. /\ Orderly(c) /\ Holds(c, p) /\ record[p].start \notin lost[p]
        /\ \A n \in leaders[p] \ lost[p] : record[p].start = n
    BY <1>0, <1>1, Awaited
  <2>2. /\ record \in Records /\ Processes /\ reused \in [Profiles -> BOOLEAN] /\ c \in Work
        /\ record[p].start \in Nat /\ record[p].digest \in 0 .. 2
    BY <1>0, <1>1, AtService
  <2>3. Becomes(s, d)
    <3>1. [Rest(s) EXCEPT !.start = 0] = d BY <2>2 DEF Rest, Work
    <3> QED BY <1>0, <1>4, <3>1 DEF Await
  <2>4. Orderly(d) /\ ~Works(d) /\ Onwards(c, d) BY <1>1, Serves
  <2> HIDE DEF d
  <2>5. Recorded(p, "running", record[p].start, record[p].digest) /\ UNCHANGED <<leaders, groups>>
    BY <1>0, <1>4 DEF Await
  <2>6. /\ record' \in Records /\ reused' \in [Profiles -> BOOLEAN]
        /\ record'[p].start = record[p].start /\ record'[p].current
        /\ \A q \in Profiles \ {p} : record'[q] = record[q]
    BY <2>2, <2>5, Recording
  <2>7. Processes' BY <1>2, <2>2, <2>5 DEF Processes
  <2> QED BY <1>0, <1>1, <1>2, <2>1, <2>3, <2>4, <2>5, <2>6, <2>7, Left
<1> QED BY <1>3, <1>4

LEMMA AwaitFailsStep == ASSUME IInv, NEW s \in Slot, AwaitFails(s) PROVE IInv'
<1>1. Now(s, "await") /\ Unready(s, At(slot[s])) /\ Yield(At(slot[s]))
  BY DEF AwaitFails
<1>2. UNCHANGED <<lost, manifest, runtime, unit, starting, comp, creds, source, helm, meddled>>
  BY DEF AwaitFails
<1>3. At(slot[s]) \in Profiles BY <1>1, AtService DEF Now
<1> QED BY <1>1, <1>2, <1>3, UnreadyStep

-----------------------------------------------------------------------------
(* The owner's command.                                                    *)

LEMMA Effects ==
  ASSUME NEW s \in Slot, slot[s] \in Work, NEW p \in Profiles, p = At(slot[s]),
         runtime \in [Profiles -> [up : BOOLEAN, cred : Credential]],
         NEW e, e = Effect(s)
  PROVE  /\ e \in [Profiles -> [up : BOOLEAN, cred : Credential]]
         /\ \A q \in Profiles \ {p} : e[q] = runtime[q]
         /\ Act(slot[s]) = "up" =>
              e[p] = [up |-> TRUE, cred |-> IF Composed(slot[s]) THEN slot[s].cred ELSE 0]
         /\ Act(slot[s]) = "down" => ~e[p].up
         /\ Act(slot[s]) \notin {"up", "down"} => e = runtime
<1>1. slot[s].cred \in Credential /\ 0 \in Credential BY CredentialType DEF Work
<1>2. CASE Act(slot[s]) = "up"
  <2> DEFINE value == IF Composed(slot[s]) THEN slot[s].cred ELSE 0
  <2>1. value \in Credential BY <1>1
  <2>2. e = [runtime EXCEPT ![p] = [up |-> TRUE, cred |-> value]] BY <1>2 DEF Effect
  <2> HIDE DEF value
  <2>3. /\ e \in [Profiles -> [up : BOOLEAN, cred : Credential]]
        /\ e[p] = [up |-> TRUE, cred |-> value] /\ \A q \in Profiles \ {p} : e[q] = runtime[q]
    BY <2>1, <2>2
  <2> QED BY <1>2, <2>3 DEF value
<1>3. CASE Act(slot[s]) = "down"
  <2>1. e = [runtime EXCEPT ![p] = Down] BY <1>3 DEF Effect
  <2> QED BY <1>1, <1>3, <2>1 DEF Down
<1>4. CASE Act(slot[s]) \notin {"up", "down"} BY <1>4 DEF Effect
<1> QED BY <1>2, <1>3, <1>4

\* Whether it ends or not, the owner's command leaves true what is recorded, or
\* the profile is one that another command acted on.
LEMMA Acting ==
  ASSUME IInv, NEW s \in Slot, slot[s].steps # << >>, Head(slot[s].steps) = "command",
         Act(slot[s]) \in Mutating,
         NEW p \in Profiles, p = At(slot[s]), NEW d, Becomes(s, d), Orderly(d),
         Running(d) => /\ Running(slot[s]) /\ d.action = slot[s].action
                       /\ d.raced = slot[s].raced /\ d.cred = slot[s].cred
                       /\ d.stage = slot[s].stage
                       /\ ~d.failed => ~slot[s].failed
                       /\ Through(d, p) => runtime' = Effect(s)
                       /\ ~Unregistered(d, p),
         Alone(d) => Alone(slot[s]) /\ At(d) = p,
         Sure(d) => \A q \in Profiles \ {p} :
                      (Through(d, q) => Through(slot[s], q))
                        /\ (Unregistered(d, q) => Unregistered(slot[s], q)),
         runtime' \in {runtime, Effect(s)}, meddled' = Meddled(s),
         UNCHANGED <<comp, creds, unit>>
  PROVE  RecordInv'
<1> DEFINE c == slot[s]
<1>1. Types /\ Orders /\ ServiceInv /\ RecordInv /\ Orderly(c) /\ c \in Work BY Kinds
<1>2. slot'[s] = d /\ \A t \in Slot \ {s} : slot'[t] = slot[t] BY <1>1, Changed
<1>4. runtime \in [Profiles -> [up : BOOLEAN, cred : Credential]]
  BY <1>1 DEF Types, TypeOK, Credential
<1> DEFINE e == Effect(s)
<1>5. /\ \A q \in Profiles \ {p} : e[q] = runtime[q]
      /\ Act(c) = "up" =>
           e[p] = [up |-> TRUE, cred |-> IF Composed(c) THEN c.cred ELSE 0]
      /\ Act(c) = "down" => ~e[p].up
  BY <1>1, <1>4, Effects
<1>6. /\ runtime' = runtime \/ runtime' = e
      /\ Running(d) /\ Through(d, p) => runtime' = e
  OBVIOUS
<1> HIDE DEF e
<1>7. \A q \in Profiles \ {p} : runtime'[q] = runtime[q] BY <1>5, <1>6
<1>9. /\ Running(c) => Under(c) /\ c.stage = "dispatch"
      /\ Sure(d) => Sure(c)
  BY <1>1 DEF Running, Under, Orderly, Sure
<1>8. ASSUME Sure(d), NEW q \in Profiles \ {p}
      PROVE  /\ Through(d, q) => Through(c, q)
             /\ Unregistered(d, q) => Unregistered(c, q)
  BY Zenon, <1>8
<1>10. RaceInv' BY <1>1, <1>2, <1>9 DEF RaceInv, RecordInv
<1>11. CredentialInv'
  <2>1. ASSUME NEW t \in Slot, Sure(slot'[t]), slot'[t].action = "up", slot'[t].stage # "credentials"
        PROVE  slot'[t].cred = creds /\ creds # 0
    <3>1. CASE t = s BY <1>1, <1>2, <1>9, <2>1, <3>1 DEF CredentialInv, Sure, RecordInv
    <3>2. CASE t # s BY <1>1, <1>2, <2>1, <3>2 DEF CredentialInv, RecordInv
    <3> QED BY <3>1, <3>2
  <2> QED BY <2>1 DEF CredentialInv
<1>12. LifecycleInv' BY <1>1 DEF LifecycleInv, RecordInv
<1>13. \A q \in Profiles \ {p} : Quiet(q) => Quiet(q)'
  BY <1>2 DEF Quiet
<1>14. \A q \in Profiles \ {p} : q \notin meddled' => q \notin meddled BY DEF Meddled
<1>15. CASE c.cmd = "composition" /\ ~c.raced /\ ~Overlaps(s)
  <2>1. Running(c) BY <1>1, <1>15 DEF Running, Orderly, Mutating, Act
  <2>2. ~comp.good BY <1>9, <1>1, <1>15, <2>1 DEF IntentInv, RecordInv
  <2>3. IntentInv' /\ FinishedInv' BY <2>2 DEF IntentInv, FinishedInv
  <2>4. \A t \in Slot : Running(slot'[t]) => t = s
    BY <1>1, <1>2, <1>15, <2>1 DEF RaceInv, RecordInv
  <2>5. Quiet(p)'
    <3>1. ~Alone(d) BY <1>15 DEF Alone
    <3>2. \A t \in Slot \ {s} : ~(Alone(slot[t]) /\ At(slot[t]) = p)
      BY <1>15 DEF Overlaps, Alone
    <3> QED BY <1>2, <3>1, <3>2 DEF Quiet
  <2>6. ASSUME Sure(d), NEW q \in Profiles \ meddled'
        PROVE  /\ Through(d, q) =>
                    /\ Quiet(q)'
                    /\ d.action = "up" => runtime'[q] = [up |-> TRUE, cred |-> d.cred]
                    /\ d.action = "down" => ~runtime'[q].up
               /\ Unregistered(d, q) /\ d.action = "down" => unit[q] # "composition"
    <3>1. CASE q = p
      <4>1. Running(d) /\ ~Unregistered(d, p) BY <2>6 DEF Sure
      <4>2. Sure(c) BY <1>9, <2>6
      <4>3. Act(c) = c.action /\ Composed(c) BY <1>1, <1>15, <4>2 DEF Sure, Act, Orderly, Composed
      <4> QED BY <1>5, <1>6, <2>5, <3>1, <4>1, <4>2, <4>3
    <3>2. CASE q # p
      <4>1. Sure(c) /\ Running(d) BY <1>9, <2>6 DEF Sure
      <4>2. q \notin meddled BY <1>14, <2>6, <3>2
      <4>3. /\ Through(c, q) =>
                 /\ Quiet(q)
                 /\ c.action = "up" => runtime[q] = [up |-> TRUE, cred |-> c.cred]
                 /\ c.action = "down" => ~runtime[q].up
            /\ Unregistered(c, q) /\ c.action = "down" => unit[q] # "composition"
        BY <1>1, <2>6, <4>1, <4>2 DEF ThroughInv, RecordInv
      <4>4. (Through(d, q) => Through(c, q)) /\ (Unregistered(d, q) => Unregistered(c, q))
        BY <1>8, <2>6, <3>2
      <4>5. d.action = c.action /\ d.cred = c.cred BY <4>1
      <4> QED BY <1>7, <1>13, <2>6, <3>2, <4>3, <4>4, <4>5
    <3> QED BY <3>1, <3>2
  <2>7. \A t \in Slot : Sure(slot'[t]) => t = s BY <2>4 DEF Sure
  <2>8. ThroughInv' BY ZenonT(60), <1>2, <2>6, <2>7 DEF ThroughInv
  <2> QED BY <1>10, <1>11, <1>12, <2>3, <2>8 DEF RecordInv
<1>16. CASE ~(c.cmd = "composition" /\ ~c.raced /\ ~Overlaps(s))
  <2>1. meddled' = meddled \cup {p} BY <1>16 DEF Meddled
  <2>2. meddled = Profiles => meddled' = Profiles BY <2>1
  <2>3. IntentInv'
    BY <1>1, <1>2, <1>9, <2>2 DEF IntentInv, RecordInv
  <2>4. FinishedInv'
    <3>1. ASSUME comp.good, NEW q \in Profiles \ meddled'
          PROVE  /\ Quiet(q)'
                 /\ comp.last = "up" => runtime'[q] = [up |-> TRUE, cred |-> creds]
                 /\ comp.last = "down" => ~runtime'[q].up /\ unit[q] # "composition"
      <4>1. q \in Profiles \ {p} /\ q \in Profiles \ meddled BY <2>1, <3>1
      <4> QED BY <1>1, <1>7, <1>13, <3>1, <4>1 DEF FinishedInv, RecordInv
    <3>2. comp.good /\ comp.last = "up" => creds # 0 \/ meddled' = Profiles
      BY <1>1, <2>2 DEF FinishedInv, RecordInv
    <3> QED BY <3>1, <3>2 DEF FinishedInv
  <2>5. ThroughInv'
    <3>1. ASSUME NEW t \in Slot, Sure(slot'[t]), NEW q \in Profiles \ meddled'
          PROVE  /\ Through(slot'[t], q) =>
                      /\ Quiet(q)'
                      /\ slot'[t].action = "up" => runtime'[q] = [up |-> TRUE, cred |-> slot'[t].cred]
                      /\ slot'[t].action = "down" => ~runtime'[q].up
                 /\ Unregistered(slot'[t], q) /\ slot'[t].action = "down" => unit[q] # "composition"
      <4>1. q \in Profiles \ {p} /\ q \in Profiles \ meddled BY <2>1, <3>1
      <4>2. Sure(slot[t]) /\ slot'[t].action = slot[t].action /\ slot'[t].cred = slot[t].cred
        BY <1>2, <1>9, <3>1 DEF Sure
      <4>3. /\ Through(slot'[t], q) => Through(slot[t], q)
            /\ Unregistered(slot'[t], q) => Unregistered(slot[t], q)
        <5>1. CASE t = s BY <1>2, <1>8, <3>1, <4>1, <5>1
        <5>2. CASE t # s BY <1>2, <5>2
        <5> QED BY <5>1, <5>2
      <4>4. /\ Through(slot[t], q) =>
                 /\ Quiet(q)
                 /\ slot[t].action = "up" => runtime[q] = [up |-> TRUE, cred |-> slot[t].cred]
                 /\ slot[t].action = "down" => ~runtime[q].up
            /\ Unregistered(slot[t], q) /\ slot[t].action = "down" => unit[q] # "composition"
        BY <1>1, <4>1, <4>2 DEF ThroughInv, RecordInv
      <4> QED BY <1>7, <1>13, <4>1, <4>2, <4>3, <4>4
    <3> QED BY <3>1 DEF ThroughInv
  <2> QED BY <1>10, <1>11, <1>12, <2>3, <2>4, <2>5 DEF RecordInv
<1> QED BY <1>15, <1>16

\* The owner's command has run or failed: the rest of the command is left to do.
LEMMA Acted ==
  ASSUME IInv, NEW s \in Slot, slot[s].steps # << >>, Head(slot[s].steps) = "command",
         Act(slot[s]) # "status", NEW d, Becomes(s, d), runtime' \in {runtime, Effect(s)},
         (d = Rest(s) /\ runtime' = Effect(s)) \/ d = Fails(s),
         meddled' = Meddled(s),
         UNCHANGED <<services, manifest, unit, comp, creds, source, helm, starting>>
  PROVE  IInv'
<1> DEFINE c == slot[s]
<1>1. Types /\ Orders /\ ServiceInv /\ RecordInv /\ Orderly(c) /\ c \in Work BY Kinds
<1>2. PICK p \in Profiles : p = At(c) BY <1>1, Proceeding
<1>3. Continues(c.steps, Act(c)) BY <1>1, Proceeding
<1>4. /\ Orderly(d) /\ d.steps # << >> /\ ~Works(d)
      /\ d.cmd = c.cmd /\ d.action = c.action /\ d.raced = c.raced /\ d.stage = c.stage
      /\ d.failed = c.failed /\ d.done = c.done /\ d.todo = c.todo /\ d.cred = c.cred
      /\ Running(c) => Head(d.steps) # "close" \/ ~d.ok
      /\ d.ok => runtime' = Effect(s)
  <2>1. CASE d = Rest(s) /\ runtime' = Effect(s)
    <3>1. c.start = 0 BY <1>1 DEF Orderly
    <3>2. d = [c EXCEPT !.steps = Tail(@), !.start = 0] BY <1>1, <2>1, <3>1 DEF Rest, Work
    <3>3. Orderly(d) BY <1>1, <3>2, RestOrderly
    <3>4. /\ d.steps = Tail(c.steps) /\ d.cmd = c.cmd /\ d.action = c.action /\ d.raced = c.raced
          /\ d.stage = c.stage /\ d.failed = c.failed /\ d.done = c.done /\ d.todo = c.todo
          /\ d.cred = c.cred
      BY <1>1, <3>2 DEF Work
    <3>5. d.steps # << >> BY <1>3, <3>4 DEF Continues
    <3>6. Act(c) \in {"up", "down"} => Head(d.steps) \in {"reconcile", "unit"}
      BY <1>3, <3>4 DEF Continues
    <3>7. Running(c) => Act(c) \in {"up", "down"} BY DEF Running, Act
    <3>8. ~Works(d)
      <4>1. d.steps \in Rests(Act(c)) BY <3>3, <3>4, <1>1, <3>2 DEF Orderly, Act, Work
      <4>2. CASE Act(c) \in {"up", "down"} BY <3>6, <4>2 DEF Works
      <4>3. CASE Act(c) \notin {"up", "down"}
        <5>1. Continues(d.steps, Act(c)) BY <4>1, <3>5, Onward
        <5> QED BY <4>3, <5>1 DEF Continues, Works
      <4> QED BY <4>2, <4>3
    <3> QED BY <2>1, <3>3, <3>4, <3>5, <3>6, <3>7, <3>8
  <2>2. CASE d = Fails(s)
    <3>1. d = [c EXCEPT !.ok = FALSE, !.start = 0, !.steps = <<"close">>] BY <2>2 DEF Fails
    <3>2. Orderly(d) BY <1>1, <3>1, FailsOrderly
    <3>3. /\ d.steps = <<"close">> /\ d.cmd = c.cmd /\ d.action = c.action /\ d.raced = c.raced
          /\ d.stage = c.stage /\ d.failed = c.failed /\ d.done = c.done /\ d.todo = c.todo
          /\ d.cred = c.cred /\ d.ok = FALSE
      BY <1>1, <3>1 DEF Work
    <3>4. d.steps # << >> /\ Head(d.steps) = "close" BY <3>3
    <3> QED BY <3>2, <3>3, <3>4 DEF Works
  <2> QED BY <2>1, <2>2
<1>5. runtime \in [Profiles -> [up : BOOLEAN, cred : Credential]] /\ meddled \subseteq Profiles
  BY <1>1 DEF Types, TypeOK, Credential
<1>6. RecordInv'
  <2>1. CASE Act(c) \in Mutating
    <3>1. At(d) = p BY <1>2, <1>4 DEF At
    <3>2. Running(d) => Running(c) /\ ~Unregistered(d, p) /\ (Through(d, p) => runtime' = Effect(s))
      BY <1>4, <3>1 DEF Running, Unregistered, Through
    <3>3. \A q \in Profiles \ {p} : /\ Through(d, q) => Through(c, q)
                                    /\ Unregistered(d, q) => Unregistered(c, q)
      BY <1>2, <1>4, <3>1 DEF Through, Unregistered
    <3>4. Alone(d) => Alone(c) BY <1>4 DEF Alone
    <3>5. ~d.failed => ~c.failed BY Zenon, <1>4
    <3> QED BY <1>2, <1>4, <2>1, <3>1, <3>2, <3>3, <3>4, <3>5, Acting
  <2>2. CASE Act(c) \notin Mutating
    <3>1. Effect(s) = runtime BY <2>2 DEF Effect, Mutating
    <3>2. runtime' = runtime /\ meddled' = meddled BY <2>2, <3>1 DEF Meddled
    <3>3. ~Running(d) /\ ~Alone(d) BY <1>4, <2>2 DEF Running, Alone, Act, Mutating
    <3>4. Onwards(c, d) BY <3>3 DEF Onwards
    <3> QED BY <1>1, <1>4, <3>2, <3>4, Steady
  <2> QED BY <2>1, <2>2
<1>7. Orders' BY <1>1, <1>4, Changed
<1>8. ServiceInv'
  <2>1. ~Works(c) BY DEF Works
  <2> QED BY <1>1, <1>4, <2>1, Still
<1>9. Types'
  <2>1. Effect(s) \in [Profiles -> [up : BOOLEAN, cred : Credential]] BY <1>1, <1>2, <1>5, Effects
  <2>2. runtime' \in [Profiles -> [up : BOOLEAN, cred : Credential]] BY <1>5, <2>1
  <2>3. meddled' \subseteq Profiles BY <1>2, <1>5 DEF Meddled
  <2>4. \A t \in Slot : slot'[t].cmd \in {"idle", "composition", "profile", "child"}
    BY <1>7 DEF Orders, Work
  <2> QED BY <1>1, <2>2, <2>3, <2>4 DEF Types, TypeOK, ServicesTypeOK, services, Credential
<1> QED BY <1>6, <1>7, <1>8, <1>9 DEF IInv

\* A status changes nothing.
LEMMA Looking ==
  ASSUME IInv, NEW s \in Slot, slot[s].steps # << >>, Head(slot[s].steps) = "command",
         Act(slot[s]) = "status", NEW ok \in BOOLEAN, Return(s, ok),
         runtime' \in {runtime, Effect(s)}, meddled' = Meddled(s),
         UNCHANGED <<services, manifest, unit, comp, creds, source, helm>>
  PROVE  IInv'
<1>1. ~Works(slot[s]) BY DEF Works
<1>2. runtime' = runtime BY DEF Effect
<1>3. meddled' = meddled BY DEF Meddled, Mutating
<1>4. manifest \in [Profiles -> {"none", "free", "bound"}] BY Kinds DEF Types, TypeOK
<1> QED BY <1>1, <1>2, <1>3, <1>4, Returning, Passing

LEMMA CommandStep == ASSUME IInv, NEW s \in Slot, Command(s) PROVE IInv'
<1>1. slot[s].steps # << >> /\ Head(slot[s].steps) = "command" BY DEF Command, Now
<1>2. /\ runtime' = Effect(s) /\ meddled' = Meddled(s)
      /\ UNCHANGED <<services, manifest, unit, comp, creds, source, helm>>
  BY DEF Command
<1>3. CASE Act(slot[s]) = "status"
  <2>1. PICK ok \in BOOLEAN : Return(s, ok) BY <1>3 DEF Command
  <2> QED BY <1>1, <1>2, <1>3, <2>1, Looking
<1>4. CASE Act(slot[s]) # "status"
  <2>1. Becomes(s, Rest(s)) /\ UNCHANGED starting BY <1>4 DEF Command, Proceed
  <2> QED BY <1>1, <1>2, <1>4, <2>1, Acted
<1> QED BY <1>3, <1>4

LEMMA CommandFailsStep == ASSUME IInv, NEW s \in Slot, CommandFails(s) PROVE IInv'
<1>1. slot[s].steps # << >> /\ Head(slot[s].steps) = "command" BY DEF CommandFails, Now
<1>2. /\ runtime' \in {runtime, Effect(s)} /\ meddled' = Meddled(s)
      /\ UNCHANGED <<services, manifest, unit, comp, creds, source, helm>>
  BY DEF CommandFails
<1>3. CASE Act(slot[s]) = "status"
  <2>1. Return(s, FALSE) BY <1>3 DEF CommandFails
  <2> QED BY <1>1, <1>2, <1>3, <2>1, Looking
<1>4. CASE Act(slot[s]) # "status"
  <2>1. Becomes(s, Fails(s)) /\ UNCHANGED starting BY <1>4 DEF CommandFails
  <2> QED BY <1>1, <1>2, <1>4, <2>1, Acted
<1> QED BY <1>3, <1>4

-----------------------------------------------------------------------------
(* Runs that end.                                                          *)

\* When the runs of some commands end, their locks are free and what they have
\* started and not recorded is lost.
LEMMA Dropped ==
  ASSUME IInv, NEW E, E \subseteq Slot,
         \A t \in E : slot'[t] = Idle,
         \A t \in Slot \ E : \A q \in Profiles :
           /\ Spawning(slot'[t], q) <=> Spawning(slot[t], q)
           /\ Noting(slot'[t], q) <=> Noting(slot[t], q)
           /\ Awaiting(slot'[t], q) <=> Awaiting(slot[t], q),
         \A t \in Slot \ E : slot'[t].start = slot[t].start,
         \A q \in Profiles : lock'[q] = IF lock[q] \in E THEN 0 ELSE lock[q],
         \A q \in Profiles : lost[q] \subseteq lost'[q],
         \A q \in Profiles : \A t \in E :
           Noting(slot[t], q) /\ slot[t].start \in groups[q] => slot[t].start \in lost'[q],
         \A q \in Profiles : \A n \in lost'[q] \ lost[q] :
           \E t \in E : Noting(slot[t], q) /\ slot[t].start = n,
         UNCHANGED <<record, leaders, groups>>
  PROVE  ServiceInv'
<1>1. ServiceInv /\ Processes BY Kinds, ServiceTypes
<1>2. \A t \in Slot : t # 0 BY DevSessionAssumption DEF Slot
<1>3. \A q : ~Spawning(Idle, q) /\ ~Noting(Idle, q) /\ ~Awaiting(Idle, q)
  BY DEF Spawning, Noting, Awaiting, Idle
<1>4. ASSUME NEW q \in Profiles PROVE Sound(q)'
  <2>1. Sound(q) BY <1>1 DEF ServiceInv
  <2>2. \A t \in Slot : /\ Spawning(slot'[t], q) <=> t \notin E /\ Spawning(slot[t], q)
                        /\ Noting(slot'[t], q) <=> t \notin E /\ Noting(slot[t], q)
                        /\ Awaiting(slot'[t], q) <=> t \notin E /\ Awaiting(slot[t], q)
    BY <1>3
  <2>3. \A t \in Slot : Holds(slot'[t], q) <=> t \notin E /\ Holds(slot[t], q)
    BY <2>2 DEF Holds
  <2>4. LockHeld(q)' BY <1>2, <2>1, <2>3 DEF LockHeld, Sound
  <2>5. Accounted(q)'
    <3>1. ASSUME NEW n \in leaders[q] \ lost'[q]
          PROVE  \/ /\ record[q].start = n /\ record[q].current
                    /\ \A t \in Slot : ~Noting(slot'[t], q) /\ ~Spawning(slot'[t], q)
                 \/ \E t \in Slot : Noting(slot'[t], q) /\ slot'[t].start = n
      <4>1. n \in leaders[q] \ lost[q] /\ n \in groups[q] BY <1>1, <3>1 DEF Processes
      <4>2. CASE /\ record[q].start = n /\ record[q].current
                 /\ \A t \in Slot : ~Noting(slot[t], q) /\ ~Spawning(slot[t], q)
        BY <2>2, <4>2
      <4>3. CASE \E t \in Slot : Noting(slot[t], q) /\ slot[t].start = n
        <5>1. PICK t \in Slot : Noting(slot[t], q) /\ slot[t].start = n BY <4>3
        <5>2. t \notin E BY <3>1, <4>1, <5>1
        <5> QED BY <2>2, <5>1, <5>2
      <4> QED BY <2>1, <4>1, <4>2, <4>3 DEF Sound, Accounted
    <3> QED BY <3>1 DEF Accounted
  <2>6. Unrecorded(q)'
    <3>1. record[q].current => record[q].start \notin lost'[q]
      BY <2>1 DEF Sound, Unrecorded
    <3>2. ASSUME NEW t \in Slot, Noting(slot'[t], q)
          PROVE  slot'[t].start \notin lost'[q] /\ slot'[t].start # record[q].start
      <4>1. t \notin E /\ Noting(slot[t], q) /\ slot'[t].start = slot[t].start BY <2>2, <3>2
      <4>2. \A u \in E : ~Noting(slot[u], q)
        <5>1. lock[q] = t BY <2>1, <4>1 DEF Sound, LockHeld, Holds
        <5>2. \A u \in Slot : Noting(slot[u], q) => lock[q] = u BY <2>1 DEF Sound, LockHeld, Holds
        <5> QED BY <4>1, <5>1, <5>2
      <4> QED BY <2>1, <4>1, <4>2 DEF Sound, Unrecorded
    <3> QED BY <2>1, <2>2, <3>1, <3>2 DEF Unrecorded, Sound
  <2> QED BY <2>4, <2>5, <2>6 DEF Sound
<1> QED BY <1>4 DEF ServiceInv

\* What is left of a command after its unit is registered or removed.
LEMMA Registering ==
  ASSUME IInv, NEW s \in Slot, Now(s, "unit"), NEW d, d = Rest(s)
  PROVE  /\ Orderly(d) /\ ~Works(d) /\ ~Works(slot[s])
         /\ d.steps # << >> /\ Head(d.steps) = "close" /\ Past(slot[s])
         /\ d.cmd = slot[s].cmd /\ d.action = slot[s].action /\ d.raced = slot[s].raced
         /\ d.stage = slot[s].stage /\ d.failed = slot[s].failed /\ d.done = slot[s].done
         /\ d.todo = slot[s].todo /\ d.cred = slot[s].cred /\ d.ok = slot[s].ok
         /\ d.start = slot[s].start
         /\ Act(slot[s]) \in {"up", "down"} /\ slot[s].action \in Mutating
<1> DEFINE c == slot[s]
<1>1. c.steps # << >> /\ Head(c.steps) = "unit" BY DEF Now
<1>2. Orderly(c) /\ c \in Work BY Kinds
<1>3. Continues(c.steps, Act(c)) BY <1>1, <1>2, Proceeding
<1>4. c.start = 0 BY <1>1, <1>2 DEF Orderly
<1>5. d = [c EXCEPT !.steps = Tail(@), !.start = 0] BY <1>2, <1>4 DEF Rest, Work
<1>6. Orderly(d) BY <1>1, <1>2, <1>3, <1>5, RestOrderly DEF Continues
<1>7. /\ d.steps = Tail(c.steps) /\ d.cmd = c.cmd /\ d.action = c.action /\ d.raced = c.raced
      /\ d.stage = c.stage /\ d.failed = c.failed /\ d.done = c.done /\ d.todo = c.todo
      /\ d.cred = c.cred /\ d.ok = c.ok /\ d.start = c.start
  BY <1>2 DEF Rest, Work
<1>8. d.steps # << >> /\ Head(d.steps) = "close" /\ Act(c) \in {"up", "down"}
  BY <1>1, <1>3, <1>7 DEF Continues
<1>9. Past(c) /\ ~Works(c) /\ ~Works(d) BY <1>1, <1>8 DEF Past, Works
<1>10. c.action \in Mutating BY <1>2, <1>8 DEF Orderly, Act, Mutating
<1> QED BY <1>6, <1>7, <1>8, <1>9, <1>10

\* A unit of the composition is not registered behind a shutdown that is
\* through with the profile, nor after one that has finished.
LEMMA UnitRecord ==
  ASSUME IInv, NEW s \in Slot, Now(s, "unit"), NEW d, d = Rest(s),
         NEW p \in Profiles, p = At(slot[s]), NEW E, E \subseteq Slot \ {s},
         slot'[s] = d, \A t \in E : slot'[t] = Idle,
         \A t \in Slot \ (E \cup {s}) : slot'[t] = slot[t],
         \A q \in Profiles \ {p} : unit'[q] = unit[q],
         unit'[p] = IF Kept(slot[s]) THEN unit[p]
                    ELSE IF Act(slot[s]) = "up" THEN Registered(slot[s]) ELSE "none",
         UNCHANGED <<comp, creds, runtime, meddled>>
  PROVE  RecordInv'
<1> DEFINE c == slot[s]
<1>1. Types /\ Orders /\ ServiceInv /\ RecordInv /\ Orderly(c) /\ c \in Work BY Kinds
<1>2. /\ Orderly(d) /\ d.steps # << >> /\ Head(d.steps) = "close" /\ Past(c)
      /\ d.cmd = c.cmd /\ d.action = c.action /\ d.raced = c.raced /\ d.stage = c.stage
      /\ d.failed = c.failed /\ d.done = c.done /\ d.todo = c.todo /\ d.cred = c.cred
      /\ d.ok = c.ok /\ Act(c) \in {"up", "down"} /\ c.action \in Mutating
  BY Registering
<1>3. At(d) = p BY <1>2 DEF At
<1>4. /\ Running(d) <=> Running(c)
      /\ Sure(d) <=> Sure(c)
      /\ Under(d) <=> Under(c)
      /\ Alone(d) <=> Alone(c)
  BY <1>2 DEF Running, Sure, Under, Alone
<1>5. ~Running(Idle) /\ ~Alone(Idle) /\ ~Sure(Idle) BY DEF Running, Alone, Sure, Idle
<1>6. \A t \in Slot :
        /\ Running(slot'[t]) => Running(slot[t])
        /\ Sure(slot'[t]) => Sure(slot[t])
        /\ Alone(slot'[t]) /\ Past(slot'[t]) => Alone(slot[t]) /\ Past(slot[t])
                                                /\ At(slot'[t]) = At(slot[t])
        /\ Running(slot'[t]) => /\ slot'[t].action = slot[t].action
                                /\ slot'[t].raced = slot[t].raced
                                /\ slot'[t].cred = slot[t].cred
                                /\ slot'[t].stage = slot[t].stage
  BY <1>2, <1>3, <1>4, <1>5
<1>7. \A q \in Profiles : Quiet(q) => Quiet(q)' BY <1>6 DEF Quiet
<1>8. RaceInv' BY <1>1, <1>6 DEF RaceInv, RecordInv
<1>9. IntentInv' BY <1>1, <1>6 DEF IntentInv, RecordInv, Under
<1>10. CredentialInv' BY <1>1, <1>6 DEF CredentialInv, RecordInv, Sure
<1>11. LifecycleInv' BY <1>1 DEF LifecycleInv, RecordInv
<1>12. ASSUME unit'[p] = "composition", unit[p] # "composition"
       PROVE  Act(c) = "up" /\ Composed(c)
  BY <1>12 DEF Registered
<1>13. ASSUME Composed(c), Act(c) = "up", Quiet(p)
       PROVE  Running(c) /\ Under(c)
  <2>1. ~Alone(c) BY <1>2, <1>13 DEF Quiet
  <2>2. c.cmd = "composition" BY <1>2, <1>13, <2>1 DEF Composed, Alone
  <2>3. c.action = "up" BY <1>13 DEF Act
  <2> QED BY <1>1, <1>2, <2>2, <2>3 DEF Running, Under, Orderly, Past
<1>14. FinishedInv'
  <2>1. ASSUME comp.good, comp.last = "down", NEW q \in Profiles \ meddled
        PROVE  unit'[q] # "composition"
    <3>1. Quiet(q) /\ unit[q] # "composition" BY <1>1, <2>1 DEF FinishedInv, RecordInv
    <3>2. q = p => ~(Composed(c) /\ Act(c) = "up")
      BY <1>1, <1>13, <2>1, <3>1 DEF IntentInv, RecordInv
    <3> QED BY <1>12, <3>1, <3>2
  <2> QED BY <1>1, <1>7, <2>1 DEF FinishedInv, RecordInv
<1>15. ThroughInv'
  <2>1. ASSUME NEW t \in Slot, Sure(slot'[t]), NEW q \in Profiles \ meddled
        PROVE  /\ Through(slot'[t], q) =>
                    /\ Quiet(q)'
                    /\ slot'[t].action = "up" => runtime[q] = [up |-> TRUE, cred |-> slot'[t].cred]
                    /\ slot'[t].action = "down" => ~runtime[q].up
               /\ Unregistered(slot'[t], q) /\ slot'[t].action = "down" => unit'[q] # "composition"
    <3>1. /\ Sure(slot[t]) /\ slot'[t].action = slot[t].action /\ slot'[t].cred = slot[t].cred
          /\ t \notin E
      BY <1>5, <1>6, <2>1 DEF Sure
    <3>2. Through(slot'[t], q) => Through(slot[t], q)
      BY <1>2, <1>3, <3>1 DEF Through, Past
    <3>3. /\ Through(slot[t], q) =>
               /\ Quiet(q)
               /\ slot[t].action = "up" => runtime[q] = [up |-> TRUE, cred |-> slot[t].cred]
               /\ slot[t].action = "down" => ~runtime[q].up
          /\ Unregistered(slot[t], q) /\ slot[t].action = "down" => unit[q] # "composition"
      BY <1>1, <2>1, <3>1 DEF ThroughInv, RecordInv
    <3>4. ASSUME Unregistered(slot'[t], q), slot[t].action = "down"
          PROVE  unit'[q] # "composition"
      <4>1. CASE t = s /\ q = p
        <5>1. ~c.failed /\ ~c.undo BY <1>1, <3>1, <4>1 DEF Sure, Orderly
        <5>2. Act(c) = "down" /\ ~Kept(c) BY <3>4, <4>1, <5>1 DEF Act, Kept
        <5> QED BY <4>1, <5>2
      <4>2. CASE t = s /\ q # p
        <5>1. Unregistered(c, q) BY <1>2, <1>3, <3>4, <4>2 DEF Unregistered
        <5> QED BY <3>3, <3>4, <4>2, <5>1
      <4>3. CASE t # s
        <5>1. slot'[t] = slot[t] /\ Unregistered(slot[t], q) BY <3>1, <3>4, <4>3
        <5>2. unit[q] # "composition" BY <3>3, <3>4, <5>1
        <5>3. Through(slot[t], q) BY <5>1 DEF Through, Unregistered, Past
        <5>4. q = p => ~(Composed(c) /\ Act(c) = "up")
          <6>1. Quiet(q) BY <3>3, <5>3
          <6>2. ~Running(c) BY <1>1, <3>1, <4>3 DEF RaceInv, RecordInv, Sure
          <6> QED BY <1>13, <6>1, <6>2
        <5> QED BY <1>12, <5>2, <5>4
      <4> QED BY <4>1, <4>2, <4>3
    <3> QED BY <1>7, <3>1, <3>2, <3>3, <3>4
  <2> QED BY <2>1 DEF ThroughInv
<1> QED BY <1>8, <1>9, <1>10, <1>11, <1>14, <1>15 DEF RecordInv

LEMMA UnitStep == ASSUME IInv, NEW s \in Slot, Unit(s) PROVE IInv'
<1> DEFINE c == slot[s]
           d == Rest(s)
<1>1. Types /\ Orders /\ ServiceInv /\ RecordInv /\ Orderly(c) /\ c \in Work
  BY Kinds
<1>2. Now(s, "unit") /\ c.steps # << >> BY DEF Unit, Now
<1>3. PICK p \in Profiles : p = At(c) BY <1>1, <1>2, Proceeding
<1>4. /\ Orderly(d) /\ ~Works(d) /\ ~Works(c) /\ d.start = c.start /\ Act(c) \in {"up", "down"}
  BY <1>2, Registering
<1> DEFINE next == IF Kept(c) THEN unit[p]
                   ELSE IF Act(c) = "up" THEN Registered(c) ELSE "none"
           E == {t \in Slot \ {s} : next = "none" /\ unit[p] # "none" /\ slot[t].by = p}
           gone == [q \in Profiles |-> groups[q] \cap
                      {slot[t].start : t \in {t \in E : Now(t, "note") /\ At(slot[t]) = q}}]
<1>5. /\ unit' = [unit EXCEPT ![p] = next]
      /\ slot' = [t \in Slot |-> IF t = s THEN d ELSE IF t \in E THEN Idle ELSE slot[t]]
      /\ starting' = [starting EXCEPT ![p] = IF next = "none" THEN 0 ELSE @]
      /\ lock' = [q \in Profiles |-> IF lock[q] \in E THEN 0 ELSE lock[q]]
      /\ lost' = [q \in Profiles |-> lost[q] \cup gone[q]]
      /\ UNCHANGED <<record, leaders, groups, reused, manifest, runtime, comp, creds, source, helm,
                     meddled>>
  BY <1>3 DEF Unit
<1>6. /\ unit \in [Profiles -> {"none", "profile", "composition"}]
      /\ starting \in [Profiles -> 0 .. Burst] /\ lock \in [Profiles -> 0 .. Slots] /\ Processes
  BY <1>1, ServiceTypes DEF Types, TypeOK
<1>7. next \in {"none", "profile", "composition"} BY <1>6 DEF Registered
<1>8. E \subseteq Slot \ {s} OBVIOUS
<1>9. gone \in [Profiles -> SUBSET Start] /\ \A q \in Profiles : gone[q] \subseteq groups[q]
  BY <1>6 DEF Processes
<1>10. \A q \in Profiles : \A n \in gone[q] : \E t \in E : Noting(slot[t], q) /\ slot[t].start = n
  BY DEF Now, Noting
<1>11. \A q \in Profiles : \A t \in E :
         Noting(slot[t], q) /\ slot[t].start \in groups[q] => slot[t].start \in gone[q]
  BY DEF Now, Noting
<1>12. unit'[p] = next /\ \A q \in Profiles \ {p} : unit'[q] = unit[q] BY <1>5, <1>6
<1> HIDE DEF gone, E
<1>13. /\ slot'[s] = d /\ \A t \in E : slot'[t] = Idle
       /\ \A t \in Slot \ (E \cup {s}) : slot'[t] = slot[t]
  BY <1>5, <1>8
<1>14. Orders'
  <2>1. slot' \in [Slot -> Work] BY <1>1, <1>4, <1>5, IdleOrderly DEF Orders, Orderly
  <2>2. \A t \in Slot : Orderly(slot'[t]) BY <1>1, <1>4, <1>8, <1>13, IdleOrderly DEF Orders
  <2> QED BY <2>1, <2>2 DEF Orders
<1>15. Types'
  <2>1. unit' \in [Profiles -> {"none", "profile", "composition"}] BY <1>5, <1>6, <1>7
  <2>2. starting' \in [Profiles -> 0 .. Burst] BY <1>5, <1>6 DEF Burst
  <2>3. lock' \in [Profiles -> 0 .. Slots] BY <1>5, <1>6, DevSessionAssumption
  <2>4. lost' \in [Profiles -> SUBSET Start] /\ \A q \in Profiles : lost'[q] \subseteq groups[q]
    BY <1>5, <1>6, <1>9 DEF Processes
  <2>5. \A t \in Slot : slot'[t].cmd \in {"idle", "composition", "profile", "child"}
    BY <1>14 DEF Orders, Work
  <2> HIDE DEF next
  <2> QED BY <1>1, <1>5, <2>1, <2>2, <2>3, <2>4, <2>5 DEF Types, TypeOK, ServicesTypeOK
<1>16. ServiceInv'
  <2>1. \A q : /\ ~Spawning(d, q) /\ ~Noting(d, q) /\ ~Awaiting(d, q)
               /\ ~Spawning(c, q) /\ ~Noting(c, q) /\ ~Awaiting(c, q)
    BY <1>4 DEF Works, Spawning, Noting, Awaiting
  <2>2. \A t \in Slot \ E : \A q \in Profiles :
          /\ Spawning(slot'[t], q) <=> Spawning(slot[t], q)
          /\ Noting(slot'[t], q) <=> Noting(slot[t], q)
          /\ Awaiting(slot'[t], q) <=> Awaiting(slot[t], q)
    BY <1>13, <2>1
  <2>3. \A t \in Slot \ E : slot'[t].start = slot[t].start BY <1>4, <1>13
  <2>4. \A q \in Profiles : /\ lock'[q] = IF lock[q] \in E THEN 0 ELSE lock[q]
                            /\ lost'[q] = lost[q] \cup gone[q]
    BY <1>5
  <2> HIDE DEF d
  <2> QED BY <1>5, <1>8, <1>10, <1>11, <1>13, <2>2, <2>3, <2>4, Dropped
<1>17. RecordInv' BY <1>2, <1>3, <1>5, <1>8, <1>12, <1>13, UnitRecord
<1> QED BY <1>14, <1>15, <1>16, <1>17 DEF IInv

-----------------------------------------------------------------------------
(* The steps of a command on the composition.                              *)

\* Between its profile commands a composition holds no service and can only change
\* its own record and credential.
LEMMA Managing ==
  ASSUME IInv, NEW s \in Slot, slot[s].steps = << >>, NEW d, Becomes(s, d), Orderly(d), ~Works(d),
         RecordInv', UNCHANGED <<local, source, helm>>, meddled' \subseteq Profiles,
         comp' \in [lifecycle : {"none", "active", "degraded", "suspended"},
                    last : {"none", "up", "down"}, good : BOOLEAN],
         creds' \in Credential, starting' \in [Profiles -> 0 .. Burst]
  PROVE  IInv'
<1>1. Types /\ Orders /\ ServiceInv BY Kinds
<1>2. Orders' BY <1>1, Changed
<1>3. ServiceInv'
  <2>1. ~Works(slot[s]) BY DEF Works
  <2> QED BY <1>1, <2>1, Still DEF local
<1>4. \A t \in Slot : slot'[t].cmd \in {"idle", "composition", "profile", "child"}
  BY <1>2 DEF Orders, Work
<1>5. Types' BY <1>1, <1>4 DEF Types, TypeOK, ServicesTypeOK, services, local, Credential
<1> QED BY <1>2, <1>3, <1>5 DEF IInv

\* What a composition is through with between its profile commands.
LEMMA Staged ==
  ASSUME IInv, NEW s \in Slot, NEW stage, Stage(s, stage), stage # "dispatch"
  PROVE  /\ Orderly(slot[s]) /\ slot[s] \in Work /\ slot[s].cmd = "composition"
         /\ slot[s].stage = stage /\ slot[s].steps = << >> /\ slot[s].start = 0
         /\ slot[s].action \in {"up", "down", "status"} /\ ~Alone(slot[s])
         /\ Types /\ Orders /\ RecordInv
         /\ comp \in [lifecycle : {"none", "active", "degraded", "suspended"},
                      last : {"none", "up", "down"}, good : BOOLEAN]
         /\ creds \in Credential /\ starting \in [Profiles -> 0 .. Burst] /\ meddled \subseteq Profiles
<1>1. Orderly(slot[s]) /\ slot[s] \in Work /\ Types /\ Orders /\ RecordInv BY Kinds
<1> QED BY <1>1 DEF Stage, Orderly, Alone, Types, TypeOK, Credential

LEMMA Composing ==
  ASSUME IInv, NEW s \in Slot, slot[s].cmd = "composition", slot[s].steps = << >>,
         NEW d, Becomes(s, d), Orderly(d), d.cmd = "composition",
         d.action = slot[s].action, d.raced = slot[s].raced,
         d.stage # "credentials",
         Running(d) /\ d.action = "up" /\ ~d.raced /\ ~d.failed => d.cred = creds' /\ creds' # 0,
         ~d.failed => ~slot[s].failed,
         Running(d) =>
           \A p \in Profiles : /\ Through(d, p) => Through(slot[s], p) /\ d.cred = slot[s].cred
                               /\ Unregistered(d, p) => Unregistered(slot[s], p),
         \A t \in Slot \ {s} :
           Sure(slot[t]) /\ slot[t].action = "up" /\ slot[t].stage # "credentials" => creds' = creds,
         UNCHANGED <<runtime, unit, meddled>>
  PROVE  /\ RaceInv' /\ CredentialInv' /\ ThroughInv'
         /\ \A p \in Profiles : Quiet(p) => Quiet(p)'
<1>1. Orders /\ RecordInv BY Kinds
<1>2. slot'[s] = d /\ \A t \in Slot \ {s} : slot'[t] = slot[t] BY <1>1, Changed
<1>3. \A p \in Profiles : Quiet(p) => Quiet(p)' BY <1>2 DEF Quiet, Alone
<1>4. Running(d) <=> Running(slot[s]) BY DEF Running
<1>5. RaceInv' BY <1>1, <1>2, <1>4 DEF RaceInv, RecordInv
<1>6. CredentialInv'
  <2>1. ASSUME NEW t \in Slot, Sure(slot'[t]), slot'[t].action = "up", slot'[t].stage # "credentials"
        PROVE  slot'[t].cred = creds' /\ creds' # 0
    <3>1. CASE t = s BY <1>2, <2>1, <3>1 DEF Sure
    <3>2. CASE t # s BY <1>1, <1>2, <2>1, <3>2 DEF CredentialInv, RecordInv
    <3> QED BY <3>1, <3>2
  <2> QED BY <2>1 DEF CredentialInv
<1>7. ThroughInv'
  <2>1. ASSUME NEW t \in Slot, Sure(slot'[t]), NEW p \in Profiles \ meddled
        PROVE  /\ Through(slot'[t], p) =>
                    /\ Quiet(p)'
                    /\ slot'[t].action = "up" => runtime[p] = [up |-> TRUE, cred |-> slot'[t].cred]
                    /\ slot'[t].action = "down" => ~runtime[p].up
               /\ Unregistered(slot'[t], p) /\ slot'[t].action = "down" => unit[p] # "composition"
    <3>1. CASE t = s
      <4>1. Sure(slot[s]) /\ Running(d) BY <1>2, <1>4, <2>1, <3>1 DEF Sure
      <4> QED BY <1>1, <1>2, <1>3, <2>1, <3>1, <4>1 DEF ThroughInv, RecordInv
    <3>2. CASE t # s BY <1>1, <1>2, <1>3, <2>1, <3>2 DEF ThroughInv, RecordInv
    <3> QED BY <3>1, <3>2
  <2> QED BY <2>1 DEF ThroughInv
<1> QED BY <1>3, <1>5, <1>6, <1>7

LEMMA CredentialsStep == ASSUME IInv, NEW s \in Slot, Credentials(s) PROVE IInv'
<1> DEFINE c == slot[s]
<1>1. /\ Orderly(c) /\ c \in Work /\ c.cmd = "composition" /\ c.stage = "credentials"
      /\ c.steps = << >> /\ c.start = 0 /\ c.action \in {"up", "down", "status"} /\ ~Alone(c)
      /\ Types /\ Orders /\ RecordInv
      /\ comp \in [lifecycle : {"none", "active", "degraded", "suspended"},
                   last : {"none", "up", "down"}, good : BOOLEAN]
      /\ creds \in Credential /\ starting \in [Profiles -> 0 .. Burst] /\ meddled \subseteq Profiles
  BY Staged DEF Credentials
<1>2. UNCHANGED <<local, comp, source, helm, meddled>> BY DEF Credentials
<1>3. c.done = << >> BY <1>1 DEF Orderly
<1>4. CASE ~Credentialed(c)
  <2>1. Becomes(s, Idle) /\ UNCHANGED <<starting, creds>> BY <1>4 DEF Credentials, End
  <2>2. Orderly(Idle) /\ ~Works(Idle) /\ Onwards(c, Idle) BY <1>1, IdleOrderly, Untouched
  <2>3. RecordInv' BY <1>1, <1>2, <2>1, <2>2, Steady DEF local
  <2> QED BY <1>1, <1>2, <2>1, <2>2, <2>3, Managing
<1>5. CASE Credentialed(c)
  <2> DEFINE create == c.action = "up" /\ creds = 0
             value  == IF create THEN Fresh
                       ELSE IF c.action # "up" /\ comp.lifecycle = "suspended" THEN 0 ELSE creds
             given  == [c EXCEPT !.cred = value, !.created = create, !.stage = "intent"]
             d == IF c.action = "status" THEN Dispatched(given) ELSE given
  <2>1. Becomes(s, d) /\ creds' = (IF create THEN value ELSE creds) /\ UNCHANGED starting
    BY <1>5 DEF Credentials
  <2>2. value \in Credential /\ (c.action = "up" => value # 0)
    BY <1>1, CredentialType, FreshValue
  <2>3. (c.action = "up" => value = creds') /\ creds' \in Credential BY <1>1, <2>1, <2>2
  <2>4. ~create => creds' = creds BY <2>1
  <2>5. create => c.action = "up" /\ creds = 0 OBVIOUS
  <2>6. create \in BOOLEAN OBVIOUS
  <2> HIDE DEF value, create
  <2>7. /\ given \in Work /\ given.cmd = "composition" /\ given.action = c.action
        /\ given.raced = c.raced /\ given.cred = value /\ given.failed = c.failed
        /\ given.undo = c.undo /\ given.start = 0 /\ given.todo = c.todo /\ given.done = << >>
        /\ given.steps = << >> /\ given.stage = "intent"
    BY ZenonT(60), <1>1, <1>3, <2>2, <2>6 DEF Work
  <2> HIDE DEF given
  <2>8. /\ Orderly(d) /\ d.cmd = "composition" /\ d.action = c.action /\ d.raced = c.raced
        /\ d.failed = c.failed /\ d.stage # "credentials" /\ ~Works(d)
        /\ d.action # "status" => d = given
    <3>1. CASE c.action = "status"
      <4>1. given.undo => given.failed /\ given.action = "up" BY <1>1, <2>7 DEF Orderly
      <4>2. ~given.failed => \A p \in Profiles : p \in ToSet(given.done) \/ p \in ToSet(given.todo)
        BY <1>1, <1>3, <2>7 DEF Orderly
      <4>3. d = Dispatched(given) BY <3>1
      <4> HIDE DEF d
      <4>4. /\ Orderly(d) /\ d.cmd = given.cmd /\ d.action = given.action /\ d.raced = given.raced
            /\ d.failed = given.failed /\ d.stage \in {"dispatch", "cleanup"}
            /\ d.steps # << >> => Head(d.steps) \in {"guard", "command"}
        BY <1>1, <2>7, <4>1, <4>2, <4>3, DispatchedOrderly
      <4> QED BY <2>7, <3>1, <4>4 DEF Works
    <3>2. CASE c.action # "status"
      <4>1. d = given BY <3>2
      <4> HIDE DEF d
      <4>2. << >> \in Rests(Act(d)) BY Ended
      <4>3. c.undo => c.failed /\ c.action = "up" BY <1>1 DEF Orderly
      <4>4. ~d.failed => \A p \in Profiles : p \in ToSet(d.done) \/ p \in ToSet(d.todo)
        BY <1>1, <1>3, <2>7, <4>1 DEF Orderly
      <4> QED BY <1>1, <2>7, <3>2, <4>1, <4>2, <4>3, <4>4 DEF Orderly, Works
    <3> QED BY <3>1, <3>2
  <2> HIDE DEF d
  <2>9. Running(d) => /\ d = given
                      /\ \A p \in Profiles : ~Through(d, p) /\ ~Unregistered(d, p)
    <3>1. Running(d) => d = given BY <2>8 DEF Running
    <3>2. \A p : ~Through(given, p) /\ ~Unregistered(given, p)
      BY <2>7 DEF Through, Unregistered, ToSet
    <3> QED BY <3>1, <3>2
  <2>10. ASSUME NEW t \in Slot \ {s}, Sure(slot[t]), slot[t].action = "up" PROVE creds' = creds
    <3>1. ASSUME create PROVE FALSE
      <4>1. Running(c) BY <1>1, <2>5, <3>1 DEF Running
      <4> QED BY <1>1, <2>10, <4>1 DEF RaceInv, RecordInv, Sure
    <3> QED BY <2>4, <3>1
  <2>11. ~d.failed => ~c.failed BY Zenon, <2>8
  <2>12. UNCHANGED <<runtime, unit, meddled>> BY <1>2 DEF local
  <2>13. Running(d) /\ d.action = "up" => d.cred = creds' /\ creds' # 0
    BY <2>2, <2>3, <2>7, <2>8, <2>9
  <2>14. RaceInv' /\ CredentialInv' /\ ThroughInv' /\ \A p \in Profiles : Quiet(p) => Quiet(p)'
    BY <1>1, <2>1, <2>8, <2>9, <2>10, <2>11, <2>12, <2>13, Composing
  <2>15. slot'[s] = d /\ \A t \in Slot \ {s} : slot'[t] = slot[t] BY <1>1, <2>1, <2>8, Changed
  <2>16. IntentInv'
    <3>1. Running(d) => ~Under(d) BY <2>7, <2>9 DEF Under
    <3> QED BY <1>1, <1>2, <2>15, <3>1 DEF IntentInv, RecordInv
  <2>17. FinishedInv'
    <3>1. CASE creds' = creds BY <1>1, <1>2, <2>12, <2>14, <3>1 DEF FinishedInv, RecordInv
    <3>2. CASE creds' # creds
      <4>1. create BY <2>4, <3>2
      <4>2. creds = 0 BY <2>5, <4>1
      <4>3. comp.good /\ comp.last = "up" => meddled = Profiles
        BY <1>1, <4>2 DEF FinishedInv, RecordInv
      <4> QED BY <1>1, <1>2, <2>12, <2>14, <4>3 DEF FinishedInv, RecordInv
    <3> QED BY <3>1, <3>2
  <2>18. LifecycleInv' BY <1>1, <1>2 DEF LifecycleInv, RecordInv
  <2>19. RecordInv' BY <2>14, <2>16, <2>17, <2>18 DEF RecordInv
  <2> QED BY <1>1, <1>2, <2>1, <2>3, <2>8, <2>19, Managing
<1> QED BY <1>4, <1>5

LEMMA IntentStep == ASSUME IInv, NEW s \in Slot, Intent(s) PROVE IInv'
<1> DEFINE c == slot[s]
           d == Dispatched(c)
<1>1. /\ Orderly(c) /\ c \in Work /\ c.cmd = "composition" /\ c.stage = "intent"
      /\ c.steps = << >> /\ c.start = 0 /\ c.action \in {"up", "down", "status"} /\ ~Alone(c)
      /\ Types /\ Orders /\ RecordInv
      /\ comp \in [lifecycle : {"none", "active", "degraded", "suspended"},
                   last : {"none", "up", "down"}, good : BOOLEAN]
      /\ creds \in Credential /\ starting \in [Profiles -> 0 .. Burst] /\ meddled \subseteq Profiles
  BY Staged DEF Intent
<1>2. /\ UNCHANGED <<local, starting, creds, source, helm, meddled>>
      /\ comp' = Intended(c) /\ Becomes(s, d)
  BY DEF Intent
<1>3. c.done = << >> /\ c.action \in {"up", "down"} BY <1>1 DEF Orderly
<1>4. /\ Orderly(d) /\ d.cmd = c.cmd /\ d.action = c.action /\ d.raced = c.raced
      /\ d.cred = c.cred /\ d.failed = c.failed /\ d.done = c.done
      /\ d.stage \in {"dispatch", "cleanup"}
      /\ d.steps # << >> => Head(d.steps) \in {"guard", "command"}
  <2>1. c.undo => c.failed /\ c.action = "up" BY <1>1 DEF Orderly
  <2>2. ~c.failed => \A p \in Profiles : p \in ToSet(c.done) \/ p \in ToSet(c.todo)
    BY <1>1 DEF Orderly
  <2>3. d = Dispatched(c) OBVIOUS
  <2> HIDE DEF d
  <2> QED BY <1>1, <2>1, <2>2, <2>3, DispatchedOrderly
<1> HIDE DEF d
<1>5. ~Works(d) BY <1>4 DEF Works
<1>6. \A p \in Profiles : ~Through(d, p) /\ ~Unregistered(d, p)
  BY <1>3, <1>4 DEF Through, Unregistered, Past, ToSet
<1>7. ~d.failed => ~c.failed BY Zenon, <1>4
<1>8. Running(d) /\ d.action = "up" /\ ~d.raced /\ ~d.failed => d.cred = creds /\ creds # 0
  <2>1. Running(d) /\ d.action = "up" /\ ~d.raced /\ ~d.failed => Sure(c) /\ c.action = "up"
    BY <1>1, <1>4, <1>7 DEF Sure, Running
  <2> QED BY <1>1, <1>4, <2>1 DEF CredentialInv, RecordInv
<1>9. UNCHANGED <<runtime, unit, meddled, creds>> BY <1>2 DEF local
<1>10. RaceInv' /\ CredentialInv' /\ ThroughInv'
  BY <1>1, <1>2, <1>4, <1>6, <1>7, <1>8, <1>9, Composing
<1>11. /\ comp' = [lifecycle |-> "degraded", last |-> c.action, good |-> FALSE]
       /\ ~comp'.good /\ comp'.lifecycle = "degraded"
  BY <1>2 DEF Intended
<1>12. IntentInv' /\ FinishedInv' /\ LifecycleInv'
  BY <1>11 DEF IntentInv, FinishedInv, LifecycleInv
<1>13. RecordInv' BY <1>10, <1>12 DEF RecordInv
<1>14. comp' \in [lifecycle : {"none", "active", "degraded", "suspended"},
                  last : {"none", "up", "down"}, good : BOOLEAN]
  BY <1>3, <1>11
<1> QED BY <1>1, <1>2, <1>4, <1>5, <1>13, <1>14, Managing

LEMMA CleanupStep == ASSUME IInv, NEW s \in Slot, Cleanup(s) PROVE IInv'
<1> DEFINE c == slot[s]
           d == [c EXCEPT !.stage = "record"]
<1>1. /\ Orderly(c) /\ c \in Work /\ c.cmd = "composition" /\ c.stage = "cleanup"
      /\ c.steps = << >> /\ c.start = 0 /\ c.action \in {"up", "down", "status"} /\ ~Alone(c)
      /\ Types /\ Orders /\ RecordInv
      /\ comp \in [lifecycle : {"none", "active", "degraded", "suspended"},
                   last : {"none", "up", "down"}, good : BOOLEAN]
      /\ creds \in Credential /\ starting \in [Profiles -> 0 .. Burst] /\ meddled \subseteq Profiles
  BY Staged DEF Cleanup
<1>2. UNCHANGED <<local, starting, comp, source, helm, meddled>> /\ Becomes(s, d)
  BY DEF Cleanup
<1>3. /\ creds' = 0 \/ creds' = creds
      /\ creds' # creds => \/ c.action = "down" /\ ~c.failed
                           \/ c.action = "up" /\ c.failed
  BY DEF Cleanup
<1>4. creds' \in Credential BY <1>1, <1>3, CredentialType
<1>5. /\ d \in Work /\ d.cmd = "composition" /\ d.action = c.action /\ d.raced = c.raced
      /\ d.cred = c.cred /\ d.failed = c.failed /\ d.done = c.done /\ d.todo = c.todo
      /\ d.steps = << >> /\ d.stage = "record" /\ d.undo = c.undo /\ d.start = 0
  BY <1>1 DEF Work
<1> HIDE DEF d
<1>6. Orderly(d)
  <2>1. << >> \in Rests(Act(d)) BY Ended
  <2> QED BY <1>1, <1>5, <2>1 DEF Orderly
<1>7. ~Works(d) BY <1>5 DEF Works
<1>8. \A p \in Profiles : /\ Through(d, p) => Through(c, p)
                          /\ Unregistered(d, p) => Unregistered(c, p)
  BY <1>1, <1>5 DEF Through, Unregistered
<1>9. ~d.failed => ~c.failed BY Zenon, <1>5
<1>10. ASSUME creds' # creds PROVE Running(c) BY <1>3, <1>1, <1>10 DEF Running
<1>11. Running(d) /\ d.action = "up" /\ ~d.raced /\ ~d.failed => d.cred = creds' /\ creds' # 0
  <2>1. ASSUME Running(d), d.action = "up", ~d.raced, ~d.failed PROVE d.cred = creds' /\ creds' # 0
    <3>1. Sure(c) /\ c.action = "up" /\ ~c.failed BY <1>1, <1>5, <1>9, <2>1 DEF Sure, Running
    <3>2. creds' = creds BY <1>3, <3>1
    <3> QED BY <1>1, <1>5, <3>1, <3>2 DEF CredentialInv, RecordInv
  <2> QED BY <2>1
<1>12. ASSUME NEW t \in Slot \ {s}, Sure(slot[t]) PROVE creds' = creds
  <2>1. ~Running(c) BY <1>1, <1>12 DEF RaceInv, RecordInv, Sure
  <2> QED BY <1>10, <2>1
<1>13. UNCHANGED <<runtime, unit, meddled>> BY <1>2 DEF local
<1>14. RaceInv' /\ CredentialInv' /\ ThroughInv' /\ \A p \in Profiles : Quiet(p) => Quiet(p)'
  BY <1>1, <1>2, <1>5, <1>6, <1>8, <1>9, <1>11, <1>12, <1>13, Composing
<1>15. slot'[s] = d /\ \A t \in Slot \ {s} : slot'[t] = slot[t] BY <1>1, <1>2, <1>6, Changed
<1>16. Running(d) => Running(c) /\ Under(c) BY <1>1, <1>5 DEF Running, Under
<1>17. IntentInv' BY <1>1, <1>2, <1>5, <1>15, <1>16 DEF IntentInv, RecordInv
<1>18. FinishedInv'
  <2>1. CASE creds' = creds BY <1>1, <1>2, <1>13, <1>14, <2>1 DEF FinishedInv, RecordInv
  <2>2. CASE creds' # creds
    <3>1. comp.good => meddled = Profiles
      BY <1>1, <1>10, <2>2 DEF IntentInv, RecordInv, Under
    <3> QED BY <1>2, <3>1 DEF FinishedInv
  <2> QED BY <2>1, <2>2
<1>19. LifecycleInv' BY <1>1, <1>2 DEF LifecycleInv, RecordInv
<1>20. RecordInv' BY <1>14, <1>17, <1>18, <1>19 DEF RecordInv
<1> QED BY <1>1, <1>2, <1>4, <1>6, <1>7, <1>20, Managing

\* A record that is written is that of what the run is through with, unless the
\* run was raced.
LEMMA RecordStep == ASSUME IInv, NEW s \in Slot, Record(s) PROVE IInv'
<1> DEFINE c == slot[s]
<1>1. /\ Orderly(c) /\ c \in Work /\ c.cmd = "composition" /\ c.stage = "record"
      /\ c.steps = << >> /\ c.start = 0 /\ c.action \in {"up", "down", "status"} /\ ~Alone(c)
      /\ Types /\ Orders /\ RecordInv
      /\ comp \in [lifecycle : {"none", "active", "degraded", "suspended"},
                   last : {"none", "up", "down"}, good : BOOLEAN]
      /\ creds \in Credential /\ starting \in [Profiles -> 0 .. Burst] /\ meddled \subseteq Profiles
  BY Staged DEF Record
<1>2. /\ UNCHANGED <<local, creds, source, helm>> /\ comp' = Outcome(c) /\ Becomes(s, Idle)
      /\ meddled' = IF c.raced THEN Profiles ELSE meddled
      /\ starting' = starting \/ Finished(s)
  BY DEF Record, End
<1>3. starting' \in [Profiles -> 0 .. Burst]
  <2>1. CASE starting' = starting BY <1>1, <2>1
  <2>2. CASE Finished(s) BY <1>1, <2>2 DEF Finished, Burst
  <2> QED BY <1>2, <2>1, <2>2
<1>4. Orderly(Idle) /\ ~Works(Idle) /\ ~Running(Idle) /\ ~Alone(Idle) BY IdleOrderly, Untouched, <1>1
<1>5. slot'[s] = Idle /\ \A t \in Slot \ {s} : slot'[t] = slot[t] BY <1>1, <1>2, <1>4, Changed
<1>6. \A q \in Profiles : Quiet(q) => Quiet(q)' BY <1>4, <1>5 DEF Quiet
<1>7. UNCHANGED <<runtime, unit>> BY <1>2 DEF local
<1>8. \A q \in Profiles \ meddled' : q \notin meddled BY <1>2
<1>9. RaceInv' BY <1>1, <1>4, <1>5 DEF RaceInv, RecordInv
<1>10. CredentialInv' BY <1>1, <1>2, <1>4, <1>5 DEF CredentialInv, RecordInv, Sure
<1>11. ThroughInv'
  <2>1. ASSUME NEW t \in Slot, Sure(slot'[t]), NEW q \in Profiles \ meddled'
        PROVE  /\ Through(slot'[t], q) =>
                    /\ Quiet(q)'
                    /\ slot'[t].action = "up" => runtime[q] = [up |-> TRUE, cred |-> slot'[t].cred]
                    /\ slot'[t].action = "down" => ~runtime[q].up
               /\ Unregistered(slot'[t], q) /\ slot'[t].action = "down" => unit[q] # "composition"
    <3>1. slot'[t] = slot[t] BY <1>4, <1>5, <2>1 DEF Sure
    <3>2. q \in Profiles \ meddled BY <1>8
    <3> QED BY <1>1, <1>6, <2>1, <3>1, <3>2 DEF ThroughInv, RecordInv
  <2> QED BY <1>7, <2>1 DEF ThroughInv
<1>12. CASE c.action = "status"
  <2> DEFINE life == IF c.failed THEN "degraded"
                     ELSE IF comp.lifecycle = "degraded" /\ comp.last = "up" /\ comp.good
                       THEN "active" ELSE comp.lifecycle
  <2>1. comp' = [comp EXCEPT !.lifecycle = life] BY <1>2, <1>12 DEF Outcome
  <2>2. /\ life \in {"none", "active", "degraded", "suspended"}
        /\ life = "active" => comp.lifecycle = "active" \/ (comp.last = "up" /\ comp.good)
        /\ life = "suspended" => comp.lifecycle = "suspended"
    BY <1>1
  <2> HIDE DEF life
  <2>3. /\ comp' \in [lifecycle : {"none", "active", "degraded", "suspended"},
                      last : {"none", "up", "down"}, good : BOOLEAN]
        /\ comp'.lifecycle = life /\ comp'.last = comp.last /\ comp'.good = comp.good
    BY <1>1, <2>1, <2>2
  <2>4. meddled = Profiles => meddled' = Profiles BY <1>2
  <2>5. comp'.good => comp.good BY Zenon, <2>3
  <2>6. IntentInv' BY <1>1, <1>4, <1>5, <2>4, <2>5 DEF IntentInv, RecordInv
  <2>7. FinishedInv'
    BY <1>1, <1>2, <1>6, <1>7, <1>8, <2>3, <2>4, <2>5 DEF FinishedInv, RecordInv
  <2>8. LifecycleInv'
    <3>1. comp.good => comp'.good BY Zenon, <2>3
    <3> QED BY <1>1, <2>2, <2>3, <3>1 DEF LifecycleInv, RecordInv
  <2>9. RecordInv' BY <1>9, <1>10, <1>11, <2>6, <2>7, <2>8 DEF RecordInv
  <2>10. meddled' \subseteq Profiles BY <1>1, <1>2
  <2> QED BY <1>1, <1>2, <1>3, <1>4, <2>3, <2>9, <2>10, Managing
<1>13. CASE c.action # "status"
  <2>1. /\ Running(c) /\ Under(c) /\ c.action \in {"up", "down"}
    BY <1>1, <1>13 DEF Running, Under
  <2> DEFINE life == IF c.failed THEN "degraded"
                     ELSE IF c.action = "up" THEN "active" ELSE "suspended"
  <2>2. comp' = [lifecycle |-> life, last |-> c.action, good |-> ~c.failed]
    BY <1>2, <1>13 DEF Outcome
  <2>3. /\ life \in {"none", "active", "degraded", "suspended"}
        /\ life = "active" => ~c.failed /\ c.action = "up"
        /\ life = "suspended" => ~c.failed /\ c.action = "down"
    BY <2>1
  <2> HIDE DEF life
  <2>4. /\ comp'.lifecycle = life /\ comp'.last = c.action /\ (comp'.good <=> ~c.failed)
    <3>1. comp'.good = ~c.failed BY Zenon, <2>2
    <3> QED BY <2>2, <3>1
  <2>5. comp' \in [lifecycle : {"none", "active", "degraded", "suspended"},
                   last : {"none", "up", "down"}, good : BOOLEAN]
    BY <2>1, <2>2, <2>3
  <2>6. IntentInv'
    <3>1. ASSUME NEW t \in Slot, Running(slot'[t]) PROVE slot'[t].raced /\ meddled' = Profiles
      <4>1. t # s /\ Running(slot[t]) /\ slot'[t] = slot[t] BY <1>4, <1>5, <3>1
      <4>2. slot[t].raced /\ c.raced BY <1>1, <2>1, <4>1 DEF RaceInv, RecordInv
      <4> QED BY <1>2, <4>1, <4>2
    <3> QED BY <3>1 DEF IntentInv
  <2>7. ASSUME ~c.failed, ~c.raced, NEW q \in Profiles \ meddled'
        PROVE  /\ Quiet(q)'
               /\ c.action = "up" => runtime[q] = [up |-> TRUE, cred |-> creds]
               /\ c.action = "down" => ~runtime[q].up /\ unit[q] # "composition"
    <3>1. Sure(c) BY <2>1, <2>7 DEF Sure
    <3>2. q \in ToSet(c.done) BY <1>1, <2>7 DEF Orderly, ToSet
    <3>3. Through(c, q) /\ Unregistered(c, q) BY <1>1, <3>2 DEF Through, Unregistered
    <3>4. q \in Profiles \ meddled BY <1>8
    <3>5. /\ Quiet(q)
          /\ c.action = "up" => runtime[q] = [up |-> TRUE, cred |-> c.cred]
          /\ c.action = "down" => ~runtime[q].up /\ unit[q] # "composition"
      BY <1>1, <3>1, <3>3, <3>4 DEF ThroughInv, RecordInv
    <3>6. c.action = "up" => c.cred = creds BY <1>1, <3>1 DEF CredentialInv, RecordInv
    <3> QED BY <1>6, <3>5, <3>6
  <2>8. ASSUME ~c.failed, c.action = "up" PROVE creds # 0 \/ meddled' = Profiles
    <3>1. ~c.raced => Sure(c) BY <2>1, <2>8 DEF Sure
    <3> QED BY <1>1, <1>2, <2>8, <3>1 DEF CredentialInv, RecordInv
  <2>9. FinishedInv'
    <3>1. c.raced => meddled' = Profiles BY <1>2
    <3>2. UNCHANGED creds BY <1>2
    <3> QED BY <1>7, <2>4, <2>7, <2>8, <3>1, <3>2 DEF FinishedInv
  <2>10. LifecycleInv' BY <2>3, <2>4 DEF LifecycleInv
  <2>11. RecordInv' BY <1>9, <1>10, <1>11, <2>6, <2>9, <2>10 DEF RecordInv
  <2>12. meddled' \subseteq Profiles BY <1>1, <1>2
  <2> QED BY <1>1, <1>2, <1>3, <1>4, <2>5, <2>11, <2>12, Managing
<1> QED BY <1>12, <1>13

-----------------------------------------------------------------------------
(* The operator, systemd, faults and the host.                             *)

\* Who starts a second action of the composition makes both raced.
LEMMA Starting ==
  ASSUME IInv, NEW s \in Slot, slot[s].cmd = "idle", NEW c, Orderly(c), c.start = 0, c.done = << >>,
         \/ c.cmd = "composition" /\ c.stage = "credentials" /\ c.steps = << >>
         \/ c.cmd = "profile" /\ c.steps # << >> /\ Head(c.steps) \in {"guard", "command"},
         Started(s, c), UNCHANGED <<local, comp, creds, source, helm, meddled>>,
         starting' \in [Profiles -> 0 .. Burst]
  PROVE  IInv'
<1> DEFINE race == IF c.cmd = "composition" THEN Raced(s, c.action) ELSE {}
           d == [c EXCEPT !.raced = race # {}]
           late(t) == [slot[t] EXCEPT !.raced = @ \/ t \in race]
<1>1. Types /\ Orders /\ ServiceInv /\ RecordInv /\ c \in Work
      /\ \A t \in Slot : Orderly(slot[t]) /\ slot[t] \in Work
  BY Kinds DEF Orderly
<1>2. slot' = [t \in Slot |-> IF t = s THEN d ELSE late(t)] BY DEF Started
<1>3. /\ d \in Work /\ d.cmd = c.cmd /\ d.action = c.action /\ d.by = c.by /\ d.stage = c.stage
      /\ d.todo = c.todo /\ d.cred = c.cred /\ d.done = c.done /\ d.failed = c.failed
      /\ d.undo = c.undo /\ d.steps = c.steps /\ d.ok = c.ok /\ d.start = c.start
      /\ d.raced <=> race # {}
  <2>1. (race # {}) \in BOOLEAN OBVIOUS
  <2> DEFINE r == race # {}
  <2>2. d = [c EXCEPT !.raced = r] OBVIOUS
  <2> HIDE DEF r
  <2>3. d.raced = r BY <1>1, <2>2 DEF Work
  <2>4. d.raced <=> race # {} BY Zenon, <2>3 DEF r
  <2>5. r \in BOOLEAN BY DEF r
  <2> HIDE DEF d
  <2> QED BY ZenonT(60), <1>1, <2>2, <2>4, <2>5 DEF Work
<1>4. ASSUME NEW t \in Slot
      PROVE  LET e == late(t) IN
             /\ e \in Work /\ e.cmd = slot[t].cmd /\ e.action = slot[t].action /\ e.by = slot[t].by
             /\ e.stage = slot[t].stage /\ e.todo = slot[t].todo /\ e.cred = slot[t].cred
             /\ e.done = slot[t].done /\ e.failed = slot[t].failed /\ e.undo = slot[t].undo
             /\ e.steps = slot[t].steps /\ e.ok = slot[t].ok /\ e.start = slot[t].start
             /\ e.raced <=> slot[t].raced \/ t \in race
  <2> DEFINE r == slot[t].raced \/ t \in race
             e == late(t)
  <2>1. e = [slot[t] EXCEPT !.raced = r] OBVIOUS
  <2>2. r \in BOOLEAN OBVIOUS
  <2> HIDE DEF r
  <2>3. e.raced = r BY <1>1, <2>1 DEF Work
  <2>4. e.raced <=> slot[t].raced \/ t \in race BY Zenon, <2>3 DEF r
  <2>5. PICK x \in Work : x = slot[t] BY <1>1
  <2>6. e = [x EXCEPT !.raced = r] BY <2>1, <2>5
  <2> HIDE DEF e
  <2>7. /\ e \in Work /\ e.cmd = slot[t].cmd /\ e.action = slot[t].action /\ e.by = slot[t].by
        /\ e.stage = slot[t].stage /\ e.todo = slot[t].todo /\ e.cred = slot[t].cred
        /\ e.done = slot[t].done /\ e.failed = slot[t].failed /\ e.undo = slot[t].undo
        /\ e.steps = slot[t].steps /\ e.ok = slot[t].ok /\ e.start = slot[t].start
    BY ZenonT(60), <2>2, <2>5, <2>6 DEF Work
  <2> QED BY <2>4, <2>7 DEF e
<1> HIDE DEF d, late
<1>5. slot'[s] = d /\ \A t \in Slot \ {s} : slot'[t] = late(t) BY <1>2
<1>6. \A t \in Slot \ {s} :
        /\ slot'[t] \in Work /\ slot'[t].cmd = slot[t].cmd /\ slot'[t].action = slot[t].action
        /\ slot'[t].stage = slot[t].stage /\ slot'[t].todo = slot[t].todo
        /\ slot'[t].cred = slot[t].cred /\ slot'[t].done = slot[t].done
        /\ slot'[t].failed = slot[t].failed /\ slot'[t].undo = slot[t].undo
        /\ slot'[t].steps = slot[t].steps /\ slot'[t].ok = slot[t].ok
        /\ slot'[t].start = slot[t].start
        /\ slot'[t].raced <=> slot[t].raced \/ t \in race
  BY <1>4, <1>5
<1>7. Orders'
  <2>1. slot' \in [Slot -> Work] BY <1>2, <1>3, <1>4
  <2>2. Orderly(d)
    <3>1. Act(d) = Act(c) BY <1>3 DEF Act
    <3> QED BY <1>3, <3>1 DEF Orderly
  <2>3. ASSUME NEW t \in Slot \ {s} PROVE Orderly(slot'[t])
    <3>1. Act(slot'[t]) = Act(slot[t]) /\ Orderly(slot[t]) BY <1>1, <1>6 DEF Act
    <3>2. /\ slot'[t] \in Work /\ slot'[t].cmd = slot[t].cmd /\ slot'[t].action = slot[t].action
          /\ slot'[t].stage = slot[t].stage /\ slot'[t].todo = slot[t].todo
          /\ slot'[t].done = slot[t].done
          /\ slot'[t].failed = slot[t].failed /\ slot'[t].undo = slot[t].undo
          /\ slot'[t].steps = slot[t].steps
          /\ slot'[t].start = slot[t].start
      BY <1>6
    <3> QED BY <3>1, <3>2 DEF Orderly
  <2> QED BY <1>5, <2>1, <2>2, <2>3 DEF Orders
<1>8. Types'
  <2>1. \A t \in Slot : slot'[t].cmd \in {"idle", "composition", "profile", "child"}
    BY <1>7 DEF Orders, Work
  <2> QED BY <1>1, <2>1 DEF Types, TypeOK, ServicesTypeOK, services, local
<1>9. slot[s].steps = << >> /\ ~Running(slot[s]) BY <1>1 DEF Orderly, Running
<1>10. ServiceInv'
  <2>1. \A t \in Slot : \A q \in Profiles :
          /\ Spawning(slot'[t], q) <=> Spawning(slot[t], q)
          /\ Noting(slot'[t], q) <=> Noting(slot[t], q)
          /\ Awaiting(slot'[t], q) <=> Awaiting(slot[t], q)
    <3>1. ASSUME NEW t \in Slot, NEW q \in Profiles
          PROVE  /\ Spawning(slot'[t], q) <=> Spawning(slot[t], q)
                 /\ Noting(slot'[t], q) <=> Noting(slot[t], q)
                 /\ Awaiting(slot'[t], q) <=> Awaiting(slot[t], q)
      <4>1. CASE t = s BY <1>3, <1>5, <1>9, <4>1 DEF Spawning, Noting, Awaiting
      <4>2. CASE t # s BY <1>6, <4>2 DEF Spawning, Noting, Awaiting, At
      <4> QED BY <4>1, <4>2
    <3> QED BY <3>1
  <2>2. \A t \in Slot : slot'[t].start = slot[t].start
    <3>1. slot[s].start = 0 BY <1>1, <1>9 DEF Orderly
    <3> QED BY <1>3, <1>5, <1>6, <3>1
  <2>3. UNCHANGED <<record, leaders, groups, lost, lock>> BY DEF local, services
  <2> DEFINE none == {}
  <2>4. \A q \in Profiles : lock'[q] = IF lock[q] \in none THEN 0 ELSE lock[q] BY <2>3
  <2>5. \A q \in Profiles : lost[q] \subseteq lost'[q] /\ lost'[q] \ lost[q] = {} BY <2>3
  <2> QED BY <2>1, <2>2, <2>3, <2>4, <2>5, Dropped
<1>11. ~Past(d) /\ \A p \in Profiles : ~Through(d, p) /\ ~Unregistered(d, p)
  BY <1>3 DEF Past, Through, Unregistered, ToSet, Running
<1>12. \A t \in Slot : t # s => /\ Running(slot'[t]) <=> Running(slot[t])
                                /\ Sure(slot'[t]) => Sure(slot[t])
                                /\ Under(slot'[t]) <=> Under(slot[t])
                                /\ Alone(slot'[t]) <=> Alone(slot[t])
                                /\ Past(slot'[t]) <=> Past(slot[t])
                                /\ At(slot'[t]) = At(slot[t])
  BY <1>6 DEF Running, Sure, Under, Alone, Past, At
<1>13. \A p \in Profiles : Quiet(p) => Quiet(p)' BY <1>5, <1>11, <1>12 DEF Quiet
<1>14. UNCHANGED <<comp, creds, runtime, unit, meddled>> BY DEF local
<1>15. RaceInv'
  <2>1. ASSUME NEW t \in Slot, t # s, Running(slot'[t]), Running(d) PROVE t \in race
    <3>1. Running(slot[t]) /\ Running(c) BY <1>3, <1>12, <2>1 DEF Running
    <3> QED BY <2>1, <3>1 DEF Raced, Running, Mutating
  <2>2. ASSUME NEW t \in Slot, NEW u \in Slot, t # u, Running(slot'[t]), Running(slot'[u])
        PROVE  slot'[t].raced
    <3>1. CASE t = s
      <4>1. u \in race BY <1>5, <2>1, <2>2, <3>1
      <4> QED BY <1>3, <1>5, <3>1, <4>1
    <3>2. CASE u = s
      <4>1. t \in race BY <1>5, <2>1, <2>2, <3>2
      <4> QED BY <1>6, <2>2, <3>2, <4>1
    <3>3. CASE t # s /\ u # s
      <4>1. Running(slot[t]) /\ Running(slot[u]) BY <1>12, <2>2, <3>3
      <4>2. slot[t].raced BY <1>1, <2>2, <4>1 DEF RaceInv, RecordInv
      <4> QED BY <1>6, <3>3, <4>2
    <3> QED BY <3>1, <3>2, <3>3
  <2> QED BY <2>2 DEF RaceInv
<1>16. IntentInv'
  <2>1. ASSUME NEW t \in Slot, Running(slot'[t]), Under(slot'[t]), comp.good
        PROVE  slot'[t].raced /\ meddled = Profiles
    <3>1. t # s BY <1>3, <1>5, <2>1 DEF Running, Under
    <3>2. slot[t].raced /\ meddled = Profiles
      BY <1>1, <1>12, <2>1, <3>1 DEF IntentInv, RecordInv
    <3> QED BY <1>6, <3>1, <3>2
  <2> QED BY <1>14, <2>1 DEF IntentInv
<1>17. CredentialInv'
  <2>1. ASSUME NEW t \in Slot, Sure(slot'[t]), slot'[t].action = "up", slot'[t].stage # "credentials"
        PROVE  slot'[t].cred = creds /\ creds # 0
    <3>1. t # s BY <1>3, <1>5, <2>1 DEF Sure, Running
    <3>2. Sure(slot[t]) BY <1>12, <2>1, <3>1
    <3> QED BY <1>1, <1>6, <2>1, <3>1, <3>2 DEF CredentialInv, RecordInv
  <2> QED BY <1>14, <2>1 DEF CredentialInv
<1>18. ThroughInv'
  <2>1. ASSUME NEW t \in Slot, Sure(slot'[t]), NEW p \in Profiles \ meddled
        PROVE  /\ Through(slot'[t], p) =>
                    /\ Quiet(p)'
                    /\ slot'[t].action = "up" => runtime[p] = [up |-> TRUE, cred |-> slot'[t].cred]
                    /\ slot'[t].action = "down" => ~runtime[p].up
               /\ Unregistered(slot'[t], p) /\ slot'[t].action = "down" => unit[p] # "composition"
    <3>1. CASE t = s BY <1>5, <1>11, <3>1
    <3>2. CASE t # s
      <4>1. Sure(slot[t]) /\ slot'[t].action = slot[t].action /\ slot'[t].cred = slot[t].cred
        BY <1>6, <1>12, <2>1, <3>2
      <4>2. /\ Through(slot'[t], p) <=> Through(slot[t], p)
            /\ Unregistered(slot'[t], p) <=> Unregistered(slot[t], p)
        BY <1>6, <1>12, <3>2 DEF Through, Unregistered
      <4> QED BY <1>1, <1>13, <2>1, <4>1, <4>2 DEF ThroughInv, RecordInv
    <3> QED BY <3>1, <3>2
  <2> QED BY <1>14, <2>1 DEF ThroughInv
<1>19. FinishedInv' BY <1>1, <1>13, <1>14 DEF FinishedInv, RecordInv
<1>20. LifecycleInv' BY <1>1, <1>14 DEF LifecycleInv, RecordInv
<1>21. RecordInv' BY <1>15, <1>16, <1>17, <1>18, <1>19, <1>20 DEF RecordInv
<1> QED BY <1>7, <1>8, <1>10, <1>21 DEF IInv

LEMMA BeginStep == ASSUME IInv, NEW s \in Slot, Begin(s) PROVE IInv'
<1>1. slot[s].cmd = "idle" /\ UNCHANGED <<local, starting, comp, creds, source, helm, meddled>>
  BY DEF Begin, Unoccupied
<1>2. starting' \in [Profiles -> 0 .. Burst] BY <1>1, Kinds DEF Types, TypeOK
<1>3. CASE \E action \in {"up", "down", "status"} : Started(s, Composition(action, "operator"))
  <2>1. PICK action \in {"up", "down", "status"} : Started(s, Composition(action, "operator"))
    BY <1>3
  <2> DEFINE c == Composition(action, "operator")
  <2>2. Orderly(c) BY CompositionOrderly
  <2>3. c.cmd = "composition" /\ c.stage = "credentials" /\ c.steps = << >> /\ c.done = << >>
        /\ c.start = 0
    BY DEF Composition, Idle
  <2> HIDE DEF c
  <2>4. Started(s, c) BY <2>1 DEF c
  <2> QED BY <1>1, <1>2, <2>2, <2>3, <2>4, Starting
<1>4. CASE \E action \in Actions, p \in Profiles : Started(s, Profile(action, p, "operator"))
  <2>1. PICK action \in Actions, p \in Profiles : Started(s, Profile(action, p, "operator"))
    BY <1>4
  <2> DEFINE c == Profile(action, p, "operator")
  <2>2. Orderly(c) BY ProfileOrderly
  <2>3. c.cmd = "profile" /\ c.steps # << >> /\ Head(c.steps) \in {"guard", "command"}
        /\ c.start = 0 /\ c.done = << >>
    BY Beginning DEF Profile, Idle
  <2> HIDE DEF c
  <2>4. Started(s, c) BY <2>1 DEF c
  <2> QED BY <1>1, <1>2, <2>2, <2>3, <2>4, Starting
<1> QED BY <1>3, <1>4 DEF Begin

LEMMA ResumeStep == ASSUME IInv, NEW s \in Slot, NEW p \in Profiles, Resume(s, p) PROVE IInv'
<1>1. slot[s].cmd = "idle" /\ UNCHANGED <<local, comp, creds, source, helm, meddled>>
      /\ starting' = [starting EXCEPT ![p] = @ - 1] /\ starting[p] > 0
  BY DEF Resume, Unoccupied
<1>2. starting \in [Profiles -> 0 .. Burst] BY Kinds DEF Types, TypeOK
<1>3. starting' \in [Profiles -> 0 .. Burst] BY <1>1, <1>2 DEF Burst
<1> DEFINE b == Composition("up", p)
           c == Profile("up", p, p)
<1>4. Orderly(b) /\ Orderly(c) BY CompositionOrderly, ProfileOrderly
<1>5. b.cmd = "composition" /\ b.stage = "credentials" /\ b.steps = << >> /\ b.done = << >>
      /\ b.start = 0
  BY DEF Composition, Idle
<1>6. c.cmd = "profile" /\ c.steps # << >> /\ Head(c.steps) \in {"guard", "command"} /\ c.start = 0
      /\ c.done = << >>
  BY Beginning DEF Profile, Idle
<1>7. Started(s, b) \/ Started(s, c) BY DEF Resume
<1> HIDE DEF b, c
<1>8. CASE Started(s, b) BY <1>1, <1>3, <1>4, <1>5, <1>8, Starting
<1>9. CASE Started(s, c) BY <1>1, <1>3, <1>4, <1>6, <1>9, Starting
<1> QED BY <1>7, <1>8, <1>9

\* The process of a command is killed between two steps, or in the middle of the
\* owner's command.
LEMMA KilledStep == ASSUME IInv, NEW s \in Slot, Killed(s) PROVE IInv'
<1> DEFINE c == slot[s]
<1>1. Types /\ Orders /\ ServiceInv /\ RecordInv /\ Orderly(c) /\ c \in Work /\ c.cmd # "idle"
  BY Kinds DEF Killed
<1>2. UNCHANGED <<record, leaders, groups, reused, manifest, unit, starting, comp, creds, source>>
  BY DEF Killed
<1>3. /\ runtime \in [Profiles -> [up : BOOLEAN, cred : Credential]] /\ meddled \subseteq Profiles
      /\ lock \in [Profiles -> 0 .. Slots] /\ helm \in BOOLEAN /\ Processes
  BY <1>1, ServiceTypes DEF Types, TypeOK, Credential
<1>4. CASE /\ Becomes(s, Idle) /\ Freed(s)
           /\ lost' = [p \in Profiles |->
                         IF Now(s, "note") /\ At(c) = p
                           THEN lost[p] \cup ({c.start} \cap groups[p]) ELSE lost[p]]
           /\ runtime' \in IF Now(s, "command") THEN {runtime, Effect(s)} ELSE {runtime}
           /\ helm' \in IF Now(s, "command") /\ Act(c) = "up" THEN BOOLEAN ELSE {helm}
           /\ meddled' = IF Now(s, "command") THEN Meddled(s) ELSE meddled
  <2>1. Orderly(Idle) /\ Onwards(c, Idle) /\ ~Running(Idle) /\ ~Alone(Idle) /\ ~Sure(Idle)
    BY <1>1, IdleOrderly, Untouched DEF Sure
  <2>2. slot'[s] = Idle /\ \A t \in Slot \ {s} : slot'[t] = slot[t] BY <1>1, <1>4, <2>1, Changed
  <2>3. Orders' BY <1>1, <1>4, <2>1, Changed
  <2>4. ServiceInv'
    <3> DEFINE E == {s}
    <3>1. E \subseteq Slot /\ \A t \in E : slot'[t] = Idle BY <2>2
    <3>2. \A t \in Slot \ E : slot'[t] = slot[t] BY <2>2
    <3>3. \A q \in Profiles : lock'[q] = IF lock[q] \in E THEN 0 ELSE lock[q] BY <1>4 DEF Freed
    <3>4. \A q \in Profiles :
            /\ lost[q] \subseteq lost'[q]
            /\ \A n \in lost'[q] \ lost[q] : Noting(c, q) /\ c.start = n
            /\ Noting(c, q) /\ c.start \in groups[q] => c.start \in lost'[q]
      BY <1>4 DEF Noting, Now
    <3>5. /\ \A q \in Profiles : lost[q] \subseteq lost'[q]
          /\ \A q \in Profiles : \A t \in E :
               Noting(slot[t], q) /\ slot[t].start \in groups[q] => slot[t].start \in lost'[q]
          /\ \A q \in Profiles : \A n \in lost'[q] \ lost[q] :
               \E t \in E : Noting(slot[t], q) /\ slot[t].start = n
      BY <3>4
    <3> HIDE DEF E
    <3> QED BY <1>2, <3>1, <3>2, <3>3, <3>5, Dropped
  <2>5. RecordInv'
    <3>1. CASE c.steps # << >> /\ Head(c.steps) = "command" /\ Act(c) \in Mutating
      <4>1. runtime' \in {runtime, Effect(s)} /\ meddled' = Meddled(s) BY <1>4, <3>1 DEF Now
      <4>2. PICK p \in Profiles : p = At(c) BY <1>1, <3>1, Proceeding
      <4> QED BY <1>2, <1>4, <2>1, <3>1, <4>1, <4>2, Acting
    <3>2. CASE ~(c.steps # << >> /\ Head(c.steps) = "command" /\ Act(c) \in Mutating)
      <4>1. runtime' = runtime /\ meddled' = meddled
        BY <1>4, <3>2 DEF Now, Effect, Meddled, Mutating
      <4> QED BY <1>1, <1>2, <1>4, <2>1, <4>1, Steady
    <3> QED BY <3>1, <3>2
  <2>6. Types'
    <3>1. runtime' \in [Profiles -> [up : BOOLEAN, cred : Credential]] /\ meddled' \subseteq Profiles
      <4>1. CASE Now(s, "command")
        <5>1. PICK p \in Profiles : p = At(c) BY <1>1, <4>1, Proceeding DEF Now
        <5>2. Effect(s) \in [Profiles -> [up : BOOLEAN, cred : Credential]]
          BY <1>1, <1>3, <5>1, Effects
        <5> QED BY <1>3, <1>4, <4>1, <5>1, <5>2 DEF Meddled
      <4>2. CASE ~Now(s, "command") BY <1>3, <1>4, <4>2
      <4> QED BY <4>1, <4>2
    <3>2. helm' \in BOOLEAN BY <1>3, <1>4
    <3>3. lock' \in [Profiles -> 0 .. Slots] BY <1>3, <1>4, DevSessionAssumption DEF Freed
    <3>4. lost' \in [Profiles -> SUBSET Start] /\ \A q \in Profiles : lost'[q] \subseteq groups[q]
      BY <1>3, <1>4 DEF Processes
    <3>5. \A t \in Slot : slot'[t].cmd \in {"idle", "composition", "profile", "child"}
      BY <2>3 DEF Orders, Work
    <3> QED BY <1>1, <1>2, <3>1, <3>2, <3>3, <3>4, <3>5 DEF Types, TypeOK, ServicesTypeOK, Credential
  <2> QED BY <2>3, <2>4, <2>5, <2>6 DEF IInv
<1>5. CASE /\ c.cmd = "composition" /\ c.steps # << >> /\ c.by = "operator"
           /\ Becomes(s, [c EXCEPT !.cmd = "child", !.todo = <<At(c)>>])
           /\ UNCHANGED <<lock, lost, runtime, helm, meddled>>
  <2> DEFINE d == [c EXCEPT !.cmd = "child", !.todo = <<At(c)>>]
  <2>1. At(c) \in Profiles BY <1>1, <1>5, Proceeding
  <2>2. <<At(c)>> \in Seq(Profiles) /\ <<At(c)>> # << >> /\ Head(<<At(c)>>) = At(c) BY <2>1
  <2>3. /\ d \in Work /\ d.cmd = "child" /\ d.action = c.action /\ d.raced = c.raced
        /\ d.stage = c.stage /\ d.failed = c.failed /\ d.done = c.done /\ d.todo = <<At(c)>>
        /\ d.cred = c.cred /\ d.ok = c.ok /\ d.steps = c.steps /\ d.start = c.start
        /\ d.undo = c.undo
    BY <1>1, <2>2 DEF Work
  <2>4. Becomes(s, d) BY <1>5
  <2> HIDE DEF d
  <2>5. At(d) = At(c) /\ Act(d) = Act(c) BY <2>2, <2>3 DEF At, Act
  <2>6. c.stage = "dispatch" /\ c.action \in {"up", "down", "status"} BY <1>1, <1>5 DEF Orderly
  <2>7. Orderly(d) BY <1>1, <1>5, <2>2, <2>3, <2>5, <2>6 DEF Orderly
  <2>8. slot'[s] = d /\ \A t \in Slot \ {s} : slot'[t] = slot[t] BY <1>1, <2>4, <2>7, Changed
  <2>9. Orders' BY <1>1, <2>4, <2>7, Changed
  <2>10. ServiceInv'
    <3> DEFINE none == {}
    <3>1. \A t \in Slot : \A q \in Profiles :
            /\ Spawning(slot'[t], q) <=> Spawning(slot[t], q)
            /\ Noting(slot'[t], q) <=> Noting(slot[t], q)
            /\ Awaiting(slot'[t], q) <=> Awaiting(slot[t], q)
      BY <2>3, <2>5, <2>8 DEF Spawning, Noting, Awaiting
    <3>2. \A t \in Slot : slot'[t].start = slot[t].start BY <2>3, <2>8
    <3>3. \A q \in Profiles : /\ lock'[q] = IF lock[q] \in none THEN 0 ELSE lock[q]
                              /\ lost[q] \subseteq lost'[q] /\ lost'[q] \ lost[q] = {}
      BY <1>5
    <3> QED BY <1>2, <3>1, <3>2, <3>3, Dropped
  <2>11. RecordInv'
    <3>1. ~Running(d) /\ ~Sure(d) BY <2>3 DEF Running, Sure
    <3>2. CASE c.action = "status"
      <4>1. ~Alone(d) BY <2>3, <3>2 DEF Alone, Mutating
      <4>2. Onwards(c, d) BY <3>1, <4>1 DEF Onwards
      <4> QED BY <1>1, <1>2, <1>5, <2>4, <2>7, <4>2, Steady
    <3>3. CASE c.action # "status"
      <4>1. Running(c) /\ Under(c) BY <1>5, <2>6, <3>3 DEF Running, Under
      <4>2. RaceInv' BY <1>1, <2>8, <3>1 DEF RaceInv, RecordInv
      <4>3. IntentInv' BY <1>1, <1>2, <1>5, <2>8, <3>1 DEF IntentInv, RecordInv
      <4>4. CredentialInv' BY <1>1, <1>2, <2>8, <3>1 DEF CredentialInv, RecordInv
      <4>5. \A t \in Slot : ~Sure(slot'[t])
        <5>1. ASSUME NEW t \in Slot \ {s} PROVE ~Sure(slot[t])
          BY <1>1, <4>1 DEF RaceInv, RecordInv, Sure
        <5> QED BY <2>8, <3>1, <5>1
      <4>6. ThroughInv' BY <4>5 DEF ThroughInv
      <4>7. comp.good => meddled = Profiles BY <1>1, <4>1 DEF IntentInv, RecordInv
      <4>8. FinishedInv' BY <1>2, <1>5, <4>7 DEF FinishedInv
      <4>9. LifecycleInv' BY <1>1, <1>2 DEF LifecycleInv, RecordInv
      <4> QED BY <4>2, <4>3, <4>4, <4>6, <4>8, <4>9 DEF RecordInv
    <3> QED BY <3>2, <3>3
  <2>12. \A t \in Slot : slot'[t].cmd \in {"idle", "composition", "profile", "child"}
    BY <2>9 DEF Orders, Work
  <2>13. Types' BY <1>1, <1>2, <1>5, <2>12 DEF Types, TypeOK, ServicesTypeOK
  <2> QED BY <2>9, <2>10, <2>11, <2>13 DEF IInv
<1> QED BY <1>4, <1>5 DEF Killed

\* What concerns neither a command nor what is recorded of the composition.
LEMMA Around ==
  ASSUME IInv, UNCHANGED <<slot, comp, creds, runtime, unit, meddled>>, ServiceInv', Types'
  PROVE  IInv'
<1>1. Orders' BY Kinds DEF Orders
<1>2. RaceInv' /\ IntentInv' /\ CredentialInv' /\ LifecycleInv'
  BY Kinds DEF RaceInv, IntentInv, CredentialInv, LifecycleInv, RecordInv
<1>3. \A p \in Profiles : Quiet(p) => Quiet(p)' BY DEF Quiet
<1>4. ThroughInv' /\ FinishedInv' BY <1>3, Kinds DEF ThroughInv, FinishedInv, RecordInv
<1> QED BY <1>1, <1>2, <1>4 DEF IInv, RecordInv

LEMMA Unserved ==
  ASSUME ServiceInv, UNCHANGED <<slot, record, leaders, lost, lock>>
  PROVE  ServiceInv'
BY DEF ServiceInv, Sound, LockHeld, Accounted, Unrecorded

LEMMA HelmRepairedStep == ASSUME IInv, HelmRepaired PROVE IInv'
<1>1. ServiceInv' BY Kinds, Unserved DEF HelmRepaired, local, services
<1>2. Types' BY Kinds DEF HelmRepaired, local, services, Types, TypeOK, ServicesTypeOK
<1> QED BY <1>1, <1>2, Around DEF HelmRepaired, local

LEMMA SourceMovesStep == ASSUME IInv, NEW p \in Profiles, SourceMoves(p) PROVE IInv'
<1>1. ServiceInv' BY Kinds, Unserved DEF SourceMoves, local, services
<1>2. source \in [Profiles -> 0 .. 2] BY Kinds DEF Types, TypeOK
<1>3. source' \in [Profiles -> 0 .. 2] BY <1>2 DEF SourceMoves
<1>4. Types' BY <1>3, Kinds DEF SourceMoves, local, services, Types, TypeOK, ServicesTypeOK
<1> QED BY <1>1, <1>4, Around DEF SourceMoves, local

LEMMA StrangerStep == ASSUME IInv, NEW p \in Profiles, Stranger(p) PROVE IInv'
<1>1. UNCHANGED <<record, leaders, groups, lost, lock, manifest, runtime, unit, starting, comp, creds,
                  source, helm, slot, meddled>>
  BY DEF Stranger, Reuse, StrangerLeaves
<1>2. reused \in [Profiles -> BOOLEAN] BY Kinds DEF Types
<1>3. reused' \in [Profiles -> BOOLEAN] BY <1>2 DEF Stranger, Reuse, StrangerLeaves
<1>4. ServiceInv' BY <1>1, Kinds, Unserved
<1>5. Types' BY <1>1, <1>3, Kinds DEF Types, TypeOK, ServicesTypeOK
<1> QED BY <1>1, <1>4, <1>5, Around

LEMMA ServiceDiesStep == ASSUME IInv, NEW p \in Profiles, ServiceDies(p) PROVE IInv'
<1>1. PICK n \in leaders[p] :
        /\ leaders' = [leaders EXCEPT ![p] = @ \ {n}]
        /\ groups' \in {groups, [groups EXCEPT ![p] = @ \ {n}]}
        /\ lost' = [lost EXCEPT ![p] = @ \cap groups'[p]]
        /\ UNCHANGED <<record, reused, lock>>
  BY DEF ServiceDies, LeaderDies
<1>2. UNCHANGED <<manifest, runtime, unit, starting, comp, creds, source, helm, slot, meddled>>
  BY DEF ServiceDies
<1>3. Types /\ ServiceInv /\ Processes BY Kinds, ServiceTypes
<1>4. /\ leaders' \in [Profiles -> SUBSET Start] /\ groups' \in [Profiles -> SUBSET Start]
      /\ lost' \in [Profiles -> SUBSET Start]
      /\ leaders'[p] = leaders[p] \ {n} /\ lost'[p] = lost[p] \cap groups'[p]
      /\ groups'[p] \subseteq groups[p] /\ groups[p] \ {n} \subseteq groups'[p]
      /\ \A q \in Profiles \ {p} :
           leaders'[q] = leaders[q] /\ groups'[q] = groups[q] /\ lost'[q] = lost[q]
  BY <1>1, <1>3 DEF Processes
<1>5. Processes'
  <2>1. IsFiniteSet(groups'[p]) BY <1>3, <1>4, FS_Subset DEF Processes
  <2> QED BY <1>3, <1>4, <2>1 DEF Processes
<1>6. Types' BY <1>1, <1>2, <1>3, <1>5 DEF Types, TypeOK, ServicesTypeOK, Processes
<1>7. ASSUME NEW q \in Profiles PROVE Sound(q)'
  <2>1. Sound(q) BY <1>3 DEF ServiceInv
  <2>2. leaders'[q] \ lost'[q] \subseteq leaders[q] \ lost[q] /\ lost'[q] \subseteq lost[q]
    BY <1>3, <1>4 DEF Processes
  <2>3. LockHeld(q)' BY <1>1, <1>2, <2>1 DEF LockHeld, Sound
  <2>4. Accounted(q)' BY <1>1, <1>2, <2>1, <2>2 DEF Accounted, Sound, Noting, Spawning
  <2>5. Unrecorded(q)' BY <1>1, <1>2, <2>1, <2>2 DEF Unrecorded, Sound, Noting, Awaiting
  <2> QED BY <2>3, <2>4, <2>5 DEF Sound
<1>8. ServiceInv' BY <1>7 DEF ServiceInv
<1> QED BY <1>2, <1>6, <1>8, Around

LEMMA RebootStep == ASSUME IInv, Reboot PROVE IInv'
<1>1. /\ \A s \in Slot : slot[s].cmd = "idle"
      /\ leaders' = [p \in Profiles |-> {}] /\ groups' = [p \in Profiles |-> {}]
      /\ lost' = [p \in Profiles |-> {}] /\ reused' = [p \in Profiles |-> FALSE]
      /\ lock' = [p \in Profiles |-> 0]
      /\ record' = [p \in Profiles |-> [record[p] EXCEPT !.current = FALSE]]
      /\ starting' = [p \in Profiles |-> IF unit[p] # "none" THEN Burst ELSE 0]
      /\ UNCHANGED <<manifest, runtime, unit, comp, creds, source, helm, slot, meddled>>
  BY DEF Reboot, ServicesReboot
<1>2. Types /\ record \in Records BY Kinds, ServiceTypes
<1>3. record' \in Records /\ \A p \in Profiles : ~record'[p].current
  BY <1>1, <1>2 DEF Records
<1>4. starting' \in [Profiles -> 0 .. Burst] BY <1>1 DEF Burst
<1>5. lock' \in [Profiles -> 0 .. Slots] BY <1>1, DevSessionAssumption
<1>6. \A p \in Profiles : IsFiniteSet(groups'[p]) BY <1>1, FS_EmptySet
<1>7. Types' BY <1>1, <1>2, <1>3, <1>4, <1>5, <1>6 DEF Types, TypeOK, ServicesTypeOK, Records
<1>8. ASSUME NEW p \in Profiles PROVE Sound(p)'
  <2>1. \A t \in Slot : slot'[t].steps = << >> BY <1>1, Kinds DEF Orderly
  <2>2. \A t \in Slot : ~Holds(slot'[t], p) BY <2>1 DEF Holds, Spawning, Noting, Awaiting
  <2> QED BY <1>1, <1>3, <2>2, Resting
<1>9. ServiceInv' BY <1>8 DEF ServiceInv
<1> QED BY <1>1, <1>7, <1>9, Around

-----------------------------------------------------------------------------
(* The theorems.                                                           *)

LEMMA InitInv == Init => IInv
<1> SUFFICES ASSUME Init PROVE IInv OBVIOUS
<1>1. PICK active \in BOOLEAN :
        /\ ServicesInit(active)
        /\ manifest = [p \in Profiles |-> IF active THEN "bound" ELSE "none"]
        /\ runtime = [p \in Profiles |-> IF active THEN [up |-> TRUE, cred |-> 1] ELSE Down]
        /\ unit = [p \in Profiles |-> IF active /\ p \in Persistent THEN "composition" ELSE "none"]
        /\ comp = IF active THEN [lifecycle |-> "active", last |-> "up", good |-> TRUE]
                  ELSE [lifecycle |-> "none", last |-> "none", good |-> FALSE]
        /\ creds = IF active THEN 1 ELSE 0
  BY DEF Init
<1>2. /\ source = [p \in Profiles |-> IF p \in Hosted THEN 1 ELSE 0]
      /\ starting = [p \in Profiles |-> 0] /\ helm = FALSE /\ meddled = {}
      /\ slot = [s \in Slot |-> Idle]
  BY DEF Init
<1>3. 0 \in Credential /\ 1 \in Credential
  <2>1. Cardinality(Profiles) \in Nat /\ Slots \in Nat BY FiniteProfiles, DevSessionAssumption
  <2> QED BY <2>1 DEF Credential
<1>4. Orders BY <1>2, IdleOrderly DEF Orders, Orderly
<1>5. \A s \in Slot : slot[s] = Idle BY <1>2
<1>6. ~Running(Idle) /\ ~Sure(Idle) /\ ~Alone(Idle) BY DEF Running, Sure, Alone, Idle
<1>7. Types
  <2>1. /\ record \in Records /\ leaders \in [Profiles -> SUBSET Start]
        /\ groups \in [Profiles -> SUBSET Start] /\ lost = [p \in Profiles |-> {}]
        /\ leaders = groups /\ reused \in [Profiles -> BOOLEAN] /\ lock = [p \in Profiles |-> 0]
    BY <1>1 DEF ServicesInit, Records, Absent, Start
  <2>2. \A p \in Profiles : IsFiniteSet(groups[p])
    <3>1. \A p \in Profiles : groups[p] = {} \/ groups[p] = {1} BY <1>1 DEF ServicesInit
    <3> QED BY <3>1, FS_EmptySet, FS_Singleton
  <2>3. /\ runtime \in [Profiles -> [up : BOOLEAN, cred : Credential]] /\ creds \in Credential
    BY <1>1, <1>3 DEF Down
  <2>4. /\ manifest \in [Profiles -> {"none", "free", "bound"}]
        /\ unit \in [Profiles -> {"none", "profile", "composition"}]
        /\ comp \in [lifecycle : {"none", "active", "degraded", "suspended"},
                     last : {"none", "up", "down"}, good : BOOLEAN]
    BY <1>1
  <2>5. /\ source \in [Profiles -> 0 .. 2] /\ starting \in [Profiles -> 0 .. Burst]
        /\ helm \in BOOLEAN /\ meddled \subseteq Profiles
    <3>1. source \in [Profiles -> 0 .. 2] BY <1>2
    <3>2. 0 \in 0 .. Burst BY DEF Burst
    <3>3. starting \in [Profiles -> 0 .. Burst] BY <1>2, <3>2
    <3>4. helm \in BOOLEAN /\ meddled \subseteq Profiles BY <1>2
    <3> QED BY <3>1, <3>3, <3>4
  <2>6. \A s \in Slot : slot[s].cmd \in {"idle", "composition", "profile", "child"}
    BY <1>5 DEF Idle
  <2>7. lock \in [Profiles -> 0 .. Slots] BY <2>1, DevSessionAssumption
  <2> QED BY <2>1, <2>2, <2>3, <2>4, <2>5, <2>6, <2>7
          DEF Types, TypeOK, ServicesTypeOK, Records, Credential
<1>8. ServiceInv
  <2>1. ASSUME NEW p \in Profiles PROVE Sound(p)
    <3>1. \A t \in Slot : ~Holds(slot[t], p) /\ ~Noting(slot[t], p) /\ ~Spawning(slot[t], p)
                          /\ ~Awaiting(slot[t], p) /\ t # 0
      BY <1>5, DevSessionAssumption DEF Holds, Spawning, Noting, Awaiting, Idle, Slot
    <3>2. LockHeld(p) BY <1>1, <3>1 DEF LockHeld, ServicesInit
    <3>3. Accounted(p) BY <1>1, <3>1 DEF Accounted, ServicesInit
    <3>4. Unrecorded(p) BY <1>1, <3>1 DEF Unrecorded, ServicesInit
    <3> QED BY <3>2, <3>3, <3>4 DEF Sound
  <2> QED BY <2>1 DEF ServiceInv
<1>9. RecordInv
  <2>1. RaceInv /\ IntentInv /\ CredentialInv /\ ThroughInv
    BY <1>5, <1>6 DEF RaceInv, IntentInv, CredentialInv, ThroughInv, Sure
  <2>2. \A p \in Profiles : Quiet(p) BY <1>5, <1>6 DEF Quiet
  <2>3. FinishedInv BY <1>1, <2>2 DEF FinishedInv
  <2>4. LifecycleInv BY <1>1 DEF LifecycleInv
  <2> QED BY <2>1, <2>3, <2>4 DEF RecordInv
<1> QED BY <1>4, <1>7, <1>8, <1>9 DEF IInv

LEMMA Inductive == IInv /\ [Next]_vars => IInv'
<1> SUFFICES ASSUME IInv, [Next]_vars PROVE IInv' OBVIOUS
<1>1. ASSUME NEW s \in Slot, Step(s) PROVE IInv'
  BY <1>1, GuardStep, OpenStep, StopStep, CommandStep, ReconcileStep, SpawnStep, NoteStep, AwaitStep,
     UnitStep, CloseStep, CredentialsStep, IntentStep, CleanupStep, RecordStep DEF Step
<1>2. ASSUME NEW s \in Slot, Fails1(s) PROVE IInv'
  BY <1>2, StopFailsStep, CommandFailsStep, SpawnFailsStep, AwaitFailsStep, UnitFailsStep, KilledStep
     DEF Fails1
<1>3. ASSUME NEW s \in Slot, Begin(s) PROVE IInv' BY <1>3, BeginStep
<1>4. ASSUME NEW s \in Slot, NEW p \in Profiles, Resume(s, p) PROVE IInv' BY <1>4, ResumeStep
<1>5. ASSUME NEW p \in Profiles, SourceMoves(p) \/ ServiceDies(p) \/ Stranger(p) PROVE IInv'
  BY <1>5, SourceMovesStep, ServiceDiesStep, StrangerStep
<1>6. CASE HelmRepaired \/ Reboot BY <1>6, HelmRepairedStep, RebootStep
<1>7. CASE UNCHANGED vars
  <2>1. /\ UNCHANGED <<record, leaders, groups, reused, lost, lock>>
        /\ UNCHANGED <<manifest, runtime, unit, starting, comp, creds, source, helm, slot, meddled>>
    BY <1>7 DEF vars, services
  <2>2. ServiceInv' BY <2>1, Kinds, Unserved
  <2>3. Types' BY <2>1, Kinds DEF Types, TypeOK, ServicesTypeOK
  <2> QED BY <2>1, <2>2, <2>3, Around
<1> QED BY <1>1, <1>2, <1>3, <1>4, <1>5, <1>6, <1>7 DEF Next

\* Commands, services and the record of the composition are always as the
\* invariant says, however the commands overlap, fail or are killed.
THEOREM Invariant == Spec => []IInv
BY InitInv, Inductive, PTL DEF Spec

\* No two processes of a service live (OneProcess): whoever starts, stops or is
\* killed, a living leader is the recorded one or about to be recorded.
THEOREM ProcessIsSingle == Spec => []OneProcess
<1>1. IInv => OneProcess
  <2> SUFFICES ASSUME IInv, NEW p \in Profiles, NEW n \in leaders[p] \ lost[p]
               PROVE  \/ record[p].start = n /\ record[p].current
                      \/ \E s \in Slot : lock[p] = s /\ slot[s].start = n
    BY DEF OneProcess
  <2>1. Sound(p) BY DEF IInv, ServiceInv
  <2> QED BY <2>1 DEF Sound, Accounted, LockHeld, Holds
<1> QED BY <1>1, Invariant, PTL

\* What is recorded of a session is well formed and true (SessionIsRecorded): an
\* active composition runs with the credential on disk, a suspended one does not
\* run, and no login starts it.
THEOREM RecordIsKept == Spec => []SessionIsRecorded
<1>1. IInv => SessionIsRecorded
  <2> SUFFICES ASSUME IInv PROVE SessionIsRecorded OBVIOUS
  <2>1. TypeOK /\ FinishedInv /\ LifecycleInv BY DEF IInv, Types, RecordInv
  <2>2. Profiles # {} BY FiniteProfiles
  <2>3. RecordIsTrue BY <2>1, <2>2 DEF RecordIsTrue, FinishedInv, LifecycleInv
  <2> QED BY <2>1, <2>3 DEF SessionIsRecorded
<1> QED BY <1>1, Invariant, PTL
=============================================================================
