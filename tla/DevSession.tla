------------------------------ MODULE DevSession ------------------------------
(***************************************************************************)
(* Development sessions: the commands of the shared runner on a profile    *)
(* (dev_integration.py) and on a runtime composition                       *)
(* (dev_integration_compositions.py), which runs one profile command after *)
(* another, with the login units that replay them                          *)
(* (dev_integration_auto_resume.py) and the declared host services (module *)
(* HostServices).  Nothing but the lock of the host services excludes two  *)
(* commands from each other.                                               *)
(***************************************************************************)
EXTENDS HostServices, Sequences, SequencesExt

CONSTANTS Order,     \* the profiles, providers first
          Persistent, \* profiles with resume policy operator-login
          Slots,     \* commands in flight at a time
          Actions,   \* actions of the operator's commands on one profile
          Commands,  \* commands of the operator
          Reboots,   \* restarts of the host
          Moves,     \* changes of a declaration
          Faults     \* failures, kills, dead processes, reused process ids

ASSUME DevSessionAssumption ==
  /\ Order \in Seq(Profiles) /\ Order # << >> /\ ToSet(Order) = Profiles
  /\ Hosted \subseteq Profiles /\ Persistent \subseteq Profiles
  /\ Actions \subseteq {"up", "down", "restore", "access", "smoke"}
  /\ Slots \in Nat \ {0} /\ Commands \in Nat /\ Reboots \in Nat /\ Moves \in Nat
  /\ Faults \in Nat

VARIABLES
  manifest,  \* current-session.yaml: "none", "free", or "bound" to the composition
  runtime,   \* what runs in the namespace of a profile, and with which credential
  unit,      \* login unit of a profile: "none", or what it replays
  starting,  \* how often systemd may still start the unit of a profile
  comp,      \* current-composition.yaml
  creds,     \* the private credential file of the composition, 0 when there is none
  source,    \* digest of a profile's declared service, 0 when it declares none
  helm,      \* a Helm operation is pending
  slot,      \* commands in flight
  meddled,   \* profiles on which a direct or an overlapping command acted last
  spent

vars == <<services, manifest, runtime, unit, starting, comp, creds, source, helm, slot,
          meddled, spent>>
local == <<services, manifest, runtime, unit>>

Slot == 1 .. Slots
Values == 1 .. Cardinality(Profiles) + Slots + 1
Down == [up |-> FALSE, cred |-> 0]
Idle == [cmd |-> "idle", action |-> "none", by |-> "none", stage |-> "none", todo |-> << >>,
         cred |-> 0, created |-> FALSE, done |-> << >>, failed |-> FALSE, undo |-> FALSE,
         spoiled |-> FALSE, raced |-> FALSE, steps |-> << >>, ok |-> TRUE, spec |-> 0, start |-> 0]

\* Nothing is there, or the composition is active.
Init ==
  /\ \E active \in BOOLEAN :
       /\ ServicesInit(active)
       /\ manifest = [p \in Profiles |-> IF active THEN "bound" ELSE "none"]
       /\ runtime = [p \in Profiles |-> IF active THEN [up |-> TRUE, cred |-> 1] ELSE Down]
       /\ unit = [p \in Profiles |->
                    IF active /\ p \in Persistent THEN "composition" ELSE "none"]
       /\ comp = IF active THEN [lifecycle |-> "active", last |-> "up", good |-> TRUE]
                 ELSE [lifecycle |-> "none", last |-> "none", good |-> FALSE]
       /\ creds = IF active THEN 1 ELSE 0
  /\ source = [p \in Profiles |-> IF p \in Hosted THEN 1 ELSE 0]
  /\ starting = [p \in Profiles |-> 0] /\ helm = FALSE /\ meddled = {}
  /\ slot = [s \in Slot |-> Idle]
  /\ spent = [commands |-> 0, reboots |-> 0, moves |-> 0, faults |-> 0]

Fault == /\ spent.faults < Faults
         /\ spent' = [spent EXCEPT !.faults = @ + 1]

(***************************************************************************)
(* Commands and the profile commands they run.                             *)
(***************************************************************************)
Mutating == {"up", "down", "restore"}

\* The profile a command is at, and what it does to it.
At(c) == Head(c.todo)
Act(c) == IF c.undo THEN "down" ELSE c.action
Composed(c) == c.cmd \in {"composition", "child"}

Steps(action) ==
  CASE action = "up"     -> <<"guard", "open", "command", "reconcile", "unit", "close">>
    [] action = "down"   -> <<"guard", "open", "stop", "command", "unit", "close">>
    [] action = "status" -> <<"command">>
    [] OTHER             -> <<"guard", "open", "command", "close">>

Now(s, step) == slot[s].steps # << >> /\ Head(slot[s].steps) = step
Stage(s, stage) == slot[s].cmd = "composition" /\ slot[s].stage = stage /\ slot[s].steps = << >>
Rest(s) == [slot[s] EXCEPT !.steps = Tail(@)]
Becomes(s, c) == slot' = [slot EXCEPT ![s] = c]
Proceed(s) == Becomes(s, Rest(s))

\* A unit that fails is started again; one that succeeds remains active.
Finished(s) ==
  starting' = [p \in Profiles |-> IF p = slot[s].by THEN 0 ELSE starting[p]]

End(s, ok) ==
  /\ Becomes(s, Idle)
  /\ IF ok THEN Finished(s) ELSE UNCHANGED starting

\* A failed start takes down what failed and then what was started, last first.
Compensation(c) == [c EXCEPT !.undo = TRUE, !.failed = TRUE,
                             !.todo = <<At(c)>> \o Reverse(c.done)]

\* The composition runs the profile command that is next, or is through.
Dispatched(c) ==
  IF c.todo = << >> THEN [c EXCEPT !.stage = "cleanup", !.steps = << >>]
  ELSE [c EXCEPT !.stage = "dispatch", !.steps = Steps(Act(c)), !.ok = TRUE, !.start = 0, !.spec = 0]

Advanced(c) == Dispatched([c EXCEPT !.todo = Tail(@), !.start = 0, !.spec = 0])

\* A start stops at the first failure; a shutdown and a status do not.
Returned(c, ok) ==
  IF ok THEN Advanced([c EXCEPT !.done = IF c.undo THEN @ ELSE Append(@, At(c))])
  ELSE IF c.undo THEN Advanced([c EXCEPT !.spoiled = TRUE])
  ELSE IF c.action = "up" THEN Dispatched(Compensation(c))
  ELSE Advanced([c EXCEPT !.failed = TRUE])

\* A profile command returns to its composition, or ends.
Return(s, ok) ==
  IF slot[s].cmd = "composition"
    THEN Becomes(s, Returned(slot[s], ok)) /\ UNCHANGED starting
    ELSE End(s, ok)

\* The rest of a profile command that failed only writes what it found.
Fails(s) == [slot[s] EXCEPT !.ok = FALSE, !.start = 0,
                            !.steps = IF Act(slot[s]) = "status" THEN << >> ELSE <<"close">>]

(***************************************************************************)
(* A profile command.                                                      *)
(***************************************************************************)
\* A direct command keeps off a profile of a composition that is not suspended.
Refused(c) ==
  /\ c.cmd = "profile" /\ c.action \in Mutating
  /\ manifest[At(c)] = "bound"
  /\ ~(comp.lifecycle = "suspended" /\ c.action # "up")

\* A smoke binds itself to an active composition.
SmokeRefused(c) ==
  /\ c.cmd = "profile" /\ c.action = "smoke"
  /\ comp.lifecycle = "degraded" \/ (comp.lifecycle = "active" /\ creds = 0)

Guard(s) ==
  /\ Now(s, "guard")
  /\ IF Refused(slot[s]) \/ SmokeRefused(slot[s]) THEN Return(s, FALSE)
     ELSE /\ Becomes(s, [Rest(s) EXCEPT !.spec = source[At(slot[s])],
               !.cred = IF slot[s].cmd = "profile" /\ slot[s].action = "smoke"
                             /\ comp.lifecycle = "active" THEN creds ELSE @])
          /\ UNCHANGED starting
  /\ UNCHANGED <<local, comp, creds, source, helm, meddled, spent>>

\* The manifest of the action replaces the present one, whatever the action is.
Written(c) == IF Composed(c) \/ (c.action = "smoke" /\ c.cred # 0) THEN "bound" ELSE "free"

Open(s) ==
  /\ Now(s, "open")
  /\ manifest' = [manifest EXCEPT ![At(slot[s])] = Written(slot[s])]
  /\ Proceed(s)
  /\ UNCHANGED <<services, runtime, unit, starting, comp, creds, source, helm, meddled, spent>>

\* Host services stop before the owner's command; if they do not, it does not run.
Stop(s) ==
  /\ Now(s, "stop")
  /\ LET p == At(slot[s]) IN
     /\ Free(p)
     /\ IF Identity(p) = "identity-mismatch"
          THEN Return(s, FALSE) /\ UNCHANGED <<record, leaders, groups, reused>>
          ELSE /\ IF slot[s].spec # 0 \/ Unreconciled(p) THEN Stopped(p)
                  ELSE UNCHANGED <<record, leaders, groups, reused>>
               /\ Proceed(s) /\ UNCHANGED starting
  /\ UNCHANGED <<lost, lock, manifest, runtime, unit, comp, creds, source, helm, meddled, spent>>

\* The process does not end within the wait.
StopFails(s) ==
  /\ Now(s, "stop")
  /\ Fault
  /\ Return(s, FALSE)
  /\ UNCHANGED <<local, comp, creds, source, helm, meddled>>

\* Other commands that may act on the profile.
Overlaps(s) == \E t \in Slot \ {s} :
  /\ slot[t].cmd # "idle" /\ slot[t].action \in Mutating
  /\ slot[t].cmd = "composition" \/ At(slot[t]) = At(slot[s])

Meddled(s) ==
  IF Act(slot[s]) \notin Mutating THEN meddled
  ELSE IF slot[s].cmd = "composition" /\ ~slot[s].raced /\ ~Overlaps(s) THEN meddled \ {At(slot[s])}
  ELSE meddled \cup {At(slot[s])}

Effect(s) ==
  LET p == At(slot[s]) IN
  CASE Act(slot[s]) = "up"   -> [runtime EXCEPT ![p] = [up |-> TRUE,
                                   cred |-> IF Composed(slot[s]) THEN slot[s].cred ELSE 0]]
    [] Act(slot[s]) = "down" -> [runtime EXCEPT ![p] = Down]
    [] OTHER                 -> runtime

\* The owner's command.  The status of a stopped runtime may fail or not, that
\* of a stopped service fails.
Command(s) ==
  /\ Now(s, "command")
  /\ runtime' = Effect(s)
  /\ meddled' = Meddled(s)
  /\ LET p == At(slot[s]) IN
     IF Act(slot[s]) # "status" THEN Proceed(s) /\ UNCHANGED starting
     ELSE \E ok \in BOOLEAN :
            /\ runtime[p].up => ok = (source[p] = 0 \/ Configured(p, source[p]))
            /\ ~runtime[p].up /\ source[p] # 0 => ~ok
            /\ Return(s, ok)
  /\ UNCHANGED <<services, manifest, unit, comp, creds, source, helm, spent>>

CommandFails(s) ==
  /\ Now(s, "command")
  /\ Fault
  /\ runtime' \in {runtime, Effect(s)}
  /\ meddled' = Meddled(s)
  /\ IF Act(slot[s]) = "status" THEN Return(s, FALSE)
     ELSE Becomes(s, Fails(s)) /\ UNCHANGED starting
  /\ UNCHANGED <<services, manifest, unit, comp, creds, source, helm>>

\* What runs as declared stays; what does not is replaced.  An undeclared
\* service that was recorded is stopped.
Reconcile(s) ==
  /\ Now(s, "reconcile")
  /\ LET p == At(slot[s]) IN
     /\ Free(p)
     /\ IF Identity(p) = "identity-mismatch" /\ (slot[s].spec # 0 \/ Unreconciled(p))
          THEN Becomes(s, Fails(s)) /\ UNCHANGED <<record, leaders, groups, reused, lock>>
        ELSE IF slot[s].spec = 0
          THEN /\ IF Unreconciled(p) THEN Stopped(p)
                  ELSE UNCHANGED <<record, leaders, groups, reused>>
               /\ Proceed(s) /\ UNCHANGED lock
        ELSE IF Configured(p, slot[s].spec)
          THEN Proceed(s) /\ UNCHANGED <<record, leaders, groups, reused, lock>>
          ELSE /\ Cleared(p) /\ Take(p, s)
               /\ Becomes(s, [Rest(s) EXCEPT !.steps = <<"spawn", "note", "await">> \o @])
  /\ UNCHANGED <<lost, manifest, runtime, unit, starting, comp, creds, source, helm, meddled,
                 spent>>

Spawn(s) ==
  /\ Now(s, "spawn")
  /\ LET p == At(slot[s]) IN
       /\ Spawned(p, Unused(p))
       /\ Becomes(s, [Rest(s) EXCEPT !.start = Unused(p)])
  /\ UNCHANGED <<record, reused, lost, lock, manifest, runtime, unit, starting, comp, creds,
                 source, helm, meddled, spent>>

SpawnFails(s) ==
  /\ Now(s, "spawn")
  /\ Fault
  /\ Yield(At(slot[s])) /\ Becomes(s, Fails(s))
  /\ UNCHANGED <<record, leaders, groups, reused, lost, manifest, runtime, unit, starting, comp,
                 creds, source, helm, meddled>>

\* The identity is written at once, unless the process is gone by then.
Note(s) ==
  /\ Now(s, "note")
  /\ LET p == At(slot[s]) IN
     IF slot[s].start \in leaders[p]
       THEN /\ Recorded(p, "starting", slot[s].start, slot[s].spec)
            /\ Proceed(s) /\ UNCHANGED <<leaders, groups, lock>>
       ELSE /\ Gone(p, slot[s].start) /\ Yield(p)
            /\ Becomes(s, Fails(s)) /\ UNCHANGED <<record, reused>>
  /\ UNCHANGED <<lost, manifest, runtime, unit, starting, comp, creds, source, helm, meddled,
                 spent>>

\* A service that is not ready in time is stopped.
Unready(s, p) ==
  /\ Gone(p, record[p].start) /\ Recorded(p, "failed", 0, slot[s].spec)
  /\ Becomes(s, Fails(s))

Await(s) ==
  /\ Now(s, "await")
  /\ LET p == At(slot[s]) IN
     /\ Yield(p)
     /\ IF Identity(p) = "running"
          THEN /\ Recorded(p, "running", record[p].start, record[p].digest)
               /\ Becomes(s, [Rest(s) EXCEPT !.start = 0]) /\ UNCHANGED <<leaders, groups>>
          ELSE Unready(s, p)
  /\ UNCHANGED <<lost, manifest, runtime, unit, starting, comp, creds, source, helm, meddled,
                 spent>>

AwaitFails(s) ==
  /\ Now(s, "await")
  /\ Fault
  /\ Unready(s, At(slot[s])) /\ Yield(At(slot[s]))
  /\ UNCHANGED <<lost, manifest, runtime, unit, starting, comp, creds, source, helm, meddled>>

\* The unit is registered for what the operator started.
Registered(c) ==
  IF At(c) \notin Persistent THEN "none"
  ELSE IF Composed(c) THEN "composition" ELSE "profile"

\* A run of a unit registers nothing; the compensation of a failed start keeps
\* the registration.
Kept(c) == \/ Act(c) = "up" /\ c.by # "operator"
           \/ Act(c) = "down" /\ Composed(c) /\ c.action = "up"

\* systemd ends the run of a unit that is disabled.
Unit(s) ==
  /\ Now(s, "unit")
  /\ LET p == At(slot[s])
         next == IF Kept(slot[s]) THEN unit[p]
                 ELSE IF Act(slot[s]) = "up" THEN Registered(slot[s]) ELSE "none"
         ended == {t \in Slot \ {s} : next = "none" /\ unit[p] # "none" /\ slot[t].by = p}
     IN /\ unit' = [unit EXCEPT ![p] = next]
        /\ slot' = [t \in Slot |-> IF t = s THEN Rest(s) ELSE IF t \in ended THEN Idle
                                   ELSE slot[t]]
        /\ starting' = [starting EXCEPT ![p] = IF next = "none" THEN 0 ELSE @]
        /\ lock' = [q \in Profiles |-> IF lock[q] \in ended THEN 0 ELSE lock[q]]
        /\ lost' = [q \in Profiles |-> lost[q] \cup
             (groups[q] \cap
                {slot[t].start : t \in {t \in ended : Now(t, "note") /\ At(slot[t]) = q}})]
  /\ UNCHANGED <<record, leaders, groups, reused, manifest, runtime, comp, creds, source, helm,
                 meddled, spent>>

UnitFails(s) ==
  /\ Now(s, "unit")
  /\ Fault
  /\ Becomes(s, Fails(s))
  /\ UNCHANGED <<local, starting, comp, creds, source, helm, meddled>>

Close(s) ==
  /\ Now(s, "close")
  /\ manifest' = [manifest EXCEPT ![At(slot[s])] = Written(slot[s])]
  /\ Return(s, slot[s].ok)
  /\ UNCHANGED <<services, runtime, unit, comp, creds, source, helm, meddled, spent>>

(***************************************************************************)
(* A command on the composition.                                           *)
(***************************************************************************)
Fresh == CHOOSE v \in Values : /\ \A p \in Profiles : runtime[p].cred # v
                               /\ \A t \in Slot : slot[t].cred # v

\* Only the start of a composition that is not recorded makes a credential.
Remade(c) ==
  IF c.action = "up" THEN ~helm /\ (comp.lifecycle \in {"none", "suspended"} \/ creds # 0)
  ELSE comp.lifecycle = "suspended" \/ (comp.lifecycle # "none" /\ creds # 0)

\* A start is refused while a Helm operation of a namespace is pending.  Only a
\* start makes a credential; what is not suspended needs the one it has.
Credentialed(c) ==
  IF c.action = "up" THEN ~helm
  ELSE comp.lifecycle = "suspended" \/ (comp.lifecycle # "none" /\ creds # 0)

Credentials(s) ==
  /\ Stage(s, "credentials")
  /\ IF ~Credentialed(slot[s]) THEN End(s, FALSE) /\ UNCHANGED creds
     ELSE LET create == slot[s].action = "up" /\ creds = 0
              value  == IF create THEN Fresh
                        ELSE IF slot[s].action # "up" /\ comp.lifecycle = "suspended" THEN 0
                        ELSE creds
                given  == [slot[s] EXCEPT !.cred = value, !.created = create, !.stage = "intent"]
          IN /\ creds' = IF create THEN value ELSE creds
             /\ Becomes(s, IF slot[s].action = "status" THEN Dispatched(given) ELSE given)
             /\ UNCHANGED starting
  /\ UNCHANGED <<local, comp, source, helm, meddled, spent>>

\* Nothing is recorded before the run.
Unintended(c) == comp

\* Before the first profile changes, the record says that an action is unfinished.
Intended(c) == [lifecycle |-> "degraded", last |-> c.action, good |-> FALSE]

Intent(s) ==
  /\ Stage(s, "intent")
  /\ comp' = Intended(slot[s])
  /\ Becomes(s, Dispatched(slot[s]))
  /\ UNCHANGED <<local, starting, creds, source, helm, meddled, spent>>

\* The credential goes with the runtime, or with the start that made it.
Cleanup(s) ==
  /\ Stage(s, "cleanup")
  /\ LET c == slot[s] IN
       creds' = IF \/ c.action = "down" /\ ~c.failed
                   \/ c.action = "up" /\ c.failed /\ c.created /\ ~c.spoiled
                  THEN 0 ELSE creds
  /\ Becomes(s, [slot[s] EXCEPT !.stage = "record"])
  /\ UNCHANGED <<local, starting, comp, source, helm, meddled, spent>>

\* A status repairs the record of a start that once succeeded; it never turns
\* an unfinished action into a finished one.
Outcome(c) ==
  IF c.action = "status"
    THEN [comp EXCEPT !.lifecycle =
            IF c.failed THEN "degraded"
            ELSE IF @ = "degraded" /\ comp.last = "up" /\ comp.good THEN "active" ELSE @]
    ELSE [lifecycle |-> IF c.failed THEN "degraded"
                        ELSE IF c.action = "up" THEN "active" ELSE "suspended",
          last |-> c.action, good |-> ~c.failed]

Record(s) ==
  /\ Stage(s, "record")
  /\ comp' = Outcome(slot[s])
  /\ meddled' = IF slot[s].raced THEN Profiles ELSE meddled
  /\ End(s, ~slot[s].failed /\ Outcome(slot[s]).lifecycle \in {"active", "suspended"})
  /\ UNCHANGED <<local, creds, source, helm, spent>>

(***************************************************************************)
(* The operator, systemd, faults and the host.                             *)
(***************************************************************************)
Raced(s, action) == {t \in Slot : slot[t].cmd = "composition" /\ slot[t].action \in Mutating
                                  /\ action \in Mutating /\ t # s}

Started(s, c) ==
  LET raced == IF c.cmd = "composition" THEN Raced(s, c.action) ELSE {} IN
  slot' = [t \in Slot |-> IF t = s THEN [c EXCEPT !.raced = raced # {}]
                          ELSE [slot[t] EXCEPT !.raced = @ \/ t \in raced]]

Composition(action, by) ==
  [Idle EXCEPT !.cmd = "composition", !.action = action, !.by = by,
               !.stage = "credentials",
               !.todo = IF action = "down" THEN Reverse(Order) ELSE Order]

Profile(action, p, by) ==
  [Idle EXCEPT !.cmd = "profile", !.action = action, !.by = by, !.todo = <<p>>,
               !.steps = Steps(action)]

\* Slots are taken in turn.
Unoccupied(s) == slot[s].cmd = "idle" /\ \A t \in 1 .. s - 1 : slot[t].cmd # "idle"

Begin(s) ==
  /\ Unoccupied(s)
  /\ spent.commands < Commands
  /\ spent' = [spent EXCEPT !.commands = @ + 1]
  /\ \/ \E action \in {"up", "down", "status"} : Started(s, Composition(action, "operator"))
     \/ \E action \in Actions, p \in Profiles :
          Started(s, Profile(action, p, "operator"))
  /\ UNCHANGED <<local, starting, comp, creds, source, helm, meddled>>

\* systemd starts an enabled unit at login, and again a while after it failed.
Resume(s, p) ==
  /\ Unoccupied(s)
  /\ starting[p] > 0
  /\ \A t \in Slot : slot[t].by # p
  /\ Started(s, IF unit[p] = "composition" THEN Composition("up", p) ELSE Profile("up", p, p))
  /\ starting' = [starting EXCEPT ![p] = @ - 1]
  /\ UNCHANGED <<local, comp, creds, source, helm, meddled, spent>>

\* The process of a command is gone.  Its locks are free, a service it spawned
\* and did not record is on its own.  Of a composition the profile command in
\* flight may survive it, unless systemd ran it.
Killed(s) ==
  /\ slot[s].cmd # "idle"
  /\ Fault
  /\ LET c == slot[s] IN
     /\ \/ /\ Becomes(s, Idle)
           /\ Freed(s)
           /\ lost' = [p \in Profiles |->
                         IF Now(s, "note") /\ At(c) = p
                           THEN lost[p] \cup ({c.start} \cap groups[p]) ELSE lost[p]]
           /\ runtime' \in IF Now(s, "command") THEN {runtime, Effect(s)} ELSE {runtime}
           /\ helm' \in IF Now(s, "command") /\ Act(c) = "up" THEN BOOLEAN ELSE {helm}
           /\ meddled' = IF Now(s, "command") THEN Meddled(s) ELSE meddled
        \/ /\ c.cmd = "composition" /\ c.steps # << >> /\ c.by = "operator"
           /\ Becomes(s, [c EXCEPT !.cmd = "child", !.todo = <<At(c)>>])
           /\ UNCHANGED <<lock, lost, runtime, helm, meddled>>
  /\ UNCHANGED <<record, leaders, groups, reused, manifest, unit, starting, comp, creds, source>>

HelmRepaired ==
  /\ helm
  /\ helm' = FALSE
  /\ UNCHANGED <<local, starting, comp, creds, source, slot, meddled, spent>>

\* systemd gives up on a unit after three starts.
Burst == 3

Reboot ==
  /\ \A s \in Slot : slot[s].cmd = "idle"
  /\ spent.reboots < Reboots
  /\ spent' = [spent EXCEPT !.reboots = @ + 1]
  /\ ServicesReboot
  /\ starting' = [p \in Profiles |-> IF unit[p] # "none" THEN Burst ELSE 0]
  /\ UNCHANGED <<manifest, runtime, unit, comp, creds, source, helm, slot, meddled>>

\* The declaration of a service changes, or goes.
SourceMoves(p) ==
  /\ spent.moves < Moves
  /\ spent' = [spent EXCEPT !.moves = @ + 1]
  /\ source[p] = 1
  /\ \E d \in {0, 2} : source' = [source EXCEPT ![p] = d]
  /\ UNCHANGED <<local, starting, comp, creds, helm, slot, meddled>>

ServiceDies(p) ==
  /\ Fault
  /\ LeaderDies(p)
  /\ UNCHANGED <<manifest, runtime, unit, starting, comp, creds, source, helm, slot, meddled>>

Stranger(p) ==
  /\ (Reuse(p) /\ Fault) \/ (StrangerLeaves(p) /\ UNCHANGED spent)
  /\ UNCHANGED <<manifest, runtime, unit, starting, comp, creds, source, helm, slot, meddled>>

Step(s) == \/ Guard(s) \/ Open(s) \/ Stop(s) \/ Command(s) \/ Reconcile(s) \/ Spawn(s)
           \/ Note(s) \/ Await(s) \/ Unit(s) \/ Close(s)
           \/ Credentials(s) \/ Intent(s) \/ Cleanup(s)
           \/ Record(s)

Fails1(s) == \/ StopFails(s) \/ CommandFails(s) \/ SpawnFails(s) \/ AwaitFails(s)
             \/ UnitFails(s) \/ Killed(s)

Next ==
  \/ \E s \in Slot : \/ Step(s) \/ Fails1(s) \/ Begin(s)
                     \/ \E p \in Profiles : Resume(s, p)
  \/ \E p \in Profiles : SourceMoves(p) \/ ServiceDies(p) \/ Stranger(p)
  \/ HelmRepaired \/ Reboot

\* A command in flight goes on, and systemd starts the units it has to start.
Fairness == /\ \A s \in Slot : WF_vars(Step(s))
            /\ \A p \in Profiles : WF_vars(\E s \in Slot : Resume(s, p))

Spec == Init /\ [][Next]_vars /\ Fairness

(***************************************************************************)
(* Properties.                                                             *)
(***************************************************************************)
\* Every variable has its type.
TypeOK ==
  /\ ServicesTypeOK
  /\ manifest \in [Profiles -> {"none", "free", "bound"}]
  /\ runtime \in [Profiles -> [up : BOOLEAN, cred : 0 .. Cardinality(Profiles) + Slots + 1]]
  /\ unit \in [Profiles -> {"none", "profile", "composition"}]
  /\ starting \in [Profiles -> 0 .. Burst]
  /\ comp.lifecycle \in {"none", "active", "degraded", "suspended"}
  /\ comp.last \in {"none", "up", "down"} /\ comp.good \in BOOLEAN
  /\ creds \in 0 .. Cardinality(Profiles) + Slots + 1
  /\ source \in [Profiles -> 0 .. 2] /\ helm \in BOOLEAN /\ meddled \subseteq Profiles
  /\ \A s \in Slot : slot[s].cmd \in {"idle", "composition", "profile", "child"}

\* No two processes of a service live: each leader is the recorded one, or the
\* one that the holder of the profile's lock is about to record, whoever starts,
\* stops, is killed or finds the record of an earlier boot.
OneProcess ==
  \A p \in Profiles : \A n \in leaders[p] \ lost[p] :
    \/ record[p].start = n /\ record[p].current
    \/ \E s \in Slot : lock[p] = s /\ slot[s].start = n

\* What the composition records is so, however its runs were cut short or
\* failed: when it is active every profile runs with the credential on disk,
\* when it is suspended none runs and no login starts it again.  Profiles on
\* which other commands acted are excepted.
RecordIsTrue ==
  /\ comp.lifecycle = "active" =>
       /\ meddled = {} => creds # 0
       /\ \A p \in Profiles \ meddled : runtime[p] = [up |-> TRUE, cred |-> creds]
  /\ comp.lifecycle = "suspended" =>
       \A p \in Profiles \ meddled : ~runtime[p].up /\ unit[p] # "composition"

\* The records of a session are well formed and true.
SessionIsRecorded == TypeOK /\ RecordIsTrue

\* A login brings back the composition whose unit is registered, within the
\* starts systemd grants and from whatever a kill or a failure left, unless the operator
\* takes its unit away, a Helm operation is pending, or a service's process id
\* belongs to another process.
ResumeSucceeds ==
  \A p \in Profiles :
    starting[p] = Burst /\ unit[p] = "composition" ~>
      \/ comp.lifecycle = "active" \/ unit[p] # "composition" \/ helm
      \/ \E q \in Profiles : reused[q]
=============================================================================
