-------------------------- MODULE CredentialProofs --------------------------
(***************************************************************************)
(* Proofs about what keeps credentials: ProviderConnections, for any       *)
(* operations and keys and any number of revisions, CodexAccount, for any  *)
(* sign-ins, invocations and bounds, Backends, which composes the two, and *)
(* AgentSource, for any number of tokens, commands and faults, any lifetime*)
(* of a token and any end of the approval.                                 *)
(***************************************************************************)
EXTENDS Backends, AgentSource, FiniteSetTheorems, TLAPS

-----------------------------------------------------------------------------
(* Connections: the invariant.                                             *)

IsPending(c) == ops[c] # None /\ ops[c].state = "pending"

\* What the connection says of the operation that is pending on it, and nothing
\* else is pending.
ItemInv ==
  /\ item # None =>
       /\ item.pending # None =>
            /\ IsPending(item.pending)
            /\ \/ ops[item.pending].action = "credentials" /\ item.state = "active"
               \/ ops[item.pending].action = "disconnect" /\ item.state = "disconnected"
               \/ ops[item.pending].action = "remove" /\ item.state = "removing"
       /\ item.state = "removing" => item.pending # None
  /\ \A c \in Op : IsPending(c) => item # None /\ item.pending = c

\* What a call knows at each of its steps.
CallInv ==
  call.at # "idle" =>
    /\ call.op \in Op /\ IsPending(call.op)
    /\ call.at \in {"read", "write", "read again", "recover"} =>
         ops[call.op].action = "credentials"
    /\ call.at \in {"read", "write", "read again"} => call.key # None
    /\ call.at = "backend" => ops[call.op].action = "remove"
    /\ call.at \in {"fence", "tombstone"} => ops[call.op].action # "credentials"
    /\ call.at \in {"write", "tombstone"} =>
         /\ call.version # None /\ call.version <= vault.version
         /\ vault.op = call.op => call.version # vault.version

\* The entry is that of the operation until it is finished.
FinishInv ==
  call.at = "finish" =>
    /\ vault.op = call.op
    /\ IF ops[call.op].action = "credentials"
       THEN call.version = vault.version /\ vault.key # None
       ELSE vault.key = None

\* A key is written by a credential operation, a tombstone by a retirement.
Writer(c, key) == ops[c] # None /\ (key # None <=> ops[c].action = "credentials")

WriteInv ==
  /\ vault.op # None => Writer(vault.op, vault.key)
  /\ \A w \in late : Writer(w.op, w.key) /\ w.cas <= vault.version

\* A write that was given up can be applied only while an operation is pending
\* that has not written yet.
Live == {w \in late : w.cas = vault.version}

QuietInv ==
  Live # {} => item # None /\ item.pending # None /\ item.pending # vault.op

\* The generation of a connection at rest.
GenerationInv ==
  item # None /\ item.pending = None =>
    /\ item.generation # None => item.state = "active" /\ IsCurrent(item.generation)
    /\ item.state # "active" => vault.key = None

\* A key is used while the connection is at rest.
UseInv ==
  /\ use.at = "idle" => use = Unused
  /\ use.at # "idle" =>
       /\ item # None /\ item.state = "active" /\ item.pending = None
       /\ item.generation # None /\ item.generation = use.generation
  /\ use.at = "using" => IsCurrent(use.generation)

\* A removal has nothing left in the configuration once its backend is removed.
Sane(conf1) == conf1 \in Configuration /\ (conf1.used => conf1.registered)

ConfigInv ==
  /\ Sane(config) /\ \A old \in past : Sane(old)
  /\ admission # None => Sane(admission) /\ admission.registered
  /\ call.at # "idle" /\ ops[call.op].action = "remove" =>
       admission = None /\ (call.at # "backend" => config = Absent)
  /\ item # None /\ item.state = "removed" => config = Absent /\ admission = None

\* The operations that have written, or will not write any more.
Spent ==
  {c \in Op : /\ ops[c] # None
              /\ ops[c].state = "pending" => vault.op = c
              /\ \A w \in Live : w.op # c}

CountInv == vault.version <= Cardinality(Spent)

IInv ==
  TypeOK /\ ItemInv /\ CallInv /\ FinishInv /\ WriteInv /\ QuietInv /\ GenerationInv
  /\ UseInv /\ ConfigInv /\ CountInv

-----------------------------------------------------------------------------
(* Connections: records.                                                   *)

\* A call is at a step.
CallAt(step, c, key, version) ==
  /\ call' \in Call
  /\ call'.at = step /\ call'.op = c /\ call'.key = key /\ call'.version = version

\* A call ends.
LEMMA Resting == ASSUME call' = Idle PROVE CallAt("idle", None, None, None)
BY DEF CallAt, Idle, Call, Step

\* Calls begin and go on.
LEMMA Calling ==
  ASSUME TypeOK, NEW step \in Step, NEW c \in Op, NEW k \in Key \cup {None},
         NEW v \in Nat \cup {None}
  PROVE  /\ Does(step, c) => CallAt(step, c, None, None)
         /\ call' = [Idle EXCEPT !.at = step, !.op = c, !.key = k] => CallAt(step, c, k, None)
         /\ call' = [Idle EXCEPT !.at = step, !.op = c, !.version = v] =>
              CallAt(step, c, None, v)
         /\ Goes(step) => CallAt(step, call.op, call.key, call.version)
         /\ call' = [call EXCEPT !.at = step, !.version = v] =>
              CallAt(step, call.op, call.key, v)
<1>1. Idle \in Call /\ Idle.at = "idle" /\ Idle.op = None /\ Idle.key = None
      /\ Idle.version = None
  BY DEF Idle, Call, Step
<1>2. ASSUME NEW x \in Call
      PROVE  /\ call' = [x EXCEPT !.at = step] => CallAt(step, x.op, x.key, x.version)
             /\ call' = [x EXCEPT !.at = step, !.op = c] => CallAt(step, c, x.key, x.version)
             /\ call' = [x EXCEPT !.at = step, !.op = c, !.key = k] =>
                  CallAt(step, c, k, x.version)
             /\ call' = [x EXCEPT !.at = step, !.op = c, !.version = v] =>
                  CallAt(step, c, x.key, v)
             /\ call' = [x EXCEPT !.at = step, !.version = v] => CallAt(step, x.op, x.key, v)
  BY DEF Call, CallAt
<1>3. call \in Call
  BY DEF TypeOK
<1>4. Does(step, c) => CallAt(step, c, None, None)
  BY <1>1, <1>2 DEF Does
<1>5. Goes(step) => CallAt(step, call.op, call.key, call.version)
  BY <1>2, <1>3 DEF Goes
<1> QED BY <1>1, <1>2, <1>3, <1>4, <1>5

\* The operation that was pending on it ends.
LEMMA Closing ==
  ASSUME NEW i \in Connection, NEW g \in Generation \cup {None},
         NEW s \in {"active", "disconnected", "removing", "removed"}
  PROVE  LET new == [i EXCEPT !.pending = None, !.state = s, !.generation = g]
         IN /\ new \in Connection
            /\ new.state = s /\ new.pending = None /\ new.generation = g
BY DEF Connection

\* An operation is new.
LEMMA Beginning ==
  ASSUME NEW c \in Op, NEW action \in Action
  PROVE  /\ Pending(c, action) \in Operation
         /\ Pending(c, action).action = action /\ Pending(c, action).state = "pending"
BY DEF Pending, Operation

\* An operation ends.
LEMMA Ending ==
  ASSUME NEW o \in Operation, NEW s \in {"pending", "finished", "cancelled"}
  PROVE  LET new == [o EXCEPT !.state = s]
         IN new \in Operation /\ new.state = s /\ new.action = o.action
BY DEF Operation

\* An operation notes the version it has read.
LEMMA Noting ==
  ASSUME NEW o \in Operation, NEW v \in Nat
  PROVE  LET new == [o EXCEPT !.previous = v]
         IN new \in Operation /\ new.state = o.state /\ new.action = o.action
BY DEF Operation

-----------------------------------------------------------------------------
(* Connections: writes.                                                    *)

\* A write that is applied is that of its operation at the next version.
LEMMA Applied ==
  ASSUME NEW w \in Write
  PROVE  /\ After(w) \in Entry
         /\ After(w).version = w.cas + 1 /\ After(w).op = w.op /\ After(w).key = w.key
BY DEF After, Write, Entry

\* There are finitely many operations.
LEMMA FiniteOps ==
  ASSUME NEW S \in SUBSET Op, NEW T \in SUBSET S
  PROVE  /\ IsFiniteSet(S) /\ Cardinality(S) \in Nat
         /\ Cardinality(T) <= Cardinality(S)
BY ConnectionAssumption, FS_Subset, FS_CardinalityType

\* One more write is one more operation spent, if there is any write at all.
LEMMA Counting ==
  ASSUME IInv, TypeOK', Spent \subseteq Spent',
         \/ vault'.version = vault.version
         \/ /\ vault'.version = vault.version + 1
            /\ Spent' \ Spent # {}
  PROVE  CountInv'
<1>1. Spent \in SUBSET Op /\ Spent' \in SUBSET Op
  BY DEF Spent
<1>2. vault.version \in Nat /\ vault'.version \in Nat
  BY DEF IInv, TypeOK, Entry
<1>3. /\ Cardinality(Spent) \in Nat /\ Cardinality(Spent') \in Nat
      /\ Cardinality(Spent) <= Cardinality(Spent') /\ IsFiniteSet(Spent)
  BY <1>1, FiniteOps
<1>4. CASE vault'.version = vault.version
  BY <1>2, <1>3, <1>4 DEF IInv, CountInv
<1>5. ASSUME NEW c \in Spent' \ Spent, vault'.version = vault.version + 1 PROVE CountInv'
  <2>1. Cardinality(Spent \cup {c}) = Cardinality(Spent) + 1
    BY <1>3, <1>5, FS_AddElement
  <2>2. Cardinality(Spent \cup {c}) <= Cardinality(Spent')
    BY <1>1, <1>5, FiniteOps
  <2> QED BY <1>2, <1>3, <1>5, <2>1, <2>2 DEF IInv, CountInv
<1> QED BY <1>4, <1>5

\* What does not touch the connection, its operations and Vault.
LEMMA Staying ==
  ASSUME IInv, TypeOK', UNCHANGED <<item, ops, vault, late>>
  PROVE  ItemInv' /\ WriteInv' /\ QuietInv' /\ GenerationInv' /\ CountInv'
<1>1. ItemInv' /\ WriteInv'
  BY DEF IInv, ItemInv, WriteInv, Writer, IsPending
<1>2. Live' = Live
  BY DEF Live
<1>3. QuietInv' /\ GenerationInv'
  BY <1>2 DEF IInv, QuietInv, GenerationInv, IsCurrent
<1>4. Spent' = Spent
  BY <1>2 DEF Spent
<1> QED BY <1>1, <1>3, <1>4, Counting DEF IInv, TypeOK

\* What moves neither the calls nor what they rely on.
LEMMA CallsStay ==
  ASSUME IInv, UNCHANGED <<call, ops, vault>>
  PROVE  CallInv' /\ FinishInv'
BY DEF IInv, CallInv, FinishInv, IsPending
-----------------------------------------------------------------------------
(* Connections: the invariant is inductive.                                *)

\* The invariant holds before the connection is created.
LEMMA Initial == ASSUME Init PROVE IInv
<1>1. TypeOK
  BY ConnectionAssumption
  DEF Init, TypeOK, Absent, Idle, Unused, Configuration, Entry, Call, Step, Use
<1>2. ItemInv /\ CallInv /\ FinishInv /\ WriteInv /\ QuietInv /\ GenerationInv /\ UseInv
  BY DEF Init, ItemInv, CallInv, FinishInv, WriteInv, QuietInv, Live, GenerationInv, UseInv,
         IsPending, Idle, Unused
<1>3. ConfigInv
  BY DEF Init, ConfigInv, Sane, Absent, Idle, Configuration
<1>4. CountInv
  <2>1. Cardinality(Spent) \in Nat
    BY FiniteOps DEF Spent
  <2> QED BY <2>1 DEF CountInv, Init
<1> QED BY <1>1, <1>2, <1>3, <1>4 DEF IInv

\* The steps of a call that only read.
LEMMA ReadSteps ==
  ASSUME IInv, \/ CallFails \/ BackendConflict \/ ReadAgain \/ Recover \/ Fence
               \/ ReadKey /\ IsOurs
               \/ \E c \in Op : Reconcile(c)
  PROVE  IInv'
<1>1. UNCHANGED <<item, ops, vault, late, config, past, revision, committed, use, admission>>
  BY DEF CallFails, BackendConflict, ReadAgain, Recover, Fence, ReadKey, IsOurs, Reconcile, conf
<1>2. TypeOK
  BY DEF IInv
<1>3. vault.version \in Nat
  BY <1>2 DEF TypeOK, Entry
<1>4. CASE CallFails \/ BackendConflict
  <2>1. CallAt("idle", None, None, None)
    BY <1>4, Resting DEF CallFails, BackendConflict
  <2> QED BY <1>1, <1>2, <2>1, Staying
      DEF IInv, TypeOK, CallInv, FinishInv, UseInv, IsCurrent, ConfigInv, CallAt
<1>5. CASE ReadAgain \/ Recover \/ (ReadKey /\ IsOurs)
  <2>1. /\ CallAt("finish", call.op, call.key, vault.version)
        /\ call.at \in {"read", "read again", "recover"} /\ vault.op = call.op /\ vault.key # None
    BY <1>2, <1>3, <1>5, Calling
    DEF ReadAgain, Recover, ReadKey, Finds, IsOurs, Recovered, Step, IInv, CallInv
  <2>2. CallInv' /\ FinishInv'
    BY <1>1, <2>1 DEF IInv, CallInv, FinishInv, IsPending, CallAt
  <2>3. TypeOK' /\ UseInv' /\ ConfigInv'
    BY <1>1, <1>2, <2>1 DEF IInv, TypeOK, CallInv, UseInv, IsCurrent, ConfigInv, CallAt
  <2> QED BY <1>1, <2>2, <2>3, Staying DEF IInv
<1>6. CASE Fence
  <2>1. \/ Fenced /\ CallAt("finish", call.op, call.key, call.version)
        \/ ~Fenced /\ CallAt("tombstone", call.op, call.key, vault.version)
    BY <1>2, <1>3, <1>6, Calling DEF Fence, Step, IInv, CallInv
  <2>2. call.at = "fence" /\ call.op # None
    BY <1>6, ConnectionAssumption DEF Fence, IInv, CallInv
  <2>3. ~Fenced => vault.op # call.op
    BY <2>2 DEF IInv, CallInv, WriteInv, Writer, Fenced, IsPending
  <2>4. CallInv' /\ FinishInv'
    <3>1. /\ call.op \in Op /\ ops'[call.op] # None /\ ops'[call.op].state = "pending"
          /\ ops'[call.op].action # "credentials"
      BY <1>1, <2>2 DEF IInv, CallInv, IsPending
    <3>2. CASE Fenced
      BY <1>1, <2>1, <3>1, <3>2 DEF CallInv, FinishInv, CallAt, Fenced, IsPending
    <3>3. CASE ~Fenced
      <4>1. vault.version # None
        BY <1>3, ConnectionAssumption
      <4>2. /\ call'.at = "tombstone" /\ call'.op = call.op /\ vault' = vault
            /\ call'.version = vault.version /\ vault.version <= vault.version
        BY <1>1, <1>3, <2>1, <3>3 DEF CallAt
      <4> QED BY <1>1, <2>3, <3>1, <3>3, <4>1, <4>2 DEF CallInv, FinishInv, IsPending
    <3> QED BY <3>2, <3>3
  <2>5. TypeOK' /\ UseInv' /\ ConfigInv'
    BY <1>1, <1>2, <2>1, <2>2 DEF IInv, TypeOK, CallInv, UseInv, IsCurrent, ConfigInv, CallAt
  <2> QED BY <1>1, <2>4, <2>5, Staying DEF IInv
<1>7. ASSUME NEW c \in Op, Reconcile(c) PROVE IInv'
  <2>1. CallAt("recover", c, None, None) /\ IsPending(c) /\ ops[c].action = "credentials"
    BY <1>2, <1>3, <1>7, Calling DEF Reconcile, Step, IsPending
  <2>2. TypeOK' /\ CallInv' /\ FinishInv' /\ UseInv' /\ ConfigInv'
    BY <1>1, <2>1
    DEF IInv, TypeOK, CallInv, FinishInv, UseInv, IsCurrent, ConfigInv, CallAt, IsPending
  <2> QED BY <1>1, <2>2, Staying DEF IInv
<1> QED BY <1>4, <1>5, <1>6, <1>7

\* A configuration that is sane stays so.
LEMMA Registering ==
  ASSUME Sane(config)
  PROVE  /\ Sane(Absent) /\ (~config.registered => config = Absent)
         /\ Sane([config EXCEPT !.registered = TRUE])
BY DEF Sane, Absent, Configuration

\* The steps of the configuration.
LEMMA ConfigSteps ==
  ASSUME IInv, \/ BackendRemoved \/ AdmissionEnds \/ ConfigurationMoves
               \/ \E new \in Configuration : Admit(new)
  PROVE  IInv'
<1>1. UNCHANGED <<item, ops, vault, late, use>>
  BY DEF BackendRemoved, AdmissionEnds, ConfigurationMoves, Admit
<1>2. TypeOK /\ ConfigInv /\ Sane(config) /\ MaxRevision \in Nat
  BY ConnectionAssumption DEF IInv, ConfigInv
<1>3. UseInv'
  BY <1>1 DEF IInv, UseInv, IsCurrent
<1>4. ASSUME NEW new \in Configuration, Configures(new)
      PROVE  /\ config' = new /\ config' \in Configuration /\ past' \subseteq Configuration
             /\ revision' \in 0 .. MaxRevision
             /\ past' = past \cup {new}
  BY <1>2, <1>4 DEF TypeOK, Configures
<1>5. CASE BackendRemoved
  <2>1. CallAt("fence", call.op, call.key, None) /\ call.at = "backend"
    BY <1>2, <1>5, Calling DEF BackendRemoved, Step, IInv, CallInv
  <2>2. Configures(Absent) /\ Absent \in Configuration /\ UNCHANGED admission
    BY <1>2, <1>5, Registering DEF BackendRemoved, Sane
  <2>3. committed' \in [Op -> Nat \cup {None}]
    <3>1. revision \in Nat
      BY <1>2 DEF TypeOK
    <3> QED BY <1>2, <1>5, <3>1 DEF BackendRemoved, TypeOK
  <2>4. TypeOK'
    BY <1>1, <1>2, <1>4, <2>1, <2>2, <2>3 DEF TypeOK, CallAt
  <2>5. CallInv' /\ FinishInv'
    BY <1>1, <2>1 DEF IInv, CallInv, FinishInv, IsPending, CallAt
  <2>6. ConfigInv'
    BY <1>1, <1>2, <1>4, <2>1, <2>2, Registering DEF ConfigInv, Sane, CallAt
  <2> QED BY <1>1, <1>3, <2>4, <2>5, <2>6, Staying DEF IInv
<1>6. CASE ConfigurationMoves
  <2>1. PICK new \in Configuration :
          /\ new # config /\ (new.registered => config.registered)
          /\ (new.used => new.registered) /\ Configures(new)
    BY <1>6 DEF ConfigurationMoves
  <2>2. UNCHANGED <<committed, call, admission>>
    BY <1>6 DEF ConfigurationMoves
  <2>3. TypeOK'
    BY <1>1, <1>2, <1>4, <2>1, <2>2 DEF TypeOK
  <2>4. config # Absent
    <3>1. new.registered => config.registered
      BY <2>1
    <3>2. Sane(new) /\ (~new.registered => new = Absent)
      BY <2>1 DEF Sane, Absent, Configuration
    <3>3. ~Absent.registered
      BY DEF Absent
    <3> QED BY <2>1, <3>2, <3>3
  <2>5. ConfigInv'
    BY <1>1, <1>2, <1>4, <2>1, <2>2, <2>4 DEF ConfigInv, Sane
  <2> QED BY <1>1, <1>3, <2>2, <2>3, <2>5, Staying, CallsStay DEF IInv
<1>7. CASE AdmissionEnds
  <2>1. /\ admission # None /\ admission' = None /\ UNCHANGED <<committed, call>>
        /\ Configures(admission) \/ UNCHANGED <<config, past, revision>>
    BY <1>7 DEF AdmissionEnds
  <2>2. admission \in Configuration /\ Sane(admission)
    BY <1>2, <2>1 DEF TypeOK, ConfigInv
  <2>3. TypeOK'
    BY <1>1, <1>2, <1>4, <2>1, <2>2 DEF TypeOK
  <2>4. ConfigInv'
    BY <1>1, <1>2, <1>4, <2>1, <2>2 DEF ConfigInv
  <2> QED BY <1>1, <1>3, <2>1, <2>3, <2>4, Staying, CallsStay DEF IInv
<1>8. ASSUME NEW new \in Configuration, Admit(new) PROVE IInv'
  <2>1. /\ UNCHANGED <<config, past, revision, committed, call>> /\ admission' = new
        /\ call = Idle /\ item # None /\ item.state # "removed" /\ new.registered
        /\ new \in past \cup {[config EXCEPT !.registered = TRUE]}
    BY <1>8 DEF Admit, conf
  <2>2. Sane(new)
    BY <1>2, <2>1, Registering DEF ConfigInv
  <2>3. TypeOK'
    BY <1>1, <1>2, <2>1 DEF TypeOK
  <2>4. ConfigInv'
    BY <1>1, <1>2, <2>1, <2>2 DEF ConfigInv, Idle
  <2> QED BY <1>1, <1>3, <2>1, <2>3, <2>4, Staying, CallsStay DEF IInv
<1> QED BY <1>5, <1>6, <1>7, <1>8

\* A key is used while no command is at work, and the server dies.
LEMMA UseSteps ==
  ASSUME IInv, UseBegins \/ UseKey \/ UseEnds \/ Crash
  PROVE  IInv'
<1>1. UNCHANGED <<item, ops, vault, late, config, past, revision, committed>>
  BY DEF UseBegins, UseKey, UseEnds, Crash, conf
<1>2. TypeOK
  BY DEF IInv
<1>3. CASE Crash
  <2>1. call' = Idle /\ use' = Unused /\ admission' = None
    BY <1>3 DEF Crash
  <2>2. TypeOK'
    BY <1>1, <1>2, <2>1 DEF TypeOK, Idle, Unused, Call, Use, Step
  <2>3. CallInv' /\ FinishInv' /\ UseInv' /\ ConfigInv'
    BY <1>1, <2>1 DEF IInv, CallInv, FinishInv, UseInv, ConfigInv, Idle, Unused
  <2> QED BY <1>1, <2>2, <2>3, Staying DEF IInv
<1>4. CASE UseBegins \/ UseKey \/ UseEnds
  <2>1. UNCHANGED <<call, admission>>
    BY <1>4 DEF UseBegins, UseKey, UseEnds
  <2>2. ConfigInv'
    BY <1>1, <2>1 DEF IInv, ConfigInv
  <2>3. use' \in Use /\ UseInv'
    <3>1. ASSUME NEW g \in Generation
          PROVE  LET new == [at |-> "read", generation |-> g]
                 IN new \in Use /\ new.at = "read" /\ new.generation = g
      BY DEF Use
    <3>2. CASE UseBegins
      <4>1. item.generation \in Generation /\ use' = [at |-> "read", generation |-> item.generation]
        BY <1>2, <3>2 DEF UseBegins, TypeOK, Connection
      <4> QED BY <1>1, <3>1, <3>2, <4>1 DEF UseBegins, UseInv
    <3>3. CASE UseKey
      <4>1. use' \in Use /\ use'.at = "using" /\ use'.generation = use.generation
        BY <1>2, <3>3 DEF UseKey, TypeOK, Use
      <4> QED BY <1>1, <3>3, <4>1 DEF UseKey, IInv, UseInv, IsCurrent
    <3>4. CASE UseEnds
      BY <1>1, <3>4 DEF UseEnds, UseInv, Unused, Use
    <3> QED BY <1>4, <3>2, <3>3, <3>4
  <2>4. TypeOK'
    BY <1>1, <1>2, <2>1, <2>3 DEF TypeOK
  <2> QED BY <1>1, <2>1, <2>2, <2>3, <2>4, Staying, CallsStay DEF IInv
<1> QED BY <1>3, <1>4

\* The connection is created.
LEMMA CreateStep ==
  ASSUME IInv, Create
  PROVE  IInv'
<1> DEFINE new == [state |-> "active", generation |-> None, pending |-> None]
<1>1. /\ item = None /\ item' = new /\ call.at = "idle"
      /\ UNCHANGED <<ops, vault, late, config, past, revision, committed, call, use, admission>>
  BY DEF Create, conf, Idle
<1>2. new \in Connection /\ new.state = "active" /\ new.generation = None /\ new.pending = None
  BY DEF Connection
<1> HIDE DEF new
<1>3. TypeOK'
  BY <1>1, <1>2 DEF IInv, TypeOK
<1>4. \A c \in Op : ~IsPending(c)
  BY <1>1 DEF IInv, ItemInv
<1>5. Live' = Live /\ Live = {}
  BY <1>1 DEF Live, IInv, QuietInv
<1>6. ItemInv' /\ WriteInv' /\ QuietInv' /\ GenerationInv' /\ UseInv' /\ ConfigInv'
  BY <1>1, <1>2, <1>4, <1>5
  DEF IInv, ItemInv, IsPending, WriteInv, Writer, QuietInv, GenerationInv, UseInv, ConfigInv
<1>7. Spent' = Spent
  BY <1>1, <1>5 DEF Spent
<1> QED BY <1>1, <1>3, <1>6, <1>7, Counting, CallsStay DEF IInv

\* An operation begins on a connection, or goes on with what it began; it cancels
\* what was pending.
Begins(c) ==
  /\ item # None /\ (ops[c] = None \/ item.pending = c) /\ use = Unused
  /\ item' \in Connection /\ item'.pending = c
  /\ ops' \in [Op -> Operation \cup {None}]
  /\ \/ ops'[c].action = "credentials" /\ item'.state = "active"
     \/ ops'[c].action = "disconnect" /\ item'.state = "disconnected"
     \/ ops'[c].action = "remove" /\ item'.state = "removing"
  /\ \A o \in Op : IsPending(o)' <=> o = c
  /\ \A o \in Op : ops[o] # None => ops'[o] # None /\ ops'[o].action = ops[o].action
  /\ UNCHANGED <<vault, late, use>>

\* What an operation that begins leaves in place.
LEMMA Beginnings ==
  ASSUME IInv, NEW c \in Op, Begins(c), TypeOK'
  PROVE  ItemInv' /\ WriteInv' /\ QuietInv' /\ GenerationInv' /\ UseInv' /\ CountInv'
<1>1. item' # None /\ c # None
  BY ConnectionAssumption, NoneAssumption DEF Begins
<1>2. ItemInv'
  BY <1>1 DEF Begins, ItemInv, IsPending
<1>3. WriteInv'
  <2>1. vault.op \in Op \cup {None} /\ \A w \in late : w.op \in Op
    BY DEF IInv, TypeOK, Entry, Write
  <2> QED BY <2>1 DEF IInv, Begins, WriteInv, Writer
<1>4. Live' = Live
  BY DEF Begins, Live
<1>5. Live # {} => c # vault.op
  BY <1>1 DEF IInv, Begins, QuietInv, WriteInv, Writer
<1>6. QuietInv' /\ GenerationInv' /\ UseInv'
  BY <1>1, <1>4, <1>5 DEF Begins, QuietInv, GenerationInv, UseInv, Unused
<1>7. Spent \subseteq Spent'
  <2>1. ASSUME NEW o \in Spent PROVE o \in Spent'
    <3>1. /\ o \in Op /\ ops[o] # None /\ ops'[o] # None
          /\ ops[o].state = "pending" => vault.op = o
          /\ \A w \in Live' : w.op # o
      BY <1>4, <2>1 DEF Spent, Begins
    <3>2. ops'[o].state = "pending" => vault'.op = o
      <4>1. CASE o = c
        BY <1>1, <3>1, <4>1 DEF IInv, ItemInv, IsPending, Begins
      <4>2. CASE o # c
        BY <3>1, <4>2 DEF Begins, IsPending
      <4> QED BY <4>1, <4>2
    <3> QED BY <3>1, <3>2 DEF Spent
  <2> QED BY <2>1
<1> QED BY <1>2, <1>3, <1>6, <1>7, Counting DEF Begins

\* What a retirement does to the operations.
LEMMA Cancelling ==
  ASSUME IInv, NEW c \in Op, NEW action \in {"disconnect", "remove"},
         Admitted(c, action), MayRetire(c), ops' = PriorCancelled(c, action)
  PROVE  /\ ops' \in [Op -> Operation \cup {None}]
         /\ ops'[c].action = action
         /\ ops[c] = None \/ item.pending = c
         /\ \A o \in Op : IsPending(o)' <=> o = c
         /\ \A o \in Op : ops[o] # None => ops'[o] # None /\ ops'[o].action = ops[o].action
<1>1. /\ item # None /\ (ops[c] # None => ops[c].action = action /\ IsPending(c))
      /\ item.pending \notin {None, c} => ops[item.pending].action = "credentials"
  BY DEF Admitted, MayRetire, IsPending
<1>2. ops[c] = None \/ item.pending = c
  BY <1>1 DEF IInv, ItemInv
<1>3. \A o \in Op : ops[o] # None => ops[o] \in Operation
  BY DEF IInv, TypeOK
<1>4. ops'[c] \in Operation /\ ops'[c] # None /\ ops'[c].action = action
      /\ ops'[c].state = "pending"
  <2>1. ops'[c] = Pending(c, action)
    BY DEF PriorCancelled
  <2> QED BY <2>1, Beginning, NoneAssumption DEF Action
<1>5. ASSUME NEW o \in Op, o # c, o = item.pending
      PROVE  /\ ops[o] # None /\ ops'[o] \in Operation /\ ops'[o] # None
             /\ ops'[o].action = ops[o].action /\ ops'[o].state = "cancelled"
  <2>1. ops'[o] = [ops[o] EXCEPT !.state = "cancelled"]
    BY <1>5 DEF PriorCancelled
  <2>2. ops[o] # None /\ ops[o] \in Operation
    BY <1>1, <1>3, <1>5, ConnectionAssumption DEF IInv, ItemInv, IsPending
  <2> QED BY <2>1, <2>2, Ending, NoneAssumption
<1>6. ASSUME NEW o \in Op, o # c, o # item.pending
      PROVE  ops'[o] = ops[o] /\ ~IsPending(o)
  <2>1. ops'[o] = ops[o]
    BY <1>6 DEF PriorCancelled
  <2> QED BY <1>6, <2>1 DEF IInv, ItemInv
<1>7. ops' \in [Op -> Operation \cup {None}]
  <2>1. \A o \in Op : ops'[o] \in Operation \cup {None}
    BY <1>3, <1>4, <1>5, <1>6
  <2>2. ops' = [o \in Op |-> ops'[o]]
    BY DEF PriorCancelled
  <2> QED BY <2>1, <2>2
<1>8. \A o \in Op : IsPending(o)' <=> o = c
  BY <1>4, <1>5, <1>6 DEF IsPending
<1>9. \A o \in Op : ops[o] # None => ops'[o] # None /\ ops'[o].action = ops[o].action
  <2>1. ops[c] # None => ops[c].action = action
    BY <1>1
  <2> QED BY <1>4, <1>5, <1>6, <2>1
<1> QED BY <1>2, <1>4, <1>7, <1>8, <1>9

\* A disconnection or a removal begins.
LEMMA RetireStep ==
  ASSUME IInv, NEW c \in Op, Disconnect(c) \/ Remove(c)
  PROVE  IInv'
<1>1. /\ UNCHANGED <<vault, late, config, past, revision, committed, use, admission>>
      /\ use = Unused /\ admission = None /\ item # None /\ item \in Connection
  BY DEF Disconnect, Remove, Admitted, ConnectionFree, conf, IInv, TypeOK
<1>2. ASSUME NEW action \in {"disconnect", "remove"},
             NEW became \in {"disconnected", "removing"},
             action = "disconnect" <=> became = "disconnected",
             Admitted(c, action), MayRetire(c), ops' = PriorCancelled(c, action),
             item' = [item EXCEPT !.state = became, !.pending = c]
      PROVE  Begins(c) /\ ops'[c].action = action /\ item' # None /\ item'.state = became
  <2>1. item' \in Connection /\ item'.state = became /\ item'.pending = c
    <3>1. item' = [item EXCEPT !.state = became, !.pending = c]
      BY <1>2
    <3>2. became \in {"active", "disconnected", "removing", "removed"} /\ item \in Connection
          /\ c \in Op \cup {None}
      BY <1>1
    <3> QED BY <3>1, <3>2 DEF Connection
  <2>2. ops'[c].action = action
    BY <1>2, Cancelling
  <2>3. Begins(c)
    BY <1>1, <1>2, <2>1, Cancelling DEF Begins
  <2> QED BY <2>1, <2>2, <2>3, NoneAssumption
<1>3. ASSUME Begins(c), item' # None,
             \/ /\ CallAt("fence", c, None, None) /\ ops'[c].action \in {"disconnect", "remove"}
                /\ item'.state = "removing" => ~config.registered
             \/ /\ ops'[c].action = "remove" /\ item'.state = "removing"
                /\ \E v \in Nat : CallAt("backend", c, None, v)
      PROVE  IInv'
  <2>1. TypeOK'
    BY <1>1, <1>3 DEF IInv, TypeOK, Begins, CallAt
  <2>2. CallInv' /\ FinishInv'
    BY <1>3 DEF CallInv, FinishInv, CallAt, Begins, IsPending
  <2>3. ConfigInv'
    BY <1>1, <1>3, Registering DEF IInv, ConfigInv, CallAt, Begins
  <2> QED BY <1>3, <2>1, <2>2, <2>3, Beginnings DEF IInv
<1>4. revision \in Nat /\ TypeOK
  BY ConnectionAssumption DEF IInv, TypeOK
<1>5. CASE Disconnect(c)
  <2>1. CallAt("fence", c, None, None)
    BY <1>4, <1>5, Calling DEF Disconnect, Step
  <2> QED BY <1>2, <1>3, <1>5, <2>1 DEF Disconnect
<1>6. CASE Remove(c)
  <2>1. /\ Begins(c) /\ ops'[c].action = "remove" /\ item' # None /\ item'.state = "removing"
    BY <1>2, <1>6 DEF Remove
  <2>2. CASE config.registered
    <3>1. CallAt("backend", c, None, revision)
      BY <1>4, <1>6, <2>2, Calling DEF Remove, Step
    <3> QED BY <1>3, <1>4, <2>1, <3>1
  <2>3. CASE ~config.registered
    <3>1. CallAt("fence", c, None, None)
      BY <1>4, <1>6, <2>3, Calling DEF Remove, Step
    <3> QED BY <1>3, <2>1, <2>3, <3>1
  <2> QED BY <2>2, <2>3
<1> QED BY <1>5, <1>6

\* A key is to be written, for the first time or once more.
LEMMA CredentialsStep ==
  ASSUME IInv, NEW c \in Op, NEW k \in Key, Credentials(c, k)
  PROVE  IInv'
<1>1. /\ UNCHANGED <<vault, late, config, past, revision, committed, use, admission>>
      /\ use = Unused /\ item # None /\ item \in Connection /\ item.state = "active"
      /\ item.pending \in {None, c} /\ TypeOK
      /\ ops[c] # None => ops[c].action = "credentials" /\ IsPending(c)
  BY DEF Credentials, Admitted, ConnectionFree, conf, IInv, TypeOK, IsPending
<1>2. CallAt("read", c, k, None)
  <2>1. call' = [Idle EXCEPT !.at = "read", !.op = c, !.key = k]
    BY DEF Credentials
  <2>2. k \in Key \cup {None} /\ 0 \in Nat /\ "read" \in Step
    BY DEF Step
  <2> QED BY <1>1, <2>1, <2>2, Calling
<1>3. item' \in Connection /\ item'.state = "active" /\ item'.pending = c
  BY <1>1 DEF Credentials, Connection
<1>4. /\ ops'[c] \in Operation /\ ops'[c] # None /\ ops'[c].action = "credentials"
      /\ ops'[c].state = "pending"
  <2>1. ops'[c] = IF ops[c] = None THEN Pending(c, "credentials") ELSE ops[c]
    BY <1>1 DEF Credentials, TypeOK
  <2> QED BY <1>1, <2>1, Beginning, NoneAssumption DEF Action, IsPending, TypeOK
<1>5. ops' \in [Op -> Operation \cup {None}] /\ \A o \in Op \ {c} : ops'[o] = ops[o]
  BY <1>1, <1>4 DEF Credentials, TypeOK
<1>6. Begins(c)
  <2>1. ops[c] = None \/ item.pending = c
    BY <1>1 DEF IInv, ItemInv
  <2>2. \A o \in Op \ {c} : ~IsPending(o)
    BY <1>1, ConnectionAssumption DEF IInv, ItemInv
  <2>3. \A o \in Op : IsPending(o)' <=> o = c
    BY <1>4, <1>5, <2>2 DEF IsPending
  <2>4. \A o \in Op : ops[o] # None => ops'[o] # None /\ ops'[o].action = ops[o].action
    BY <1>1, <1>4, <1>5
  <2> QED BY <1>1, <1>3, <1>4, <1>5, <2>1, <2>3, <2>4 DEF Begins
<1>7. TypeOK'
  BY <1>1, <1>2, <1>3, <1>5 DEF TypeOK, CallAt
<1>8. CallInv' /\ FinishInv'
  BY <1>2, <1>4, ConnectionAssumption DEF CallInv, FinishInv, CallAt, IsPending
<1>9. ConfigInv'
  BY <1>1, <1>2, <1>3, <1>4, NoneAssumption DEF IInv, ConfigInv, CallAt
<1> QED BY <1>6, <1>7, <1>8, <1>9, Beginnings DEF IInv

\* A connection is taken into use again.
LEMMA ReconnectStep ==
  ASSUME IInv, NEW c \in Op, Reconnect(c)
  PROVE  IInv'
<1>1. /\ UNCHANGED <<vault, late, config, past, revision, committed, call, use, admission>>
      /\ use = Unused /\ admission = None /\ call.at = "idle" /\ TypeOK
      /\ item # None /\ item \in Connection /\ item.pending = None /\ item.state # "removed"
      /\ ops[c] = None
  BY DEF Reconnect, Admitted, ConnectionFree, Idle, conf, IInv, TypeOK
<1>2. item' \in Connection /\ item'.state = "active" /\ item'.pending = None
      /\ item'.generation = item.generation
  BY <1>1 DEF Reconnect, Connection
<1>3. /\ ops'[c] \in Operation /\ ops'[c] # None /\ ops'[c].state = "finished"
  <2>1. ops'[c] = [Pending(c, "reconnect") EXCEPT !.state = "finished"]
    BY <1>1 DEF Reconnect, TypeOK
  <2>2. Pending(c, "reconnect") \in Operation
    BY Beginning DEF Action
  <2> QED BY <2>1, <2>2, NoneAssumption DEF Operation
<1>4. ops' \in [Op -> Operation \cup {None}] /\ \A o \in Op \ {c} : ops'[o] = ops[o]
  BY <1>1, <1>3 DEF Reconnect, TypeOK
<1>5. TypeOK'
  BY <1>1, <1>2, <1>4 DEF TypeOK
<1>6. ItemInv'
  <2>1. \A o \in Op : ~IsPending(o)
    BY <1>1, ConnectionAssumption DEF IInv, ItemInv
  <2>2. \A o \in Op : ~IsPending(o)'
    BY <1>3, <1>4, <2>1 DEF IsPending
  <2> QED BY <1>2, <2>2 DEF ItemInv
<1>7. WriteInv'
  <2>1. vault.op \in Op \cup {None} /\ \A w \in late : w.op \in Op
    BY <1>1 DEF TypeOK, Entry, Write
  <2> QED BY <1>1, <1>4, <2>1 DEF IInv, WriteInv, Writer
<1>8. Live = {} /\ Live' = {}
  BY <1>1 DEF IInv, QuietInv, Live
<1>9. QuietInv' /\ GenerationInv' /\ UseInv'
  BY <1>1, <1>2, <1>8 DEF IInv, QuietInv, GenerationInv, UseInv, Unused, IsCurrent
<1>10. CallInv' /\ FinishInv' /\ ConfigInv'
  BY <1>1, <1>2 DEF IInv, CallInv, FinishInv, ConfigInv
<1>11. Spent \subseteq Spent'
  BY <1>1, <1>4, <1>8 DEF Spent
<1> QED BY <1>1, <1>5, <1>6, <1>7, <1>9, <1>10, <1>11, Counting DEF IInv

\* The version that a write will name is kept.
LEMMA ReadKeyStep ==
  ASSUME IInv, ReadKey, ~IsOurs
  PROVE  IInv'
<1> DEFINE c == call.op
<1>1. /\ UNCHANGED <<item, vault, late, config, past, revision, committed, use, admission>>
      /\ call.at = "read" /\ vault.op # c /\ TypeOK
      /\ ops' = [ops EXCEPT ![c].previous = vault.version]
      /\ call' = [call EXCEPT !.at = "write", !.version = vault.version]
  BY DEF ReadKey, conf, IInv
<1>2. /\ c \in Op /\ IsPending(c) /\ ops[c].action = "credentials" /\ call.key # None
      /\ ops[c] \in Operation /\ vault.version \in Nat
  BY <1>1 DEF IInv, CallInv, TypeOK, IsPending, Entry
<1>3. CallAt("write", c, call.key, vault.version)
  <2>1. "write" \in Step /\ call.key \in Key \cup {None}
    BY <1>1 DEF Step, TypeOK, Call
  <2> QED BY <1>1, <1>2, <2>1, Calling
<1>4. /\ ops'[c] \in Operation /\ ops'[c] # None
      /\ ops'[c].state = ops[c].state /\ ops'[c].action = ops[c].action
  BY <1>1, <1>2, Noting, NoneAssumption DEF TypeOK
<1>5. ops' \in [Op -> Operation \cup {None}] /\ \A o \in Op \ {c} : ops'[o] = ops[o]
  BY <1>1, <1>4 DEF TypeOK
<1> HIDE DEF c
<1>6. \A o \in Op : /\ ops'[o] # None <=> ops[o] # None
                    /\ ops[o] # None => ops'[o].action = ops[o].action
                                        /\ ops'[o].state = ops[o].state
  BY <1>2, <1>4, <1>5 DEF IsPending
<1>7. TypeOK'
  BY <1>1, <1>3, <1>5 DEF TypeOK, CallAt
<1>8. \A o \in Op : IsPending(o)' <=> IsPending(o)
  BY <1>6 DEF IsPending
<1>9. ItemInv'
  <2>1. item # None => item.pending \in Op \cup {None}
    BY <1>1 DEF TypeOK, Connection
  <2> QED BY <1>1, <1>6, <1>8, <2>1 DEF IInv, ItemInv, IsPending
<1>10. WriteInv'
  <2>1. vault.op \in Op \cup {None} /\ \A w \in late : w.op \in Op
    BY <1>1 DEF TypeOK, Entry, Write
  <2> QED BY <1>1, <1>6, <2>1 DEF IInv, WriteInv, Writer
<1>11. Live' = Live
  BY <1>1 DEF Live
<1>12. QuietInv' /\ GenerationInv' /\ UseInv'
  BY <1>1, <1>11 DEF IInv, QuietInv, GenerationInv, UseInv, IsCurrent
<1>13. CallInv' /\ FinishInv'
  <2>1. /\ call'.at = "write" /\ call'.op = c /\ call'.key # None
        /\ call'.version = vault.version /\ vault.version <= vault.version
        /\ vault.version # None /\ vault' = vault
    BY <1>1, <1>2, <1>3, ConnectionAssumption DEF CallAt
  <2>2. ops'[c] # None /\ ops'[c].state = "pending" /\ ops'[c].action = "credentials"
    BY <1>2, <1>4 DEF IsPending
  <2>3. vault.op # c
    BY <1>1 DEF c
  <2> QED BY <1>2, <2>1, <2>2, <2>3 DEF CallInv, FinishInv, IsPending
<1>14. ConfigInv'
  BY <1>1, <1>2, <1>3, <1>4 DEF IInv, ConfigInv, CallAt
<1>15. Spent \subseteq Spent'
  BY <1>1, <1>6, <1>11 DEF Spent
<1> QED BY <1>1, <1>7, <1>9, <1>10, <1>12, <1>13, <1>14, <1>15, Counting DEF IInv

\* A write that Vault applies leaves no other that could be applied.
LEMMA Applying ==
  ASSUME IInv, NEW w \in Write, w.cas = vault.version, vault' = After(w),
         late' \subseteq late, UNCHANGED <<item, ops, use>>,
         Writer(w.op, w.key), w.op \notin Spent,
         item # None, item.pending # None, item.pending # vault.op, TypeOK'
  PROVE  ItemInv' /\ WriteInv' /\ QuietInv' /\ GenerationInv' /\ UseInv' /\ CountInv'
<1>1. /\ vault'.version = vault.version + 1 /\ vault'.op = w.op /\ vault'.key = w.key
      /\ vault.version \in Nat /\ w.op \in Op
      /\ \A x \in late : x.cas \in Nat /\ x.op \in Op
  BY Applied DEF IInv, TypeOK, Entry, Write
<1>2. ItemInv'
  BY DEF IInv, ItemInv, IsPending
<1>3. WriteInv'
  BY <1>1 DEF IInv, WriteInv, Writer
<1>4. Live' = {}
  BY <1>1 DEF IInv, WriteInv, Live
<1>5. QuietInv' /\ GenerationInv'
  BY <1>4 DEF QuietInv, GenerationInv
<1>6. UseInv'
  BY DEF IInv, UseInv, Unused
<1>7. ops[w.op] # None
  BY DEF Writer
<1>8. w.op \in Spent'
  BY <1>1, <1>4, <1>7 DEF Spent
<1>9. ASSUME NEW o \in Spent PROVE o \in Spent'
  <2>1. o \in Op /\ ops[o] # None /\ (ops[o].state = "pending" => vault.op = o)
    BY <1>9 DEF Spent
  <2>2. ops[o].state # "pending"
    BY <2>1 DEF IInv, ItemInv, IsPending
  <2> QED BY <1>4, <2>1, <2>2 DEF Spent
<1> QED BY <1>1, <1>2, <1>3, <1>5, <1>6, <1>8, <1>9, Counting

\* A write that was given up arrives.
LEMMA ArriveStep ==
  ASSUME IInv, NEW w \in late, Arrives(w)
  PROVE  IInv'
<1>1. /\ UNCHANGED <<item, ops, config, past, revision, committed, call, use, admission>>
      /\ late' \subseteq late /\ w \in Write
  BY DEF Arrives, conf, IInv, TypeOK
<1>2. ConfigInv'
  BY <1>1 DEF IInv, ConfigInv
<1>3. CASE w.cas = vault.version
  <2>1. /\ vault' = After(w) /\ w \in Live /\ Writer(w.op, w.key)
        /\ item # None /\ item.pending # None /\ item.pending # vault.op
    BY <1>3 DEF Arrives, Live, IInv, QuietInv, WriteInv
  <2>2. w.op \notin Spent
    BY <2>1 DEF Spent
  <2>3. TypeOK'
    BY <1>1, <2>1, Applied DEF IInv, TypeOK
  <2>4. vault'.version = vault.version + 1 /\ vault.version \in Nat
    BY <1>1, <1>3, <2>1, Applied DEF IInv, TypeOK, Entry
  <2>5. CallInv'
    <3>1. call.version \in Nat \cup {None}
      BY DEF IInv, TypeOK, Call
    <3>2. call.at \in {"write", "tombstone"} =>
            call.version # None /\ call.version <= vault'.version /\ call.version # vault'.version
      <4>1. call.at \in {"write", "tombstone"} =>
              call.version # None /\ call.version <= vault.version
        BY DEF IInv, CallInv
      <4>2. \A m, n \in Nat : m <= n => m <= n + 1 /\ m # n + 1
        OBVIOUS
      <4> QED BY <2>4, <3>1, <4>1, <4>2
    <3> QED BY <1>1, <3>2 DEF IInv, CallInv, IsPending
  <2>6. call.at # "finish"
    <3>1. call.at # "idle" => item.pending = call.op
      BY DEF IInv, CallInv, ItemInv
    <3> QED BY <2>1, <3>1 DEF IInv, FinishInv
  <2>7. FinishInv'
    BY <1>1, <2>6 DEF FinishInv
  <2> QED BY <1>1, <1>2, <1>3, <2>1, <2>2, <2>3, <2>5, <2>7, Applying DEF IInv
<1>4. CASE w.cas # vault.version
  <2>1. vault' = vault
    BY <1>4 DEF Arrives
  <2>2. TypeOK' /\ ItemInv' /\ WriteInv' /\ UseInv'
    BY <1>1, <2>1 DEF IInv, TypeOK, ItemInv, IsPending, WriteInv, Writer, UseInv, IsCurrent
  <2>3. Live' \subseteq Live
    BY <1>1, <2>1 DEF Live
  <2>4. QuietInv' /\ GenerationInv'
    BY <1>1, <2>1, <2>3 DEF IInv, QuietInv, GenerationInv, IsCurrent
  <2>5. Spent \subseteq Spent'
    BY <1>1, <2>1, <2>3 DEF Spent
  <2> QED BY <1>1, <1>2, <2>1, <2>2, <2>4, <2>5, CallsStay, Counting DEF IInv
<1> QED BY <1>3, <1>4

\* A call writes, or gives its write up.
LEMMA WriteSteps ==
  ASSUME IInv, WriteKey \/ Tombstone
  PROVE  IInv'
<1> DEFINE c == call.op
           next == IF WriteKey THEN "read again" ELSE "finish"
<1>1. /\ UNCHANGED <<item, ops, config, past, revision, committed, use, admission>>
      /\ TypeOK /\ call.at \in {"write", "tombstone"}
      /\ WriteKey => call.at = "write"
  BY DEF WriteKey, Tombstone, conf, IInv
<1>2. /\ c \in Op /\ IsPending(c) /\ call.version \in Nat /\ vault.version \in Nat
      /\ call.version <= vault.version
      /\ call.version = vault.version => vault.op # c
      /\ item # None /\ item.pending = c /\ c # None
  BY <1>1, ConnectionAssumption DEF IInv, CallInv, TypeOK, Call, Entry, ItemInv
<1>3. PICK key \in Key \cup {None} :
        /\ Writer(c, key)
        /\ Writes([cas |-> call.version, op |-> c, key |-> key], next)
        /\ WriteKey => key = call.key /\ key # None
        /\ ~WriteKey => key = None
  <2>1. CASE WriteKey
    BY <1>1, <1>2, <2>1 DEF WriteKey, IInv, CallInv, Writer, IsPending, TypeOK, Call
  <2>2. CASE ~WriteKey
    <3>1. Tombstone /\ ops[c].action # "credentials"
      BY <1>1, <2>2 DEF Tombstone, IInv, CallInv
    <3> QED BY <1>2, <2>2, <3>1 DEF Tombstone, Writer, IsPending
  <2> QED BY <2>1, <2>2
<1> DEFINE w == [cas |-> call.version, op |-> c, key |-> key]
<1>4. w \in Write /\ w.cas = call.version /\ w.op = c /\ w.key = key
  BY <1>2 DEF Write
<1>5. next \in Step /\ call.key \in Key \cup {None}
  BY <1>1 DEF Step, TypeOK, Call
<1> HIDE DEF w, c
<1>6. c \in Spent => vault.op = c
  BY <1>2 DEF Spent, IsPending
<1>7. CASE w.cas = vault.version /\ vault' = After(w) /\ (Goes(next) \/ call' = Idle)
           /\ UNCHANGED late
  <2>1. CallAt(next, c, call.key, call.version) \/ CallAt("idle", None, None, None)
    BY <1>1, <1>2, <1>5, <1>7, Calling, Resting DEF c
  <2>2. TypeOK'
    BY <1>1, <1>4, <1>7, <2>1, Applied DEF TypeOK, CallAt
  <2>3. Writer(w.op, w.key) /\ w.op \notin Spent
    BY <1>2, <1>3, <1>4, <1>6, <1>7
  <2>4. ItemInv' /\ WriteInv' /\ QuietInv' /\ GenerationInv' /\ UseInv' /\ CountInv'
    BY <1>1, <1>2, <1>4, <1>7, <2>2, <2>3, Applying
  <2>5. vault'.op = c /\ vault'.key = key
    BY <1>4, <1>7, Applied
  <2>6. CallInv' /\ FinishInv'
    BY <1>1, <1>2, <1>3, <2>1, <2>5 DEF CallInv, FinishInv, CallAt, IsPending, Writer
  <2>7. ConfigInv'
    BY <1>1, <2>1 DEF IInv, ConfigInv, CallAt, c
  <2> QED BY <2>2, <2>4, <2>6, <2>7 DEF IInv
<1>8. CASE late' \in {late, late \cup {w}} /\ call' = Idle /\ UNCHANGED vault
  <2>1. CallAt("idle", None, None, None)
    BY <1>8, Resting
  <2>2. TypeOK'
    BY <1>1, <1>4, <1>8, <2>1 DEF TypeOK, CallAt
  <2>3. ItemInv' /\ UseInv' /\ GenerationInv'
    BY <1>1, <1>2, <1>8 DEF IInv, ItemInv, IsPending, UseInv, IsCurrent, GenerationInv
  <2>4. WriteInv'
    BY <1>1, <1>2, <1>3, <1>4, <1>8 DEF IInv, WriteInv, Writer
  <2>5. Live' \subseteq Live \cup {w} /\ (w \in Live' => vault.op # c)
    BY <1>2, <1>4, <1>8 DEF Live
  <2>6. QuietInv'
    BY <1>1, <1>2, <1>8, <2>5 DEF IInv, QuietInv
  <2>7. CallInv' /\ FinishInv' /\ ConfigInv'
    BY <1>1, <2>1 DEF IInv, CallInv, FinishInv, ConfigInv, CallAt
  <2>8. Spent \subseteq Spent'
    BY <1>1, <1>4, <1>6, <1>8, <2>5 DEF Spent
  <2> QED BY <1>8, <2>2, <2>3, <2>4, <2>6, <2>7, <2>8, Counting DEF IInv
<1> QED BY <1>3, <1>7, <1>8 DEF Writes, w

\* The operation is finished: the entry has its key, or its tombstone.
LEMMA FinishStep ==
  ASSUME IInv, Finish
  PROVE  IInv'
<1> DEFINE c == call.op
<1>1. /\ UNCHANGED <<vault, late, config, past, revision, committed, use, admission>>
      /\ call.at = "finish" /\ TypeOK /\ call' = Idle
  BY DEF Finish, conf, IInv
<1>2. /\ c \in Op /\ IsPending(c) /\ ops[c] \in Operation /\ vault.op = c /\ c # None
      /\ item # None /\ item \in Connection /\ item.pending = c /\ vault.version \in Nat
  BY <1>1, ConnectionAssumption
  DEF IInv, CallInv, FinishInv, ItemInv, TypeOK, IsPending, Entry
<1>3. \/ /\ ops[c].action = "credentials" /\ item.state = "active"
         /\ call.version = vault.version /\ vault.key # None
      \/ ops[c].action = "disconnect" /\ item.state = "disconnected" /\ vault.key = None
      \/ /\ ops[c].action = "remove" /\ item.state = "removing" /\ vault.key = None
         /\ config = Absent /\ admission = None
  BY <1>1, <1>2 DEF IInv, ItemInv, FinishInv, ConfigInv
<1> DEFINE became == IF ops[c].action = "remove" THEN "removed" ELSE item.state
           generation == IF ops[c].action = "credentials"
                         THEN [version |-> call.version, op |-> c] ELSE None
<1>4. /\ item' = [item EXCEPT !.pending = None, !.state = became, !.generation = generation]
      /\ ops' = [ops EXCEPT ![c].state = "finished"]
  BY DEF Finish
<1>5. CallAt("idle", None, None, None)
  BY <1>1, Resting
<1>6. generation \in Generation \cup {None} /\ (ops[c].action # "credentials" => generation = None)
  BY <1>2, <1>3 DEF Generation
<1>7. /\ ops[c].action = "credentials" =>
           generation = [version |-> vault.version, op |-> vault.op] /\ became = "active"
      /\ ops[c].action = "disconnect" => became = "disconnected"
      /\ ops[c].action = "remove" => became = "removed"
  BY <1>2, <1>3
<1> HIDE DEF became, generation, c
<1>8. /\ item' \in Connection /\ item'.pending = None /\ item'.state = became
      /\ item'.generation = generation
  BY <1>2, <1>3, <1>4, <1>6, <1>7 DEF Connection
<1>9. ops'[c] \in Operation /\ ops'[c].state = "finished" /\ ops'[c].action = ops[c].action
      /\ ops'[c] # None
  BY <1>1, <1>2, <1>4, Ending, NoneAssumption DEF TypeOK
<1>10. ops' \in [Op -> Operation \cup {None}] /\ \A o \in Op \ {c} : ops'[o] = ops[o]
  BY <1>1, <1>4, <1>9 DEF TypeOK
<1>11. TypeOK'
  BY <1>1, <1>5, <1>8, <1>10 DEF TypeOK, CallAt
<1>12. ItemInv'
  <2>1. \A o \in Op : ~IsPending(o)'
    BY <1>2, <1>9, <1>10 DEF IInv, ItemInv, IsPending
  <2> QED BY <1>3, <1>7, <1>8, <2>1 DEF ItemInv
<1>13. WriteInv'
  <2>1. vault.op \in Op \cup {None} /\ \A x \in late : x.op \in Op
    BY <1>1 DEF TypeOK, Entry, Write
  <2> QED BY <1>1, <1>2, <1>9, <1>10, <2>1 DEF IInv, WriteInv, Writer
<1>14. Live = {} /\ Live' = {}
  BY <1>1, <1>2 DEF IInv, QuietInv, Live
<1>15. GenerationInv'
  BY <1>1, <1>3, <1>6, <1>7, <1>8 DEF GenerationInv, IsCurrent
<1>16. QuietInv' /\ UseInv'
  BY <1>1, <1>2, <1>14 DEF IInv, QuietInv, UseInv, Unused
<1>17. CallInv' /\ FinishInv'
  BY <1>5 DEF CallInv, FinishInv, CallAt
<1>18. ConfigInv'
  BY <1>1, <1>3, <1>5, <1>7, <1>8 DEF IInv, ConfigInv, CallAt
<1>19. Spent \subseteq Spent'
  BY <1>9, <1>10, <1>14, <1>1 DEF Spent
<1> QED BY <1>1, <1>11, <1>12, <1>13, <1>15, <1>16, <1>17, <1>18, <1>19, Counting DEF IInv

\* Every step keeps the invariant.
LEMMA Inductive == ASSUME IInv, [Next]_vars PROVE IInv'
<1>1. CASE Next
  BY <1>1, ReadSteps, ConfigSteps, UseSteps, CreateStep, RetireStep, CredentialsStep,
     ReconnectStep, ReadKeyStep, ArriveStep, WriteSteps, FinishStep DEF Next
<1>2. CASE UNCHANGED vars
  <2>1. UNCHANGED <<item, ops, vault, late, config, past, revision, committed, call, use,
                    admission>>
    BY <1>2 DEF vars, conf
  <2>2. TypeOK' /\ UseInv' /\ ConfigInv'
    BY <2>1 DEF IInv, TypeOK, UseInv, IsCurrent, ConfigInv
  <2> QED BY <2>1, <2>2, Staying, CallsStay DEF IInv
<1> QED BY <1>1, <1>2

-----------------------------------------------------------------------------
(* Connections: the theorems.                                              *)

\* The invariant holds always.
THEOREM ConnectionInvariant == Spec => []IInv
<1> QED BY Initial, Inductive, PTL DEF Spec

\* The key that is offered or used is the one in Vault.
LEMMA CurrentKey == ASSUME IInv PROVE KeyIsCurrent
<1>1. WrittenOnce
  <2>1. Cardinality(Spent) <= Cardinality(Op) /\ Cardinality(Spent) \in Nat
        /\ Cardinality(Op) \in Nat
    BY FiniteOps DEF Spent
  <2> QED BY <2>1 DEF IInv, TypeOK, Entry, CountInv, WrittenOnce
<1>2. OfferedKeyIsCurrent /\ UsedKeyStays
  BY DEF IInv, OfferedKeyIsCurrent, UsedKeyStays, GenerationInv, QuietInv, Live, UseInv
<1> QED BY <1>1, <1>2 DEF IInv, KeyIsCurrent

\* A retired connection has no key in Vault and no write that could bring one
\* back, and a removed one is in no configuration.
LEMMA Retirement ==
  ASSUME IInv
  PROVE  FencedStaysFenced /\ NoOrphanReference
<1>1. item # None /\ item.state = "removed" => item.pending = None
  BY DEF IInv, ItemInv
<1> QED BY <1>1
    DEF IInv, FencedStaysFenced, NoOrphanReference, GenerationInv, QuietInv, Live, ConfigInv

\* The key the gateway offers or has used is the one in Vault, and no operation
\* writes twice, however many writes are lost or given up.
THEOREM KeysAreCurrent == Spec => []KeyIsCurrent
<1> QED BY ConnectionInvariant, CurrentKey, PTL

\* An operation changes only while it is pending, a removed connection never.
LEMMA EndingStep ==
  ASSUME IInv, Next
  PROVE  /\ \A c \in Op : ops[c] # None /\ ops[c].state # "pending" => ops'[c] = ops[c]
         /\ item # None /\ item.state = "removed" => item' = item
<1>1. ASSUME NEW c \in Op, ops[c] # None, ops[c].state # "pending" PROVE ops'[c] = ops[c]
  <2>1. /\ item # None => item.pending # c
        /\ call.at # "idle" => call.op # c
    BY <1>1, ConnectionAssumption DEF IInv, ItemInv, CallInv, IsPending
  <2>2. ops \in [Op -> Operation \cup {None}]
    BY DEF IInv, TypeOK
  <2>3. ASSUME NEW o \in Op, Disconnect(o) \/ Remove(o) PROVE ops'[c] = ops[c]
    BY <1>1, <2>1, <2>3 DEF Disconnect, Remove, Admitted, PriorCancelled
  <2>4. ASSUME NEW o \in Op, \/ Reconnect(o) \/ \E k \in Key : Credentials(o, k)
        PROVE  ops'[c] = ops[c]
    <3>1. o # c
      BY <1>1, <2>4 DEF Reconnect, Credentials, Admitted
    <3> QED BY <2>2, <2>4, <3>1 DEF Reconnect, Credentials
  <2>5. CASE ReadKey \/ Finish
    BY <2>1, <2>2, <2>5 DEF ReadKey, Finish
  <2>6. CASE UNCHANGED ops
    BY <2>6
  <2> QED BY <2>3, <2>4, <2>5, <2>6
      DEF Next, Create, Reconcile, BackendRemoved, BackendConflict, Admit, AdmissionEnds,
          ConfigurationMoves, Arrives, CallFails, WriteKey, ReadAgain, Recover, Fence,
          Tombstone, UseBegins, UseKey, UseEnds, Crash
<1>2. ASSUME item # None, item.state = "removed" PROVE item' = item
  <2>1. call.at = "idle"
    BY <1>2, ConnectionAssumption DEF IInv, CallInv, ItemInv
  <2> QED BY <1>2, <2>1
      DEF Next, Create, Disconnect, Remove, Reconnect, Credentials, MayRetire, Reconcile,
          BackendRemoved, BackendConflict, Admit, AdmissionEnds, ConfigurationMoves, Arrives,
          CallFails, ReadKey, WriteKey, ReadAgain, Recover, Fence, Tombstone, Finish,
          UseBegins, UseKey, UseEnds, Crash
<1> QED BY <1>1, <1>2

-----------------------------------------------------------------------------
(* The invariant of the account.                                           *)

\* An account in Vault, or on its way there, is that of a sign-in that was there
\* before, or of one that never was.
CustodyInv ==
  /\ account.login = "none" \/ account.login \in persisted
  /\ account.version = 0 => account.login = "none"
  /\ \A w \in drifting :
       /\ w.cas <= account.version
       /\ w.by = "refresh" =>
            /\ w.login \in persisted
            /\ w.cas = account.version => w.login = account.login
       /\ w.by # "refresh" => w.login = w.by /\ w.by \notin persisted
  /\ \A v, w \in drifting : v.by = w.by /\ v.by # "refresh" => v = w

\* What was projected is what Vault has, as long as Vault has not moved on.
ProjectionInv ==
  /\ projection.entry.version <= account.version
  /\ projection.entry.version = account.version =>
       projection.entry.login = account.login
  /\ projection.entry.login = "none" \/ projection.entry.login \in persisted

\* A sign-in has not written to Vault, and nothing of it is on the way.
Unwritten(l) == l \notin persisted /\ \A w \in drifting : w.by # l

Unpersisted == {"starting", "slot", "projected", "waiting"}

SignInInv ==
  /\ signIn.at = "idle" => signIn = Inactive
  /\ signIn.at # "idle" => signIn.login \in Login
  /\ signIn.at \in Unpersisted => Open(signIn.login) /\ Unwritten(signIn.login)
  /\ signIn.at = "persisted" => Open(signIn.login) /\ signIn.login \in persisted
  /\ signIn.at = "failing" => Open(signIn.login)
  /\ \A l \in Login :
       login[l] = "none" => Unwritten(l) /\ (signIn.login = l => signIn.at = "stuck")

\* Where an invocation is, and whether its turn was submitted.
InvocationInv ==
  \A i \in Request :
    /\ journal[i] = "none" => turns[i] = 0 /\ handler[i].at = "idle"
    /\ handler[i].at # "idle" => journal[i] = "pending"
    /\ handler[i].at \in {"next", "projected", "ready"} => turns[i] = 0
    /\ handler[i].at \in {"projected", "ready"} => handler[i].todo # << >>
    /\ handler[i].at \in {"submitted", "completed", "other"} => turns[i] = 1
    /\ handler[i].at = "answer" =>
         /\ handler[i].outcome \in Outcome
         /\ handler[i].outcome = "suggestion" => turns[i] = 1
         /\ handler[i].outcome = "no fallback" => turns[i] = 0

AInv ==
  AccountTypeOK /\ CustodyInv /\ ProjectionInv /\ SignInInv /\ InvocationInv
  /\ SignInIsTrue /\ InvokedOnce

AccountSpec == AccountInit /\ [][AccountNext]_accountVars

-----------------------------------------------------------------------------
(* The account: custody.                                                   *)

\* A step of custody: the account moves on to one that never was in Vault, or
\* keeps its sign-in.
CustodyMoves ==
  /\ account' \in Account /\ drifting' \subseteq Drift /\ persisted' \subseteq Login
  /\ CustodyInv' /\ persisted \subseteq persisted'
  /\ account' = account \/ account'.version = account.version + 1
  /\ account'.login # account.login => account'.login \notin persisted

\* It writes for no sign-in that has not written before.
OldWrites == \A l \in Login : Unwritten(l) => Unwritten(l)'

\* What leaves the account alone.
LEMMA CustodyStays ==
  ASSUME AInv, UNCHANGED custody
  PROVE  CustodyMoves /\ OldWrites
BY DEF AInv, AccountTypeOK, custody, CustodyMoves, CustodyInv, OldWrites, Unwritten

\* A write that may be sent, or was given up.
Sendable(w) ==
  /\ w \in Drift /\ w.cas <= account.version
  /\ w.by = "refresh" =>
       w.login \in persisted /\ (w.cas = account.version => w.login = account.login)
  /\ w.by # "refresh" => w.login = w.by /\ w.by \notin persisted

\* Vault takes a write.
LEMMA Taking ==
  ASSUME AInv, NEW w, Sendable(w), Expected(w), Takes(w), drifting' \subseteq drifting,
         \A v \in drifting' : v.by = w.by => w.by = "refresh"
  PROVE  /\ CustodyMoves
         /\ \A l \in Login : Unwritten(l) /\ l # w.by => Unwritten(l)'
         /\ w.by # "refresh" => w.by \in persisted'
<1>1. /\ account \in Account /\ drifting \subseteq Drift /\ persisted \subseteq Login
      /\ account.version \in Nat /\ w.login \in Login /\ w.by \in Login \cup {"refresh"}
      /\ w \in Drift /\ w.cas = account.version
      /\ \A v \in drifting : v.cas \in Nat
  BY DEF AInv, AccountTypeOK, Account, Drift, Sendable, Expected
<1>2. /\ account' = [version |-> account.version + 1, login |-> w.login]
      /\ persisted' = persisted \cup ({w.by} \cap Login)
  BY DEF Takes
<1>3. account' \in Account /\ account'.version = account.version + 1 /\ account'.login = w.login
  BY <1>1, <1>2 DEF Account
<1>4. "refresh" \notin Login
  BY AccountAssumption
<1>5. account'.login \in persisted' /\ persisted \subseteq persisted'
      /\ persisted' \subseteq Login /\ (w.by # "refresh" => w.by \in persisted')
  BY <1>1, <1>2, <1>3 DEF Sendable
<1>6. account'.login # account.login => account'.login \notin persisted
  BY <1>1, <1>3 DEF Sendable
<1>7. \A v \in drifting' : v.by # "refresh" => v.by \notin persisted'
  BY <1>1, <1>2 DEF AInv, CustodyInv
<1>8. CustodyInv'
  <2>1. \A v \in drifting' : v.cas <= account'.version /\ v.cas # account'.version
    BY <1>1, <1>3 DEF AInv, CustodyInv
  <2>2. account'.version # 0
    BY <1>1, <1>3
  <2> QED BY <1>5, <1>7, <2>1, <2>2 DEF AInv, CustodyInv
<1>9. \A l \in Login : Unwritten(l) /\ l # w.by => Unwritten(l)'
  BY <1>2 DEF Unwritten
<1> QED BY <1>1, <1>3, <1>5, <1>6, <1>8, <1>9 DEF CustodyMoves

\* A write is given up.
LEMMA GivingUp ==
  ASSUME AInv, NEW w, Sendable(w), drifting' \in {drifting, drifting \cup {w}},
         UNCHANGED <<account, persisted>>,
         w.by # "refresh" => \A v \in drifting : v.by # w.by
  PROVE  CustodyMoves /\ \A l \in Login : Unwritten(l) /\ l # w.by => Unwritten(l)'
<1>1. CustodyInv'
  BY DEF AInv, CustodyInv, Sendable
<1>2. \A l \in Login : Unwritten(l) /\ l # w.by => Unwritten(l)'
  BY DEF Unwritten
<1> QED BY <1>1, <1>2 DEF CustodyMoves, AInv, AccountTypeOK, Sendable

\* A write that was given up arrives.
LEMMA Drifting ==
  ASSUME AInv, NEW w \in drifting, Drifts(w)
  PROVE  CustodyMoves /\ OldWrites
<1>1. Sendable(w) /\ drifting' = drifting \ {w}
  BY DEF Drifts, Sendable, AInv, AccountTypeOK, CustodyInv
<1>2. \A v \in drifting' : v.by = w.by => w.by = "refresh"
  BY <1>1 DEF AInv, CustodyInv
<1>3. ~Unwritten(w.by)
  BY DEF Unwritten
<1>4. CASE Expected(w)
  BY <1>1, <1>2, <1>3, <1>4, Taking DEF Drifts, OldWrites
<1>5. CASE ~Expected(w)
  <2>1. UNCHANGED <<account, persisted>>
    BY <1>5 DEF Drifts
  <2>2. CustodyInv'
    BY <1>1, <2>1 DEF AInv, CustodyInv
  <2> QED BY <1>1, <2>1, <2>2 DEF CustodyMoves, OldWrites, Unwritten, AInv, AccountTypeOK
<1> QED BY <1>4, <1>5

\* The account is written back after a use.
WritesBack ==
  LET w == [cas |-> projection.entry.version, login |-> projection.entry.login,
            by |-> "refresh"]
  IN \/ Expected(w) /\ Takes(w) /\ UNCHANGED drifting
     \/ drifting' \in {drifting, drifting \cup {w}} /\ UNCHANGED <<account, persisted>>

\* A refreshed account is written back at the version it was read at.
LEMMA WritingBack ==
  ASSUME AInv, projection.entry.login # "none", WritesBack
  PROVE  CustodyMoves /\ OldWrites
<1> DEFINE w == [cas |-> projection.entry.version, login |-> projection.entry.login,
                 by |-> "refresh"]
<1>1. projection.entry \in Account
  BY DEF AInv, AccountTypeOK, Projection
<1>2. w \in Drift /\ w.cas = projection.entry.version /\ w.login = projection.entry.login
      /\ w.by = "refresh"
  BY <1>1 DEF Account, Drift
<1>3. \/ Expected(w) /\ Takes(w) /\ UNCHANGED drifting
      \/ drifting' \in {drifting, drifting \cup {w}} /\ UNCHANGED <<account, persisted>>
  BY DEF WritesBack
<1> HIDE DEF w
<1>4. Sendable(w)
  BY <1>2 DEF Sendable, AInv, ProjectionInv
<1>5. \A l \in Login : l # w.by
  BY <1>2, AccountAssumption
<1>6. CASE Expected(w) /\ Takes(w) /\ UNCHANGED drifting
  BY <1>2, <1>4, <1>5, <1>6, Taking DEF OldWrites
<1>7. CASE drifting' \in {drifting, drifting \cup {w}} /\ UNCHANGED <<account, persisted>>
  BY <1>2, <1>4, <1>5, <1>7, GivingUp DEF OldWrites
<1> QED BY <1>3, <1>6, <1>7

\* The sign-in writes its account.
LEMMA Completing ==
  ASSUME AInv, LoginCompletes
  PROVE  /\ CustodyMoves
         /\ \A l \in Login : Unwritten(l) /\ l # signIn.login => Unwritten(l)'
         /\ signIn.at = "waiting"
         /\ \/ /\ signIn.login \in persisted' /\ Steps("persisted") /\ UNCHANGED projection
            \/ Steps("failing") /\ Unlock("signIn")
<1> DEFINE w == [cas |-> projection.entry.version, login |-> signIn.login,
                 by |-> signIn.login]
<1>1. /\ projection.entry \in Account /\ signIn.at = "waiting" /\ signIn.login \in Login
      /\ Unwritten(signIn.login)
  BY DEF LoginCompletes, AInv, AccountTypeOK, Projection, SignInInv, Unpersisted
<1>2. /\ w \in Drift /\ w.cas = projection.entry.version /\ w.login = signIn.login
      /\ w.by = signIn.login /\ w.by # "refresh"
  BY <1>1, AccountAssumption DEF Account, Drift
<1>3. \/ /\ Expected(w) /\ Takes(w) /\ UNCHANGED drifting
         /\ \/ Steps("persisted") /\ UNCHANGED projection
            \/ Steps("failing") /\ Unlock("signIn")
      \/ /\ drifting' \in {drifting, drifting \cup {w}} /\ UNCHANGED <<account, persisted>>
         /\ Steps("failing") /\ Unlock("signIn")
  BY DEF LoginCompletes, Persist
<1> HIDE DEF w
<1>4. Sendable(w) /\ \A v \in drifting : v.by # w.by
  BY <1>1, <1>2 DEF Sendable, AInv, ProjectionInv, Unwritten
<1>5. CASE Expected(w) /\ Takes(w) /\ UNCHANGED drifting
  BY <1>1, <1>2, <1>3, <1>4, <1>5, Taking
<1>6. CASE /\ drifting' \in {drifting, drifting \cup {w}} /\ UNCHANGED <<account, persisted>>
           /\ Steps("failing") /\ Unlock("signIn")
  BY <1>1, <1>2, <1>4, <1>6, GivingUp
<1> QED BY <1>3, <1>5, <1>6

\* The projection is taken, given up or left.
LEMMA Projecting ==
  ASSUME AInv, CustodyMoves,
         \/ projection' \in {projection, Unlocked}
         \/ /\ UNCHANGED account
            /\ \E who \in Holder : projection' = [by |-> who, entry |-> account]
  PROVE  projection' \in Projection /\ ProjectionInv'
<1>1. /\ account \in Account /\ projection \in Projection /\ projection.entry \in Account
      /\ account.version \in Nat /\ projection.entry.version \in Nat
      /\ account' \in Account /\ account'.version \in Nat
  BY DEF AInv, AccountTypeOK, Projection, Account, CustodyMoves
<1>2. CASE projection' = projection
  BY <1>1, <1>2 DEF AInv, ProjectionInv, CustodyMoves
<1>3. CASE projection' = Unlocked
  <2>1. NoEntry \in Account /\ NoEntry.version = 0 /\ NoEntry.login = "none"
    BY DEF NoEntry, Account
  <2>2. projection'.entry = NoEntry /\ projection' \in Projection
    BY <1>3, <2>1 DEF Unlocked, Projection, Holder
  <2>3. account'.version = 0 => account'.login = "none"
    BY DEF CustodyMoves, CustodyInv
  <2> QED BY <1>1, <2>1, <2>2, <2>3 DEF ProjectionInv
<1>4. ASSUME NEW who \in Holder, projection' = [by |-> who, entry |-> account],
             UNCHANGED account
      PROVE  projection' \in Projection /\ ProjectionInv'
  <2>1. projection'.entry = account /\ projection' \in Projection
    BY <1>1, <1>4 DEF Projection
  <2>2. account'.login = "none" \/ account'.login \in persisted'
    BY DEF CustodyMoves, CustodyInv
  <2> QED BY <1>1, <1>4, <2>1, <2>2 DEF ProjectionInv
<1> QED BY <1>2, <1>3, <1>4

\* What does not touch the sign-ins.
LEMMA SignInsStay ==
  ASSUME AInv, UNCHANGED signIns, CustodyMoves, OldWrites
  PROVE  SignInInv' /\ SignInIsTrue'
<1>1. UNCHANGED <<login, signIn, cancelling>> /\ signIn \in SignIn
  BY DEF signIns, AInv, AccountTypeOK
<1>2. SignInInv'
  BY <1>1 DEF AInv, SignInInv, OldWrites, CustodyMoves, Open, Unpersisted
<1>3. SignInIsTrue'
  BY <1>1 DEF AInv, SignInIsTrue, OldWrites, CustodyMoves, Unwritten
<1> QED BY <1>2, <1>3

\* What does not touch the invocations.
LEMMA InvocationsStay ==
  ASSUME AInv, UNCHANGED invocations
  PROVE  InvocationInv' /\ InvokedOnce'
BY DEF invocations, AInv, InvocationInv, InvokedOnce

-----------------------------------------------------------------------------
(* The account: sign-ins.                                                  *)

\* The active sign-in goes on, a sign-in becomes active, none is active.
SignInAt(l, at, cancel) ==
  signIn' \in SignIn /\ signIn'.login = l /\ signIn'.at = at /\ signIn'.cancel = cancel

\* The active sign-in is where the step says.
LEMMA SigningIn ==
  ASSUME AccountTypeOK,
         NEW at \in {"starting", "slot", "projected", "waiting", "persisted", "failing",
                     "closing", "stuck"}
  PROVE  /\ Steps(at) => SignInAt(signIn.login, at, signIn.cancel)
         /\ \A l \in Login : Begun(l, at) => SignInAt(l, at, FALSE)
         /\ signIn' = Inactive => SignInAt("none", "idle", FALSE)
<1>1. Steps(at) => SignInAt(signIn.login, at, signIn.cancel)
  BY DEF AccountTypeOK, SignInAt, SignIn, Steps
<1>2. ASSUME NEW l \in Login, Begun(l, at) PROVE SignInAt(l, at, FALSE)
  BY <1>2 DEF SignInAt, SignIn, Begun
<1>3. signIn' = Inactive => SignInAt("none", "idle", FALSE)
  BY DEF SignInAt, SignIn, Inactive
<1> QED BY <1>1, <1>2, <1>3

\* A fault counts.
LEMMA Breaking ==
  ASSUME AInv, Broken \/ UNCHANGED tried
  PROVE  tried' \in [refreshes : Nat, faults : Nat]
BY DEF AInv, AccountTypeOK, Broken

\* The record of a sign-in.
LEMMA Recording ==
  ASSUME AccountTypeOK, NEW l \in Login, NEW became \in LoginState,
         login' = [login EXCEPT ![l] = became]
  PROVE  login' \in [Login -> LoginState] /\ login'[l] = became
         /\ \A k \in Login \ {l} : login'[k] = login[k]
BY DEF AccountTypeOK

\* A sign-in is started.
LEMMA StartStep ==
  ASSUME AInv, NEW l \in Login, StartLogin(l)
  PROVE  AInv' /\ CustodyMoves
<1>1. /\ UNCHANGED <<custody, projection, slot, cancelling, invocations, probe>>
      /\ login[l] = "none" /\ Unwritten(l) /\ AccountTypeOK
  BY DEF StartLogin, AInv, SignInInv
<1>2. CustodyMoves /\ OldWrites
  BY <1>1, CustodyStays
<1>3. InvocationInv' /\ InvokedOnce' /\ projection' \in Projection /\ ProjectionInv'
  BY <1>1, <1>2, InvocationsStay, Projecting
<1>4. tried' \in [refreshes : Nat, faults : Nat]
  BY Breaking DEF StartLogin
<1>5. \/ /\ SignInAt(l, "starting", FALSE) /\ login' \in [Login -> LoginState]
         /\ login'[l] = "starting" /\ \A k \in Login \ {l} : login'[k] = login[k]
      \/ SignInAt(l, "stuck", FALSE) /\ login' = login
  BY <1>1, SigningIn, Recording DEF StartLogin, LoginState
<1>6. AccountTypeOK'
  BY <1>1, <1>2, <1>3, <1>4, <1>5 DEF AccountTypeOK, CustodyMoves, SignInAt, invocations
<1>7. SignInInv'
  BY <1>1, <1>2, <1>5, AccountAssumption
  DEF AInv, SignInInv, OldWrites, SignInAt, Open, Unpersisted, Terminal
<1>8. SignInIsTrue'
  BY <1>1, <1>2, <1>5 DEF AInv, SignInIsTrue, OldWrites, CustodyMoves, Unwritten
<1> QED BY <1>2, <1>3, <1>6, <1>7, <1>8 DEF AInv, CustodyMoves

\* The sign-in takes the slot and the account, waits, and is recorded as it ends.
LEMMA LoginSteps ==
  ASSUME AInv, \/ LoginTakesSlot \/ LoginProjects \/ Instructs \/ LoginFails
               \/ LoginCancels \/ RecordConnected \/ RecordFailed \/ CloseLogin
  PROVE  AInv' /\ CustodyMoves
<1>1. UNCHANGED <<custody, cancelling, invocations, probe>> /\ AccountTypeOK
  BY DEF LoginTakesSlot, LoginProjects, Instructs, LoginFails, LoginCancels,
         RecordConnected, RecordFailed, CloseLogin, KeepLogin, AInv
<1>2. CustodyMoves /\ OldWrites /\ account' = account
  BY <1>1, CustodyStays DEF custody
<1>3. PICK l \in Login : l = signIn.login /\ signIn.at # "idle"
  BY DEF LoginTakesSlot, LoginProjects, Instructs, LoginFails, LoginCancels,
         RecordConnected, RecordFailed, CloseLogin, AInv, SignInInv
<1>4. InvocationInv' /\ InvokedOnce'
  BY <1>1, InvocationsStay
<1>5. projection' \in Projection /\ ProjectionInv'
  <2>1. \/ projection' \in {projection, Unlocked}
        \/ projection' = [by |-> "signIn", entry |-> account]
    BY DEF LoginTakesSlot, LoginProjects, Instructs, LoginFails, LoginCancels,
           RecordConnected, RecordFailed, CloseLogin, Lock, Unlock, Release
  <2> QED BY <1>2, <2>1, Projecting DEF Holder
<1>6. slot' \in Holder
  BY <1>1 DEF LoginTakesSlot, LoginProjects, Instructs, LoginFails, LoginCancels,
     RecordConnected, RecordFailed, CloseLogin, Release, FreeSlot, AccountTypeOK, Holder
<1>7. tried' \in [refreshes : Nat, faults : Nat]
  <2>1. Broken \/ UNCHANGED tried
    BY DEF LoginTakesSlot, LoginProjects, Instructs, LoginFails, LoginCancels,
           RecordConnected, RecordFailed, CloseLogin
  <2> QED BY <2>1, Breaking
<1>8. ASSUME NEW became \in LoginState, login' = [login EXCEPT ![l] = became]
      PROVE  login' \in [Login -> LoginState] /\ login'[l] = became
             /\ \A k \in Login \ {l} : login'[k] = login[k]
  BY <1>1, <1>3, <1>8, Recording
<1>9. \* how the sign-in goes on
      \/ /\ login' = login /\ Open(l)
         /\ \/ /\ signIn.at \in Unpersisted
               /\ SignInAt(l, "slot", signIn.cancel) \/ SignInAt(l, "projected", signIn.cancel)
                  \/ SignInAt(l, "waiting", signIn.cancel)
            \/ SignInAt(l, "failing", signIn.cancel)
      \/ /\ login' = [login EXCEPT ![l] = "waiting"] /\ signIn.at \in Unpersisted
         /\ SignInAt(l, "waiting", signIn.cancel)
      \/ /\ login' = [login EXCEPT ![l] = "cancelled"] /\ Unwritten(l)
         /\ SignInAt(l, "closing", signIn.cancel)
      \/ /\ login' = [login EXCEPT ![l] = "connected"] /\ l \in persisted
         /\ SignInAt(l, "closing", signIn.cancel)
      \/ /\ login' = [login EXCEPT ![l] = "failed"]
         /\ SignInAt(l, "closing", signIn.cancel)
      \/ login' = login /\ Open(l) /\ SignInAt(l, "closing", signIn.cancel)
      \/ /\ login' = login /\ signIn.at = "closing" /\ signIn' = Inactive
         /\ SignInAt("none", "idle", FALSE)
  <2>1. CASE LoginTakesSlot
    BY <1>1, <1>3, <2>1, SigningIn DEF LoginTakesSlot, KeepLogin, AInv, SignInInv, Unpersisted
  <2>2. CASE LoginProjects
    BY <1>1, <1>3, <2>2, SigningIn DEF LoginProjects, KeepLogin, AInv, SignInInv, Unpersisted
  <2>3. CASE Instructs
    BY <1>1, <1>3, <2>3, SigningIn DEF Instructs, Records, AInv, SignInInv, Unpersisted
  <2>4. CASE LoginFails
    BY <1>1, <1>3, <2>4, SigningIn DEF LoginFails, KeepLogin, AInv, SignInInv, Unpersisted
  <2>5. CASE LoginCancels
    BY <1>1, <1>3, <2>5, SigningIn DEF LoginCancels, Records, AInv, SignInInv, Unpersisted
  <2>6. CASE RecordConnected
    BY <1>1, <1>3, <2>6, SigningIn DEF RecordConnected, Records, AInv, SignInInv
  <2>7. CASE RecordFailed
    BY <1>1, <1>3, <2>7, SigningIn DEF RecordFailed, Records, AInv, SignInInv
  <2>8. CASE CloseLogin
    BY <1>1, <1>3, <2>8, SigningIn DEF CloseLogin, KeepLogin
  <2> QED BY <2>1, <2>2, <2>3, <2>4, <2>5, <2>6, <2>7, <2>8
<1>10. login' \in [Login -> LoginState] /\ signIn' \in SignIn
  BY <1>1, <1>8, <1>9 DEF AccountTypeOK, SignInAt, LoginState, Terminal
<1>11. AccountTypeOK'
  BY <1>1, <1>2, <1>5, <1>6, <1>7, <1>10 DEF AccountTypeOK, CustodyMoves, invocations
<1>12. SignInInv' /\ SignInIsTrue'
  <2>1. /\ \A k \in Login : Unwritten(k) => Unwritten(k)'
        /\ \A k \in Login \ {l} : login'[k] = login[k]
    BY <1>2, <1>8, <1>9 DEF OldWrites, LoginState, Terminal
  <2>2. SignInIsTrue'
    <3>1. \/ login'[l] = login[l] \/ login'[l] \notin {"connected", "cancelled"}
          \/ login'[l] = "connected" /\ l \in persisted
          \/ login'[l] = "cancelled" /\ Unwritten(l)
      <4>1. {"waiting", "cancelled", "connected", "failed"} \subseteq LoginState
        BY DEF LoginState, Terminal
      <4> QED BY <1>8, <1>9, <4>1
    <3>2. ASSUME NEW k \in Login
          PROVE  /\ login'[k] = "connected" => k \in persisted
                 /\ login'[k] = "cancelled" => Unwritten(k)
      BY <2>1, <3>1 DEF AInv, SignInIsTrue, Unwritten
    <3> QED BY <1>2, <2>1, <3>2 DEF SignInIsTrue, CustodyMoves, Unwritten
  <2>3. \/ signIn' = Inactive /\ signIn'.at = "idle" /\ signIn'.login = "none"
           /\ login'[l] = login[l]
        \/ signIn'.login = l /\ signIn'.at = "closing" /\ login'[l] # "none"
        \/ /\ signIn'.login = l /\ signIn'.at \in Unpersisted \cup {"failing"}
           /\ login'[l] # "none" /\ login'[l] \notin Terminal
           /\ signIn'.at \in Unpersisted => Unwritten(l)
    <3>1. {"waiting", "cancelled", "connected", "failed"} \subseteq LoginState
          /\ "waiting" \notin Terminal
      BY DEF LoginState, Terminal
    <3>2. signIn.at \in Unpersisted => Unwritten(l)
      BY <1>3 DEF AInv, SignInInv
    <3> QED BY <1>3, <1>8, <1>9, <3>1, <3>2 DEF SignInAt, Open, Unpersisted
  <2>4. SignInInv'
    <3>1. ASSUME NEW k \in Login, login'[k] = "none"
          PROVE  Unwritten(k)' /\ signIn'.login # k
      BY <1>3, <2>1, <2>3, <3>1, AccountAssumption DEF AInv, SignInInv
    <3> QED BY <1>3, <2>1, <2>3, <3>1 DEF SignInInv, Open, Unpersisted
  <2> QED BY <2>2, <2>4
<1> QED BY <1>2, <1>4, <1>5, <1>11, <1>12 DEF AInv, CustodyMoves

\* The native login succeeds, and its account goes to Vault.
LEMMA CompleteStep ==
  ASSUME AInv, LoginCompletes
  PROVE  AInv' /\ CustodyMoves
<1>1. UNCHANGED <<slot, login, cancelling, invocations, probe, tried>> /\ AccountTypeOK
  BY DEF LoginCompletes, KeepLogin, AInv
<1>2. PICK l \in Login : l = signIn.login
  BY Completing DEF AInv, SignInInv
<1>3. /\ CustodyMoves /\ signIn.at = "waiting" /\ Open(l)
      /\ \A k \in Login \ {l} : Unwritten(k) => Unwritten(k)'
      /\ \/ /\ l \in persisted' /\ SignInAt(l, "persisted", signIn.cancel)
            /\ UNCHANGED projection
         \/ SignInAt(l, "failing", signIn.cancel) /\ Unlock("signIn")
  BY <1>1, <1>2, Completing, SigningIn DEF AInv, SignInInv, Unpersisted
<1>4. projection' \in Projection /\ ProjectionInv'
  BY <1>3, Projecting DEF Unlock
<1>5. InvocationInv' /\ InvokedOnce'
  BY <1>1, InvocationsStay
<1>6. AccountTypeOK'
  BY <1>1, <1>3, <1>4 DEF AccountTypeOK, CustodyMoves, SignInAt, invocations
<1>7. SignInInv'
  BY <1>1, <1>3 DEF AInv, SignInInv, SignInAt, Open, Unpersisted
<1>8. SignInIsTrue'
  <2>1. ASSUME NEW k \in Login
        PROVE  /\ login'[k] = "connected" => k \in persisted'
               /\ login'[k] = "cancelled" => Unwritten(k)'
    BY <1>1, <1>3 DEF AInv, SignInIsTrue, CustodyMoves, Open, Terminal, Unwritten
  <2> QED BY <2>1 DEF SignInIsTrue, Unwritten
<1> QED BY <1>3, <1>4, <1>5, <1>6, <1>7, <1>8 DEF AInv, CustodyMoves

\* A sign-in that nobody works on is settled, and one is asked to stop.
LEMMA AskingSteps ==
  ASSUME AInv, CancelWrites \/ \E l \in Login : ReadLogin(l) \/ CancelReads(l)
  PROVE  AInv' /\ CustodyMoves
<1>1. UNCHANGED <<custody, projection, slot, invocations, probe, tried>> /\ AccountTypeOK
  BY DEF CancelWrites, ReadLogin, CancelReads, AInv
<1>2. CustodyMoves /\ OldWrites /\ InvocationInv' /\ InvokedOnce'
  BY <1>1, CustodyStays, InvocationsStay
<1>3. projection' \in Projection /\ ProjectionInv'
  BY <1>1, <1>2, Projecting
<1>4. /\ {"connected", "interrupted", "cancel-requested"} \subseteq LoginState
      /\ {"cancel-requested", "none"} \cap Terminal = {}
  BY DEF LoginState, Terminal
<1>5. ASSUME NEW l \in Login, NEW became \in LoginState, became # "none", Open(l),
             login' = [login EXCEPT ![l] = became],
             signIn.login = l => became \notin Terminal,
             became = "connected" => l \in persisted, became # "cancelled",
             signIn' \in SignIn, signIn'.login = signIn.login, signIn'.at = signIn.at,
             signIn.at = "idle" => signIn' = signIn,
             cancelling' \in Login \cup {"none"}
      PROVE  AInv'
  <2>1. login' \in [Login -> LoginState] /\ login'[l] = became
        /\ \A k \in Login \ {l} : login'[k] = login[k]
    BY <1>1, <1>5, Recording
  <2>2. AccountTypeOK'
    BY <1>1, <1>2, <1>3, <1>5, <2>1 DEF AccountTypeOK, CustodyMoves, invocations
  <2>3. SignInInv'
    <3>1. ASSUME NEW k \in Login
          PROVE  /\ login'[k] = "none" =>
                      Unwritten(k)' /\ (signIn'.login = k => signIn'.at = "stuck")
                 /\ Unwritten(k) => Unwritten(k)'
                 /\ signIn'.login = k /\ Open(k) => login'[k] # "none" /\ login'[k] \notin Terminal
      BY <1>2, <1>4, <1>5, <2>1 DEF AInv, SignInInv, OldWrites, Open
    <3>2. signIn'.at # "idle" => signIn'.login \in Login
      BY <1>5 DEF AInv, SignInInv
    <3> QED BY <1>2, <1>5, <3>1, <3>2 DEF AInv, SignInInv, CustodyMoves, Open, Unpersisted
  <2>4. SignInIsTrue'
    BY <1>2, <1>5, <2>1 DEF AInv, SignInIsTrue, OldWrites, CustodyMoves, Unwritten
  <2> QED BY <1>2, <1>3, <2>2, <2>3, <2>4 DEF AInv, CustodyMoves
<1>6. ASSUME UNCHANGED <<login, signIn>>, cancelling' \in Login \cup {"none"}
      PROVE  AInv'
  <2>1. AccountTypeOK'
    BY <1>1, <1>2, <1>3, <1>6 DEF AccountTypeOK, CustodyMoves, invocations
  <2>2. SignInInv'
    BY <1>2, <1>6 DEF AInv, SignInInv, OldWrites, CustodyMoves, Open, Unpersisted
  <2>3. SignInIsTrue'
    BY <1>2, <1>6 DEF AInv, SignInIsTrue, OldWrites, CustodyMoves, Unwritten
  <2> QED BY <1>2, <1>3, <2>1, <2>2, <2>3 DEF AInv, CustodyMoves
<1>7. ASSUME NEW l \in Login, ReadLogin(l) PROVE AInv'
  <2>1. PICK became \in {"connected", "interrupted"} :
          /\ login' = [login EXCEPT ![l] = became]
          /\ became = "connected" => account.login = l
    BY <1>7 DEF ReadLogin, CompletedLogin
  <2>2. became = "connected" => l \in persisted
    BY <2>1, AccountAssumption DEF AInv, CustodyInv
  <2>3. Open(l) /\ signIn.login # l /\ UNCHANGED <<signIn, cancelling>>
    BY <1>7 DEF ReadLogin
  <2> QED BY <1>1, <1>4, <1>5, <2>1, <2>2, <2>3 DEF AccountTypeOK
<1>8. ASSUME NEW l \in Login, CancelReads(l) PROVE AInv'
  BY <1>6, <1>8 DEF CancelReads
<1>9. CASE CancelWrites
  <2>1. CASE StillOpen
    <3>1. /\ cancelling \in Login /\ Open(cancelling) /\ cancelling' = "none"
          /\ login' = [login EXCEPT ![cancelling] = "cancel-requested"]
          /\ signIn' = [signIn EXCEPT !.cancel = signIn.cancel \/ signIn.login = cancelling]
      BY <1>1, <1>9, <2>1 DEF CancelWrites, StillOpen, AccountTypeOK
    <3>2. (signIn.cancel \/ signIn.login = cancelling) \in BOOLEAN
      BY <1>1 DEF AccountTypeOK, SignIn
    <3>3. /\ signIn' \in SignIn /\ signIn'.login = signIn.login /\ signIn'.at = signIn.at
          /\ signIn'.cancel = (signIn.cancel \/ signIn.login = cancelling)
      BY <1>1, <3>1, <3>2 DEF AccountTypeOK, SignIn
    <3>4. ASSUME signIn.at = "idle" PROVE signIn' = signIn
      <4>1. signIn = Inactive
        BY <3>4 DEF AInv, SignInInv
      <4>2. (signIn.cancel \/ signIn.login = cancelling) = FALSE
        BY <3>1, <4>1, AccountAssumption DEF Inactive
      <4>3. signIn \in SignIn /\ signIn'.cancel = signIn.cancel
        BY <1>1, <3>3, <4>1, <4>2 DEF AccountTypeOK, Inactive
      <4> QED BY <3>3, <4>3 DEF SignIn
    <3> QED BY <1>2, <1>4, <1>5, <3>1, <3>3, <3>4
  <2>2. CASE ~StillOpen
    BY <1>2, <1>6, <1>9, <2>2 DEF CancelWrites
  <2> QED BY <2>1, <2>2
<1> QED BY <1>2, <1>7, <1>8, <1>9

-----------------------------------------------------------------------------
(* The account: invocations, probes and the death of the server.           *)

\* The request of an invocation is at a step.
HandlerAt(i, at) ==
  /\ handler' \in [Request -> Handler]
  /\ handler'[i].at = at
  /\ \A j \in Request \ {i} : handler'[j] = handler[j]

\* One request moves, the others stay.
LEMMA Handling ==
  ASSUME AccountTypeOK, NEW i \in Request
  PROVE  /\ \A at \in {"projected", "ready", "submitted", "completed", "other"} :
              Moves(i, at) => HandlerAt(i, at) /\ handler'[i].todo = handler[i].todo
         /\ FallsBack(i) /\ handler[i].todo # << >> => HandlerAt(i, "next")
         /\ \A outcome \in Outcome :
              Ends(i, outcome) => HandlerAt(i, "answer") /\ handler'[i].outcome = outcome
         /\ handler' = [handler EXCEPT ![i] = Waiting] => HandlerAt(i, "idle")
<1>1. handler \in [Request -> Handler] /\ handler[i] \in Handler
  BY DEF AccountTypeOK
<1>2. ASSUME NEW new \in Handler, handler' = [handler EXCEPT ![i] = new]
      PROVE  HandlerAt(i, new.at) /\ handler'[i] = new
  BY <1>1, <1>2 DEF HandlerAt
<1>3. ASSUME NEW at \in {"projected", "ready", "submitted", "completed", "other"}, Moves(i, at)
      PROVE  HandlerAt(i, at) /\ handler'[i].todo = handler[i].todo
  <2>1. handler' = [handler EXCEPT ![i] = [handler[i] EXCEPT !.at = at]]
    BY <1>3 DEF Moves
  <2>2. LET new == [handler[i] EXCEPT !.at = at]
        IN new \in Handler /\ new.at = at /\ new.todo = handler[i].todo
    BY <1>1 DEF Handler
  <2> QED BY <1>2, <2>1, <2>2
<1>4. ASSUME FallsBack(i), handler[i].todo # << >> PROVE HandlerAt(i, "next")
  <2>1. Tail(handler[i].todo) \in Seq({"codex", "other"})
    <3>1. handler[i].todo \in Seq({"codex", "other"})
      BY <1>1 DEF Handler
    <3> QED BY <1>4, <3>1
  <2>2. handler' = [handler EXCEPT ![i].at = "next", ![i].todo = Tail(@)]
    BY <1>4 DEF FallsBack
  <2> QED BY <1>1, <2>1, <2>2 DEF HandlerAt, Handler
<1>5. ASSUME NEW outcome \in Outcome, Ends(i, outcome)
      PROVE  HandlerAt(i, "answer") /\ handler'[i].outcome = outcome
  <2>1. handler' = [handler EXCEPT ![i] = [handler[i] EXCEPT !.at = "answer",
                                                             !.outcome = outcome]]
    BY <1>5 DEF Ends
  <2>2. LET new == [handler[i] EXCEPT !.at = "answer", !.outcome = outcome]
        IN new \in Handler /\ new.at = "answer" /\ new.outcome = outcome
    BY <1>1 DEF Handler
  <2> QED BY <1>2, <2>1, <2>2
<1>6. Waiting \in Handler /\ Waiting.at = "idle"
  BY DEF Waiting, Handler
<1> QED BY <1>2, <1>3, <1>4, <1>5, <1>6

\* What becomes of one invocation.
Sound(i) ==
  /\ journal[i] = "none" => turns[i] = 0 /\ handler[i].at = "idle"
  /\ handler[i].at # "idle" => journal[i] = "pending"
  /\ handler[i].at \in {"next", "projected", "ready"} => turns[i] = 0
  /\ handler[i].at \in {"projected", "ready"} => handler[i].todo # << >>
  /\ handler[i].at \in {"submitted", "completed", "other"} => turns[i] = 1
  /\ handler[i].at = "answer" =>
       /\ handler[i].outcome \in Outcome
       /\ handler[i].outcome = "suggestion" => turns[i] = 1
       /\ handler[i].outcome = "no fallback" => turns[i] = 0
  /\ turns[i] <= 1
  /\ journal[i] = "suggestion" => turns[i] = 1
  /\ journal[i] = "no fallback" => turns[i] = 0

InvocationTypes ==
  /\ journal \in [Request -> Outcome \cup {"none", "pending"}]
  /\ handler \in [Request -> Handler] /\ turns \in [Request -> Nat]

\* A step of one invocation leaves the others sound.
LEMMA OneInvocation ==
  ASSUME AInv, NEW i \in Request, Sound(i)',
         \A j \in Request \ {i} :
           journal'[j] = journal[j] /\ turns'[j] = turns[j] /\ handler'[j] = handler[j]
  PROVE  InvocationInv' /\ InvokedOnce'
<1>1. ASSUME NEW j \in Request \ {i} PROVE Sound(j)'
  <2>1. Sound(j)
    BY DEF AInv, Sound, InvocationInv, InvokedOnce
  <2>2. journal'[j] = journal[j] /\ turns'[j] = turns[j] /\ handler'[j] = handler[j]
    OBVIOUS
  <2> QED BY <2>1, <2>2 DEF Sound
<1>2. \A j \in Request : Sound(j)'
  BY <1>1
<1>3. InvocationInv'
  BY <1>2 DEF Sound, InvocationInv
<1>4. ASSUME NEW j \in Request
      PROVE  turns'[j] = 1 => handler'[j].at \notin {"next", "projected", "ready"}
  <2>1. handler'[j].at \in {"next", "projected", "ready"} => turns'[j] = 0
    BY <1>2 DEF Sound
  <2> QED BY <2>1
<1>5. InvokedOnce'
  BY <1>2, <1>4 DEF Sound, InvokedOnce
<1> QED BY <1>3, <1>5

\* A use of the account: the sign-ins stay as they are.
LEMMA Using ==
  ASSUME AInv, UNCHANGED signIns, CustodyMoves, OldWrites,
         projection' \in Projection, ProjectionInv', slot' \in Holder,
         tried' \in [refreshes : Nat, faults : Nat],
         journal' \in [Request -> Outcome \cup {"none", "pending"}],
         handler' \in [Request -> Handler], turns' \in [Request -> Nat],
         InvocationInv', InvokedOnce', probe' \in {"idle", "slot", "projected"}
  PROVE  AInv' /\ CustodyMoves
<1>1. UNCHANGED <<login, signIn, cancelling>>
  BY DEF signIns
<1>2. AccountTypeOK'
  BY <1>1 DEF AInv, AccountTypeOK, CustodyMoves
<1> QED BY <1>2, SignInsStay DEF AInv, CustodyMoves

\* The account is written back, as it is after the use.
Refreshes ==
  /\ projection.entry.login # "none" /\ WritesBack
  /\ tried' = [tried EXCEPT !.refreshes = @ + 1]

\* What custody does under an invocation or a probe.
LEMMA UsingCustody ==
  ASSUME AInv,
         \/ UNCHANGED custody /\ (Broken \/ UNCHANGED tried)
         \/ Refreshes
  PROVE  CustodyMoves /\ OldWrites /\ tried' \in [refreshes : Nat, faults : Nat]
<1>1. tried \in [refreshes : Nat, faults : Nat]
  BY DEF AInv, AccountTypeOK
<1>2. CASE UNCHANGED custody /\ (Broken \/ UNCHANGED tried)
  BY <1>2, CustodyStays, Breaking
<1>3. CASE Refreshes
  BY <1>1, <1>3, WritingBack DEF Refreshes
<1> QED BY <1>2, <1>3

InvocationStep(i) ==
  \/ Receive(i) \/ PassOver(i) \/ Exhausted(i) \/ ProjectAccount(i) \/ TakeSlot(i)
  \/ CodexUnavailable(i) \/ SubmitTurn(i) \/ TurnEnds(i) \/ SinkAccount(i)
  \/ SubmitOther(i) \/ OtherEnds(i) \/ Answer(i)

\* An invocation goes on.
LEMMA InvocationSteps ==
  ASSUME AInv, NEW i \in Request, InvocationStep(i)
  PROVE  AInv' /\ CustodyMoves
<1>1. UNCHANGED <<signIns, probe>> /\ AccountTypeOK
  BY DEF InvocationStep, Receive, PassOver, Exhausted, ProjectAccount, TakeSlot, SinkAccount,
         CodexUnavailable, SubmitTurn, TurnEnds, SubmitOther, OtherEnds, Answer, AInv
<1>2. CustodyMoves /\ OldWrites /\ tried' \in [refreshes : Nat, faults : Nat]
  <2>1. CASE SinkAccount(i)
    <3>1. Unrefreshed \/ Refreshes
      BY <2>1 DEF SinkAccount, Refresh, Persist, WritesBack, Refreshes
    <3> QED BY <3>1, UsingCustody DEF Unrefreshed
  <2>2. CASE ~SinkAccount(i)
    <3>1. UNCHANGED custody /\ (Broken \/ UNCHANGED tried)
      BY <2>2 DEF InvocationStep, Receive, PassOver, Exhausted, ProjectAccount, TakeSlot,
         CodexUnavailable, SubmitTurn, TurnEnds, SubmitOther, OtherEnds, Answer
    <3> QED BY <3>1, UsingCustody
  <2> QED BY <2>1, <2>2
<1>3. projection' \in Projection /\ ProjectionInv'
  <2>1. \/ projection' \in {projection, Unlocked}
        \/ UNCHANGED account /\ projection' = [by |-> i, entry |-> account]
    BY DEF InvocationStep, Receive, PassOver, Exhausted, ProjectAccount, TakeSlot, SinkAccount,
       CodexUnavailable, SubmitTurn, TurnEnds, SubmitOther, OtherEnds, Answer, Lock, Unlock,
       Release, custody
  <2> QED BY <1>2, <2>1, Projecting DEF Holder
<1>4. slot' \in Holder
  BY <1>1 DEF InvocationStep, Receive, PassOver, Exhausted, ProjectAccount, TakeSlot,
     SinkAccount, CodexUnavailable, SubmitTurn, TurnEnds, SubmitOther, OtherEnds, Answer,
     Release, FreeSlot, AccountTypeOK, Holder
<1>5. InvocationTypes /\ Sound(i)
  BY <1>1 DEF AccountTypeOK, InvocationTypes, AInv, InvocationInv, InvokedOnce, Sound
<1>6. InvocationTypes' /\ InvocationInv' /\ InvokedOnce'
  <2>1. CASE Receive(i)
    <3>1. PICK route \in Route :
            handler' = [handler EXCEPT ![i] = [Waiting EXCEPT !.at = "next", !.todo = route]]
      BY <2>1 DEF Receive
    <3>2. route \in Seq({"codex", "other"})
      BY DEF Route
    <3>3. LET new == [Waiting EXCEPT !.at = "next", !.todo = route]
          IN new \in Handler /\ new.at = "next"
      BY <3>2 DEF Waiting, Handler
    <3>4. HandlerAt(i, "next")
      BY <1>5, <3>1, <3>3 DEF HandlerAt, InvocationTypes
    <3>5. journal' = [journal EXCEPT ![i] = "pending"] /\ turns' = turns /\ turns[i] = 0
      BY <1>5, <2>1 DEF Receive, Fresh, Sound
    <3>6. InvocationTypes' /\ Sound(i)'
      BY <1>5, <3>4, <3>5 DEF InvocationTypes, Sound, HandlerAt
    <3> QED BY <1>5, <3>4, <3>5, <3>6, OneInvocation DEF HandlerAt, InvocationTypes
  <2>2. CASE PassOver(i) \/ CodexUnavailable(i)
    <3>1. /\ handler[i].todo # << >> /\ turns[i] = 0 /\ journal[i] = "pending"
          /\ journal' = journal /\ turns' = turns
      BY <1>5, <2>2 DEF PassOver, CodexUnavailable, At, Sound
    <3>2. \/ HandlerAt(i, "next")
          \/ HandlerAt(i, "answer") /\ handler'[i].outcome \in {"failed", "unknown"}
      <4>1. CASE FallsBack(i)
        BY <1>1, <3>1, <4>1, Handling
      <4>2. CASE Ends(i, "failed") \/ Ends(i, "unknown")
        BY <1>1, <4>2, Handling DEF Outcome
      <4> QED BY <2>2, <4>1, <4>2 DEF PassOver, CodexUnavailable
    <3>3. InvocationTypes' /\ Sound(i)'
      BY <1>5, <3>1, <3>2 DEF InvocationTypes, Sound, HandlerAt, Outcome
    <3> QED BY <3>1, <3>2, <3>3, OneInvocation DEF HandlerAt
  <2>3. CASE Exhausted(i)
    <3>1. /\ turns[i] = 0 /\ journal[i] = "pending"
          /\ journal' = journal /\ turns' = turns
      BY <1>5, <2>3 DEF Exhausted, At, Sound
    <3>2. HandlerAt(i, "answer") /\ handler'[i].outcome = "no fallback"
      BY <1>1, <2>3, Handling DEF Exhausted, Outcome
    <3>3. InvocationTypes' /\ Sound(i)'
      BY <1>5, <3>1, <3>2 DEF InvocationTypes, Sound, HandlerAt, Outcome
    <3> QED BY <3>1, <3>2, <3>3, OneInvocation DEF HandlerAt
  <2>4. CASE ProjectAccount(i) \/ TakeSlot(i)
    <3>1. /\ handler[i].todo # << >> /\ turns[i] = 0 /\ journal[i] = "pending"
          /\ journal' = journal /\ turns' = turns
      BY <1>5, <2>4 DEF ProjectAccount, TakeSlot, Candidate, At, Sound
    <3>2. \/ HandlerAt(i, "projected") /\ handler'[i].todo # << >>
          \/ HandlerAt(i, "ready") /\ handler'[i].todo # << >>
          \/ HandlerAt(i, "next")
      BY <1>1, <2>4, <3>1, Handling DEF ProjectAccount, TakeSlot
    <3>3. InvocationTypes' /\ Sound(i)'
      BY <1>5, <3>1, <3>2 DEF InvocationTypes, Sound, HandlerAt
    <3> QED BY <3>1, <3>2, <3>3, OneInvocation DEF HandlerAt
  <2>5. CASE SubmitTurn(i) \/ SubmitOther(i)
    <3>1. /\ turns[i] = 0 /\ journal[i] = "pending" /\ journal' = journal
          /\ turns' \in [Request -> Nat] /\ turns'[i] = 1
          /\ \A j \in Request \ {i} : turns'[j] = turns[j]
      <4>1. turns[i] = 0 /\ journal[i] = "pending"
        BY <1>5, <2>5 DEF SubmitTurn, SubmitOther, Candidate, At, Sound
      <4>2. journal' = journal /\ turns' = [turns EXCEPT ![i] = turns[i] + 1]
        BY <2>5 DEF SubmitTurn, SubmitOther, Submitted
      <4>3. turns \in [Request -> Nat]
        BY <1>5 DEF InvocationTypes
      <4>4. turns' = [turns EXCEPT ![i] = 1]
        BY <4>1, <4>2
      <4> QED BY <4>1, <4>2, <4>3, <4>4
    <3>2. HandlerAt(i, "submitted") \/ HandlerAt(i, "other")
      BY <1>1, <2>5, Handling DEF SubmitTurn, SubmitOther
    <3>3. InvocationTypes'
      BY <1>5, <3>1, <3>2 DEF InvocationTypes, HandlerAt
    <3>4. Sound(i)'
      <4>1. journal'[i] = "pending" /\ turns'[i] = 1 /\ turns'[i] <= 1
        BY <3>1
      <4> QED BY <3>2, <4>1 DEF Sound, HandlerAt
    <3> QED BY <3>1, <3>2, <3>3, <3>4, OneInvocation DEF HandlerAt
  <2>6. CASE TurnEnds(i) \/ SinkAccount(i) \/ OtherEnds(i)
    <3>1. /\ turns[i] = 1 /\ journal[i] = "pending"
          /\ journal' = journal /\ turns' = turns
      BY <1>5, <2>6 DEF TurnEnds, SinkAccount, OtherEnds, At, Sound
    <3>2. \/ HandlerAt(i, "completed")
          \/ /\ HandlerAt(i, "answer")
             /\ handler'[i].outcome \in {"suggestion", "unknown", "failed"}
      <4>1. \/ Moves(i, "completed")
            \/ Ends(i, "suggestion") \/ Ends(i, "unknown") \/ Ends(i, "failed")
        BY <2>6 DEF TurnEnds, SinkAccount, OtherEnds, LostTurn, Refresh, Persist
      <4> QED BY <1>1, <4>1, Handling DEF Outcome
    <3>3. InvocationTypes' /\ Sound(i)'
      BY <1>5, <3>1, <3>2 DEF InvocationTypes, Sound, HandlerAt, Outcome
    <3> QED BY <3>1, <3>2, <3>3, OneInvocation DEF HandlerAt
  <2>7. CASE Answer(i)
    <3>1. /\ HandlerAt(i, "idle") /\ turns' = turns
          /\ journal' = [journal EXCEPT ![i] = handler[i].outcome] \/ journal' = journal
      BY <1>1, <2>7, Handling DEF Answer
    <3>2. /\ journal[i] = "pending" /\ handler[i].outcome \in Outcome
          /\ handler[i].outcome = "suggestion" => turns[i] = 1
          /\ handler[i].outcome = "no fallback" => turns[i] = 0
      BY <1>5, <2>7 DEF Answer, At, Sound
    <3>3. /\ journal' \in [Request -> Outcome \cup {"none", "pending"}]
          /\ journal'[i] \in {handler[i].outcome, "pending"}
          /\ \A j \in Request \ {i} : journal'[j] = journal[j]
      BY <1>5, <3>1, <3>2 DEF InvocationTypes
    <3>4. InvocationTypes' /\ Sound(i)'
      BY <1>5, <3>1, <3>2, <3>3 DEF InvocationTypes, Sound, HandlerAt, Outcome
    <3> QED BY <3>1, <3>3, <3>4, OneInvocation DEF HandlerAt
  <2> QED BY <2>1, <2>2, <2>3, <2>4, <2>5, <2>6, <2>7 DEF InvocationStep
<1> QED BY <1>1, <1>2, <1>3, <1>4, <1>6, Using DEF AccountTypeOK, InvocationTypes

\* A catalogue or health check takes the slot, reads the account and writes it back.
LEMMA ProbeSteps ==
  ASSUME AInv, ProbeTakesSlot \/ ProbeProjects \/ ProbeEnds
  PROVE  AInv' /\ CustodyMoves
<1>1. UNCHANGED <<signIns, invocations>> /\ AccountTypeOK
  BY DEF ProbeTakesSlot, ProbeProjects, ProbeEnds, AInv
<1>2. CustodyMoves /\ OldWrites /\ tried' \in [refreshes : Nat, faults : Nat]
  <2>1. UNCHANGED <<custody, tried>> \/ Refreshes
    BY DEF ProbeTakesSlot, ProbeProjects, ProbeEnds, Unrefreshed, Refresh, Persist, WritesBack,
           Refreshes
  <2> QED BY <2>1, UsingCustody
<1>3. projection' \in Projection /\ ProjectionInv'
  <2>1. \/ projection' \in {projection, Unlocked}
        \/ UNCHANGED account /\ projection' = [by |-> "probe", entry |-> account]
    BY DEF ProbeTakesSlot, ProbeProjects, ProbeEnds, Lock, Unlock, Release, custody
  <2> QED BY <1>2, <2>1, Projecting DEF Holder
<1>4. slot' \in Holder /\ probe' \in {"idle", "slot", "projected"}
  BY <1>1 DEF ProbeTakesSlot, ProbeProjects, ProbeEnds, Release, FreeSlot, AccountTypeOK, Holder
<1>5. InvocationInv' /\ InvokedOnce'
  BY <1>1, InvocationsStay
<1> QED BY <1>1, <1>2, <1>3, <1>4, <1>5, Using DEF AccountTypeOK, invocations

\* A late write arrives.
LEMMA DriftStep ==
  ASSUME AInv, NEW w \in drifting, Drifts(w)
  PROVE  AInv' /\ CustodyMoves
<1>1. UNCHANGED <<projection, slot, signIns, invocations, probe, tried>> /\ AccountTypeOK
  BY DEF Drifts, AInv
<1>2. CustodyMoves /\ OldWrites
  BY Drifting
<1>3. projection' \in Projection /\ ProjectionInv' /\ InvocationInv' /\ InvokedOnce'
  BY <1>1, <1>2, Projecting, InvocationsStay
<1> QED BY <1>1, <1>2, <1>3, Using DEF AccountTypeOK, invocations

\* The server dies: what is in Vault and on disk stays.
LEMMA DeathStep ==
  ASSUME AInv, ServerDies
  PROVE  AInv' /\ CustodyMoves
<1>1. /\ UNCHANGED <<custody, login, journal, turns>> /\ AccountTypeOK
      /\ projection' = Unlocked /\ slot' = "free" /\ signIn' = Inactive
      /\ cancelling' = "none" /\ handler' = [i \in Request |-> Waiting] /\ probe' = "idle"
  BY DEF ServerDies, AInv
<1>2. CustodyMoves /\ OldWrites /\ tried' \in [refreshes : Nat, faults : Nat]
  BY <1>1, CustodyStays, Breaking DEF ServerDies
<1>3. projection' \in Projection /\ ProjectionInv'
  BY <1>1, <1>2, Projecting
<1>4. Waiting \in Handler /\ Waiting.at = "idle"
  BY DEF Waiting, Handler
<1>5. SignInAt("none", "idle", FALSE)
  BY <1>1 DEF SignInAt, SignIn, Inactive
<1>6. AccountTypeOK'
  BY <1>1, <1>2, <1>3, <1>4, <1>5 DEF AccountTypeOK, CustodyMoves, SignInAt, Holder
<1>7. SignInInv'
  BY <1>1, <1>2, <1>5, AccountAssumption
  DEF AInv, SignInInv, OldWrites, SignInAt, Open, Unpersisted
<1>8. SignInIsTrue'
  BY <1>1, <1>2 DEF AInv, SignInIsTrue, OldWrites, CustodyMoves, Unwritten
<1>9. InvocationInv' /\ InvokedOnce'
  BY <1>1, <1>4 DEF AInv, InvocationInv, InvokedOnce
<1> QED BY <1>2, <1>3, <1>6, <1>7, <1>8, <1>9 DEF AInv, CustodyMoves

-----------------------------------------------------------------------------
(* The account: its users.                                                 *)

\* No account in Vault, nobody at work.
LEMMA AccountInitial == AccountInit => AInv
<1> SUFFICES ASSUME AccountInit PROVE AInv
  OBVIOUS
<1>1. NoEntry \in Account /\ NoEntry.version = 0 /\ NoEntry.login = "none"
  BY DEF NoEntry, Account
<1>2. Unlocked \in Projection /\ Unlocked.entry = NoEntry
  BY <1>1 DEF Unlocked, Projection, Holder
<1>3. Waiting \in Handler /\ Waiting.at = "idle"
  BY DEF Waiting, Handler
<1>4. Inactive \in SignIn /\ Inactive.login = "none" /\ Inactive.at = "idle"
  BY DEF Inactive, SignIn
<1>5. AccountTypeOK
  BY <1>1, <1>2, <1>3, <1>4 DEF AccountInit, AccountTypeOK, Holder, LoginState
<1>6. CustodyInv /\ ProjectionInv
  BY <1>1, <1>2 DEF AccountInit, CustodyInv, ProjectionInv
<1>7. SignInInv /\ SignInIsTrue
  BY <1>4, AccountAssumption DEF AccountInit, SignInInv, SignInIsTrue, Unwritten, Unpersisted
<1>8. InvocationInv /\ InvokedOnce
  BY <1>3 DEF AccountInit, InvocationInv, InvokedOnce
<1> QED BY <1>5, <1>6, <1>7, <1>8 DEF AInv

\* Nothing happens to the account.
LEMMA AccountUnchanged ==
  ASSUME AInv, UNCHANGED accountVars
  PROVE  AInv'
<1>1. AccountTypeOK' /\ CustodyInv' /\ ProjectionInv'
  BY DEF accountVars, AInv, AccountTypeOK, CustodyInv, ProjectionInv
<1>2. SignInInv' /\ SignInIsTrue'
  BY DEF accountVars, AInv, SignInInv, SignInIsTrue, Unwritten, Unpersisted, Open
<1>3. InvocationInv' /\ InvokedOnce'
  BY DEF accountVars, AInv, InvocationInv, InvokedOnce
<1> QED BY <1>1, <1>2, <1>3 DEF AInv

\* Every step keeps what holds of the account, and writes it in turn.
LEMMA AccountInductive ==
  ASSUME AInv, AccountNext
  PROVE  AInv' /\ CustodyMoves
BY DriftStep, StartStep, LoginSteps, CompleteStep, AskingSteps, InvocationSteps, ProbeSteps,
   DeathStep DEF AccountNext, InvocationStep

\* An ended sign-in and a finished invocation keep their answer.
AnswersKept ==
  /\ \A l \in Login : login[l] \in Terminal => login'[l] = login[l]
  /\ \A i \in Request : journal[i] \in Outcome => journal'[i] = journal[i]

\* No step takes an answer back.
LEMMA AnswersStay ==
  ASSUME AInv, AccountNext
  PROVE  AnswersKept
<1>1. /\ login \in [Login -> LoginState] /\ journal \in [Request -> Outcome \cup {"none", "pending"}]
      /\ {"none", "pending"} \cap Outcome = {} /\ "none" \notin Terminal
  BY DEF AInv, AccountTypeOK, Outcome, Terminal
<1>2. ASSUME NEW l \in Login PROVE login[l] \in Terminal => login'[l] = login[l]
  <2>1. \/ login' = login
        \/ \E k \in Login : \E became \in LoginState :
             /\ login[k] \notin Terminal
             /\ login' = [login EXCEPT ![k] = became]
    <3>1. CASE \E w \in drifting : Drifts(w)
      BY <3>1 DEF Drifts, signIns
    <3>2. CASE \E k \in Login : StartLogin(k) \/ ReadLogin(k) \/ CancelReads(k)
      BY <1>1, <3>2 DEF StartLogin, ReadLogin, CancelReads, Open, LoginState, Terminal
    <3>3. CASE CancelWrites
      BY <3>3 DEF CancelWrites, StillOpen, Open, LoginState, AInv, AccountTypeOK
    <3>4. CASE \/ LoginTakesSlot \/ LoginProjects \/ Instructs \/ LoginFails \/ LoginCancels
               \/ LoginCompletes \/ RecordConnected \/ RecordFailed \/ CloseLogin
      <4>1. \/ login' = login
            \/ /\ signIn.at \in {"projected", "waiting", "persisted", "failing"}
               /\ \E became \in LoginState : Records(became)
        BY <3>4 DEF LoginTakesSlot, LoginProjects, Instructs, LoginFails, LoginCancels,
           LoginCompletes, RecordConnected, RecordFailed, CloseLogin, KeepLogin,
           LoginState, Terminal
      <4> QED BY <4>1 DEF Records, AInv, SignInInv, Open, Unpersisted
    <3>5. CASE \E i \in Request : InvocationStep(i)
      BY <3>5 DEF InvocationStep, Receive, PassOver, Exhausted, ProjectAccount, TakeSlot,
         SinkAccount, CodexUnavailable, SubmitTurn, TurnEnds, SubmitOther, OtherEnds, Answer,
         signIns
    <3>6. CASE ProbeTakesSlot \/ ProbeProjects \/ ProbeEnds
      BY <3>6 DEF ProbeTakesSlot, ProbeProjects, ProbeEnds, signIns
    <3>7. CASE ServerDies
      BY <3>7 DEF ServerDies
    <3> QED BY <3>1, <3>2, <3>3, <3>4, <3>5, <3>6, <3>7 DEF AccountNext, InvocationStep
  <2> QED BY <1>1, <2>1
<1>3. ASSUME NEW i \in Request PROVE journal[i] \in Outcome => journal'[i] = journal[i]
  <2>1. journal' = journal \/ \E k \in Request : Receive(k) \/ Answer(k)
    BY DEF AccountNext, Drifts, StartLogin, ReadLogin, CancelReads, CancelWrites, LoginTakesSlot,
       LoginProjects, Instructs, LoginFails, LoginCancels, LoginCompletes, RecordConnected,
       RecordFailed, CloseLogin, PassOver, Exhausted, ProjectAccount, TakeSlot, SinkAccount,
       CodexUnavailable, SubmitTurn, TurnEnds, SubmitOther, OtherEnds, ProbeTakesSlot,
       ProbeProjects, ProbeEnds, ServerDies, invocations
  <2>2. \A k \in Request : Receive(k) \/ Answer(k) =>
          /\ journal[k] \notin Outcome
          /\ journal' = journal \/ \E r : journal' = [journal EXCEPT ![k] = r]
    BY <1>1 DEF Receive, Fresh, Answer, At, AInv, InvocationInv
  <2> QED BY <1>1, <2>1, <2>2
<1> QED BY <1>2, <1>3 DEF AnswersKept

-----------------------------------------------------------------------------
(* Both ways to reach a backend.                                           *)

BackendsInv == IInv /\ AInv

\* The gateway's invariant: that of the connections and that of the account.
THEOREM BackendsInvariant == BackendsSpec => []BackendsInv
<1>1. BackendsInit => BackendsInv
  BY Initial, AccountInitial DEF BackendsInit, BackendsInv
<1>2. BackendsInv /\ [BackendsNext]_backendVars => BackendsInv'
  <2> SUFFICES ASSUME BackendsInv, [BackendsNext]_backendVars PROVE BackendsInv'
    OBVIOUS
  <2>1. CASE OfConnection
    BY <2>1, Inductive, AccountUnchanged DEF OfConnection, BackendsInv
  <2>2. CASE OfAccount
    BY <2>2, Inductive, AccountInductive DEF OfAccount, BackendsInv
  <2>3. CASE UNCHANGED backendVars
    BY <2>3, Inductive, AccountUnchanged DEF backendVars, BackendsInv
  <2> QED BY <2>1, <2>2, <2>3 DEF BackendsNext
<1> QED BY <1>1, <1>2, PTL DEF BackendsSpec

\* The key the gateway offers or uses is the one in Vault, and a sign-in tells
\* what became of its account.
THEOREM CredentialsAreCurrent == BackendsSpec => []CredentialIsCurrent
<1>1. BackendsInv => CredentialIsCurrent
  BY CurrentKey DEF BackendsInv, CredentialIsCurrent, AInv
<1> QED BY <1>1, BackendsInvariant, PTL

\* No key comes back to a connection that was disconnected, and nothing refers
\* to one that was removed.
THEOREM RetirementHolds == BackendsSpec => []RetiredIsGone
<1>1. BackendsInv => RetiredIsGone
  BY Retirement DEF BackendsInv, RetiredIsGone
<1> QED BY <1>1, BackendsInvariant, PTL

\* An invocation submits one turn at most, to whichever backend and however
\* often it is asked again: a suggestion answers a turn, none was submitted when
\* no fallback was left, and after a turn no other backend is tried.
THEOREM OneTurn == BackendsSpec => []InvokedOnce
<1>1. BackendsInv => InvokedOnce
  BY DEF BackendsInv, AInv
<1> QED BY <1>1, BackendsInvariant, PTL

\* What is over is over: retired connections and their operations, replaced
\* accounts, ended sign-ins and finished invocations.
THEOREM OverIsOver == BackendsSpec => EndsAreFinal
<1> DEFINE Ended ==
             /\ \A c \in Op : ops[c] # None /\ ops[c].state # "pending" => ops'[c] = ops[c]
             /\ item # None /\ item.state = "removed" => item' = item
           Replaced == account'.login # account.login => account'.login \notin persisted
<1>1. BackendsInv /\ [BackendsNext]_backendVars =>
        [Ended]_vars /\ [Replaced]_accountVars /\ [AnswersKept]_accountVars
  <2> SUFFICES ASSUME BackendsInv, [BackendsNext]_backendVars
               PROVE  [Ended]_vars /\ [Replaced]_accountVars /\ [AnswersKept]_accountVars
    OBVIOUS
  <2>1. CASE OfConnection
    BY <2>1, EndingStep DEF OfConnection, BackendsInv
  <2>2. CASE OfAccount
    BY <2>2, AccountInductive, AnswersStay DEF OfAccount, BackendsInv, CustodyMoves
  <2>3. CASE UNCHANGED backendVars
    BY <2>3 DEF backendVars
  <2> QED BY <2>1, <2>2, <2>3 DEF BackendsNext
<1> QED BY <1>1, BackendsInvariant, PTL
        DEF BackendsSpec, EndsAreFinal, Retired, AccountMovesOn, AnswersAreFinal, AnswersKept

-----------------------------------------------------------------------------
(* Source credentials: the invariant.                                      *)

\* A token works, and not only because it was lost and is in its last moments.
Holds(t) == Works(t) /\ ~Lingers(t)

\* No token that an intent could name works for good.
Dead == \A t \in Token \ shadowed : ~Holds(t)

\* A token that may have been minted for the pending operation, and is nowhere.
Lost(t) ==
  /\ file = 0 /\ Uncertain(state)
  /\ token[t].expires <= state.pending.started + Delay + Lifetime

\* A token that works, for more than its last moments, is the projected one or a lost
\* one, of the intent on disk; and it is the only one.
Custody ==
  /\ \A t \in Token \ shadowed : Holds(t) =>
       token[t].of = state.intent /\ (t = file \/ Lost(t))
  /\ \A t, u \in Token \ shadowed : Holds(t) /\ Holds(u) => t = u

\* Receipts of a superseded intent; a revoke that has its receipt left nothing.
ReceiptInv ==
  /\ state.intent = 0 => state.pending = Nothing /\ state.done = {}
  /\ \A c \in former : c.intent < state.intent
  /\ \A c \in state.done : c.action = "revoke" => state.phase = "revoked" /\ Dead

Working == {"preflight", "retire", "unlink", "announce", "mint", "project", "finish"}

\* What the command that holds the lock has done so far.
RunInv ==
  /\ Reached("entry") => Of({"issue", "renew", "revoke"})
  /\ run.at \in {"preflight", "announce", "mint", "project"} => Of({"issue", "renew", "deliver"})
  /\ run.at \in {"retire", "unlink"} =>
       Of({"issue", "renew", "revoke", "deliver", "withdraw", "suspend"})
  /\ Reached("finish") => Of({"issue", "renew", "revoke"})
  /\ run.at \in Working /\ Of({"issue", "renew", "revoke"}) =>
       /\ run.command.intent = state.intent
       /\ Of({"revoke"}) <=> state.phase = "revoked"
  /\ run.at \in {"preflight", "retire", "unlink", "announce"} /\ Of({"issue", "renew"}) =>
       state.pending.stage = "preparing"
  /\ run.at \in {"mint", "project"} /\ Of({"issue", "renew"}) => Uncertain(state)

\* And what it has made of the token in the projection.
FileInv ==
  /\ file # 0 => token[file].expires # 0
  /\ run.at \in {"retire", "unlink"} => file # 0
  /\ Reached("unlink") => ~token[file].live
  /\ run.at \in {"announce", "mint", "project"} => file = 0
  /\ Reached("mint") /\ Of({"issue", "renew"}) =>
       Dead /\ state.pending.started <= clock /\ clock <= state.pending.started + Delay
  /\ Reached("project") =>
       /\ run.token \in Token /\ token[run.token].live /\ token[run.token].expires # 0
       /\ \A t \in Token \ shadowed : Holds(t) => t = run.token /\ ~Of({"deliver"})
       /\ run.token \in shadowed \/ token[run.token].of = state.intent
       /\ Of({"deliver"}) => run.token \in shadowed
  /\ Reached("finish") => IF Of({"revoke"}) THEN Dead ELSE file # 0

SourceInv == SourceTypes /\ Custody /\ ReceiptInv /\ RunInv /\ FileInv

-----------------------------------------------------------------------------
(* Source credentials: operators.                                          *)

\* The bounds are naturals, and 0 is no token.
LEMMA Sizes == Lifetime \in Nat /\ Lifetime > 0 /\ Delay \in Nat /\ Rotate \in Nat /\ Token \subseteq Nat
               /\ 0 \notin Token
BY AgentSourceAssumption DEF Token

\* Times are naturals.
LEMMA Times ==
  ASSUME SourceInv
  PROVE  clock \in Nat /\ state.pending.started \in Nat /\ Delay \in Nat
         /\ \A t \in Token : token[t].expires \in Nat
BY Sizes DEF SourceInv, SourceTypes, State, PendingEffect, Minting

\* A lost token lingers when the window of its mint is over.
LEMMA LostLingers ==
  ASSUME SourceInv, NEW t \in Token, Lost(t), ~(clock < state.pending.started + Lifetime)
  PROVE  ~Holds(t)
<1>1. token[t].expires <= clock + Delay
  BY Times, Sizes DEF Lost
<1> QED BY <1>1, Sizes DEF Lost, Holds, Lingers

\* Where the command is.
RunAt(step) ==
  run' \in Run /\ run'.at = step /\ run'.command = run.command /\ run'.token = run.token

\* The command goes to its next step with what it holds.
LEMMA Going ==
  ASSUME SourceInv,
         NEW step \in {"preflight", "retire", "unlink", "announce", "mint", "project", "finish"},
         Go(step)
  PROVE  RunAt(step)
BY DEF SourceInv, SourceTypes, Go, RunAt, Run

\* The command gives the lock back.
LEMMA Leaving ==
  ASSUME Leave
  PROVE  run' \in Run /\ run'.at = "idle"
BY DEF Leave, Run, NoRun, Nothing

\* Nothing but the command and the clock moves.
Still == UNCHANGED <<token, file, state, former, shadowed>> /\ clock' \in {clock, clock + 1}

\* The tokens that hold held before.
Fades ==
  \A t \in Token \ shadowed' : Holds(t)' =>
    /\ t \notin shadowed /\ Holds(t)
    /\ token'[t].of = token[t].of /\ token'[t].expires = token[t].expires

\* While the clock runs, no token starts to work, unless it is projected.
LEMMA Fading ==
  ASSUME SourceInv, UNCHANGED <<token, shadowed>>, clock' \in {clock, clock + 1},
         file' \in {file, 0}
  PROVE  Fades
BY Sizes DEF SourceInv, SourceTypes, Minting, Fades, Holds, Works, Lingers

\* If no token starts to work, dead ones stay dead and one works at most.
LEMMA FadingDead ==
  ASSUME SourceInv, Fades
  PROVE  /\ Dead => Dead'
         /\ \A t, u \in Token \ shadowed' : Holds(t)' /\ Holds(u)' => t = u
BY DEF SourceInv, Custody, Fades, Dead

\* A step that moves the command or the clock only keeps what holds of the tokens.
LEMMA StillStep ==
  ASSUME SourceInv, Still
  PROVE  Custody' /\ ReceiptInv' /\ (Dead => Dead')
<1>1. Fades /\ UNCHANGED <<token, file, state, former, shadowed>>
  BY Fading DEF Still
<1>2. Custody'
  BY <1>1, FadingDead DEF SourceInv, Custody, Fades, Lost, Uncertain
<1> QED BY <1>1, <1>2, FadingDead DEF SourceInv, ReceiptInv

\* The command leaves, or none is there.
LEMMA IdleInv ==
  ASSUME SourceInv, run'.at \in {"idle", "admission"},
         file' # 0 => token'[file'].expires # 0
  PROVE  RunInv' /\ FileInv'
BY DEF RunInv, FileInv, Reached, Working

-----------------------------------------------------------------------------
(* Source credentials: steps that move the command only.                   *)

\* An intent that is accepted is the present one or succeeds an empty state.
LEMMA Accepting ==
  ASSUME SourceInv, Accepted
  PROVE  /\ run.command \in Commands /\ Of({"issue", "renew", "revoke"})
         /\ file # 0 => state.intent = run.command.intent
         /\ state.intent # run.command.intent =>
              /\ state.pending = Nothing /\ file = 0
              /\ state.intent < run.command.intent
              /\ state.intent = 0 \/ Of({"issue", "revoke"})
<1>1. /\ Of({"issue", "renew", "revoke"})
      /\ run.command \in Commands \cup Maintenance \cup {Nothing.command}
  BY DEF SourceInv, SourceTypes, RunInv, Accepted, Run
<1>2. run.command \in Commands
  BY <1>1 DEF Of, Commands, Maintenance, Nothing
<1>3. Bound(run.command.intent)
  BY DEF Accepted
<1> QED BY <1>1, <1>2, <1>3 DEF Bound, Succeeds, SourceInv, ReceiptInv

\* A request is taken up or turned away, the runtime is asked, a command is
\* killed, time passes: tokens, state and projection stay.
LEMMA QuietSteps ==
  ASSUME SourceInv,
         \/ Submit \/ GoIn \/ TurnAway \/ Refuse \/ Keep \/ Preflight
         \/ Deliver \/ Withdraw \/ Suspend \/ Resume \/ Killed \/ Reviewed \/ Tick
  PROVE  SourceInv'
<1>1. Still
  BY DEF Still, Submit, GoIn, TurnAway, Refuse, Keep, Preflight, Deliver, Withdraw, Suspend,
         Resume, Killed, Reviewed, Tick
<1>2. Custody' /\ ReceiptInv' /\ (Dead => Dead') /\ UNCHANGED <<token, file, state>>
  BY <1>1, StillStep DEF Still
<1>3. /\ register' \in [version : Nat, active : BOOLEAN] /\ suspended' \in BOOLEAN
      /\ spent' \in [requests : Nat, faults : Nat] /\ clock' \in Nat
  <2>1. /\ register \in [version : Nat, active : BOOLEAN] /\ suspended \in BOOLEAN
        /\ spent \in [requests : Nat, faults : Nat] /\ clock \in Nat
    BY DEF SourceInv, SourceTypes
  <2>2. clock' \in Nat
    BY <1>1, <2>1 DEF Still
  <2>3. \/ spent' = spent \/ spent' = [spent EXCEPT !.faults = @ + 1]
        \/ spent' = [spent EXCEPT !.requests = @ + 1]
    BY DEF Submit, GoIn, TurnAway, Refuse, Keep, Preflight, Deliver, Withdraw, Suspend,
           Resume, Killed, Reviewed, Tick, Fault
  <2>4. suspended' \in {suspended, TRUE, FALSE}
    BY DEF Submit, GoIn, TurnAway, Refuse, Keep, Preflight, Deliver, Withdraw, Suspend,
           Resume, Killed, Reviewed, Tick
  <2>5. \/ register' = register
        \/ \E active \in BOOLEAN : register' = [version |-> register.version + 1,
                                               active |-> active]
    BY DEF Submit, GoIn, TurnAway, Refuse, Keep, Preflight, Deliver, Withdraw, Suspend,
           Resume, Killed, Reviewed, Tick
  <2>6. register' \in [version : Nat, active : BOOLEAN]
    BY <2>1, <2>5
  <2>7. spent' \in [requests : Nat, faults : Nat]
    BY <2>1, <2>3
  <2> QED BY <2>1, <2>2, <2>4, <2>6, <2>7
<1>4. ASSUME run' \in Run PROVE SourceTypes'
  BY <1>1, <1>3, <1>4 DEF SourceInv, SourceTypes, Still
<1>5. ASSUME run' \in Run, run'.at \in {"idle", "admission"} PROVE SourceInv'
  BY <1>2, <1>4, <1>5, IdleInv DEF SourceInv, FileInv
<1>6. CASE Leave
  BY <1>5, <1>6, Leaving
<1>7. CASE Submit
  <2>1. run' \in Run /\ run'.at = "admission"
    <3>1. PICK c \in Commands \cup Maintenance :
            run' = [NoRun EXCEPT !.command = c, !.at = "admission"]
      BY <1>7 DEF Submit
    <3>2. NoRun \in Run
      BY DEF NoRun, Run
    <3> QED BY <3>1, <3>2 DEF Run
  <2> QED BY <1>5, <2>1
<1>8. CASE GoIn
  <2>1. /\ run' \in Run /\ run'.command = run.command
        /\ run'.at = IF run.command \in Commands THEN "entry" ELSE "maintenance"
    BY <1>8 DEF GoIn, SourceInv, SourceTypes, Run
  <2>2. run.command \in Commands => Of({"issue", "renew", "revoke"})
    BY DEF Commands, Of
  <2>3. RunInv' /\ FileInv'
    BY <1>2, <2>1, <2>2 DEF SourceInv, RunInv, FileInv, Reached, Of, Working
  <2> QED BY <1>2, <1>4, <2>1, <2>3 DEF SourceInv
<1>9. CASE Keep
  <2>1. RunAt("finish") /\ Accepted /\ ~Of({"revoke"})
    BY <1>9, Going DEF Keep
  <2>2. file # 0
    BY <1>9, Sizes DEF Keep, Due, Left, Resumed, Projected
  <2>3. Opened(run.command.intent) = state /\ state.intent = run.command.intent
    BY <2>1, <2>2, Accepting DEF Opened
  <2>4. state.phase # "revoked" /\ Of({"issue", "renew", "revoke"})
    BY <1>9, <2>1, <2>3, Accepting DEF Keep, Permitted
  <2>5. RunInv' /\ FileInv'
    BY <1>2, <2>1, <2>2, <2>3, <2>4 DEF SourceInv, RunInv, FileInv, Reached, Of, Working, RunAt
  <2> QED BY <1>2, <1>4, <2>1, <2>5 DEF SourceInv, RunAt
<1>10. CASE Preflight
  <2>1. RunAt(IF file # 0 THEN "retire" ELSE "announce") /\ Reached("preflight")
    BY <1>10, Going DEF Preflight
  <2>2. RunInv' /\ FileInv'
    BY <1>2, <2>1 DEF SourceInv, RunInv, FileInv, Reached, Of, Working, RunAt
  <2> QED BY <1>2, <1>4, <2>1, <2>2 DEF SourceInv, RunAt
<1>11. CASE (Deliver \/ Withdraw \/ Suspend) /\ ~Leave
  <2>1. \/ RunAt("preflight") /\ Of({"deliver"})
        \/ RunAt("retire") /\ Of({"withdraw", "suspend"}) /\ file # 0
    BY <1>11, Going DEF Deliver, Withdraw, Suspend, Of
  <2>2. RunInv' /\ FileInv'
    BY <1>2, <2>1 DEF SourceInv, RunInv, FileInv, Reached, Of, Working, RunAt
  <2> QED BY <1>2, <1>4, <2>1, <2>2 DEF SourceInv, RunAt
<1>12. CASE Reviewed \/ Tick
  <2>1. /\ run' = run /\ clock' \in {clock, clock + 1}
        /\ Reached("mint") /\ Of({"issue", "renew"}) =>
             clock' = clock \/ clock < state.pending.started + Delay
    BY <1>12 DEF Reviewed, Tick, Of
  <2>2. \A t \in Token \ shadowed' : Holds(t)' => t \notin shadowed /\ Holds(t)
    BY <1>1, Fading DEF Still, Fades
  <2>3. RunInv' /\ FileInv'
    <3>1. RunInv'
      BY <1>2, <2>1 DEF SourceInv, RunInv, Reached, Of, Working, Uncertain
    <3>2. Reached("mint") /\ Of({"issue", "renew"}) =>
            state.pending.started <= clock' /\ clock' <= state.pending.started + Delay
      BY <2>1, Times DEF SourceInv, FileInv
    <3>3. shadowed' = shadowed
      BY <1>1 DEF Still
    <3> QED BY <1>2, <2>1, <2>2, <3>1, <3>2, <3>3 DEF SourceInv, FileInv, Reached, Of
  <2>4. run' \in Run
    BY <2>1 DEF SourceInv, SourceTypes
  <2> QED BY <1>2, <1>4, <2>3, <2>4 DEF SourceInv
<1> QED BY <1>6, <1>7, <1>8, <1>9, <1>10, <1>11, <1>12
    DEF TurnAway, Refuse, Resume, Killed

-----------------------------------------------------------------------------
(* Source credentials: steps of an intent that write its state.            *)

\* The state an intent goes on with.
LEMMA Opening ==
  ASSUME SourceInv, Accepted, NEW i, i = run.command.intent, NEW s, s = Opened(i)
  PROVE  /\ i \in Intents /\ s \in State /\ s.intent = i /\ s.pending = state.pending
         /\ IF state.intent = i THEN s = state
            ELSE s.done = {} /\ s.phase = "approved" /\ Dead /\ state.intent < i
         /\ Superseded(i) \subseteq Commands /\ \A c \in Superseded(i) : c.intent < i
         /\ s.pending # Nothing => s.pending.command.intent = i
<1>1. /\ i \in Intents /\ i \in Nat /\ i # 0 /\ i <= 2 /\ state \in State
      /\ state.intent \in Nat /\ state.pending \in PendingEffect
  BY Accepting DEF Commands, Intents, SourceInv, SourceTypes, State
<1>2. CASE state.intent = i
  <2>1. s = state
    BY <1>2 DEF Opened
  <2>2. Superseded(i) = former
    BY <1>2 DEF Superseded
  <2> QED BY <1>1, <1>2, <2>1, <2>2 DEF SourceInv, SourceTypes, ReceiptInv
<1>3. CASE state.intent # i
  <2>1. state.pending = Nothing /\ file = 0 /\ state.intent < i
    BY <1>3, Accepting
  <2>2. Nothing \in PendingEffect /\ Nothing.stage = "none"
    BY DEF Nothing, PendingEffect
  <2>3. Dead
    BY <2>1, <2>2 DEF SourceInv, Custody, Lost, Uncertain, Dead, Token
  <2>4. s = [NoState EXCEPT !.intent = i, !.phase = "approved"]
    BY <1>3 DEF Opened
  <2>5. /\ s \in State /\ s.intent = i /\ s.phase = "approved" /\ s.pending = Nothing
        /\ s.done = {}
    <3>1. i \in 0 .. 2
      BY <1>1
    <3>2. /\ NoState \in State /\ NoState.pending = Nothing /\ NoState.done = {}
      BY <2>2 DEF NoState, State
    <3> QED BY <2>4, <3>1, <3>2 DEF State
  <2>6. Superseded(i) = former \cup state.done
    BY <1>3 DEF Superseded
  <2>7. Superseded(i) \subseteq Commands
    BY <2>6 DEF SourceInv, SourceTypes, State
  <2>8. \A c \in Superseded(i) : c.intent < i
    <3>1. ASSUME NEW c \in former PROVE c.intent < i
      <4>1. c.intent \in Nat /\ c.intent < state.intent
        BY <3>1 DEF SourceInv, SourceTypes, ReceiptInv, Commands, Intents
      <4> QED BY <1>1, <2>1, <4>1
    <3>2. ASSUME NEW c \in state.done PROVE c.intent < i
      BY <2>1, <3>2 DEF SourceInv, SourceTypes
    <3> QED BY <2>6, <3>1, <3>2
  <2> QED BY <1>1, <1>3, <2>1, <2>3, <2>5, <2>7, <2>8
<1> QED BY <1>2, <1>3

\* The intent is closed.
LEMMA TombstoneStep ==
  ASSUME SourceInv, Close
  PROVE  SourceInv'
<1>1. PICK i : i = run.command.intent
  OBVIOUS
<1>2. PICK o : o = Opened(i)
  OBVIOUS
<1>3. PICK s : s = Carried(o)
  OBVIOUS
<1>4. /\ Accepted /\ Of({"revoke"}) /\ state' = [s EXCEPT !.phase = "revoked"]
      /\ former' = Superseded(i)
      /\ IF Outstanding(s) THEN Leave ELSE Go(IF file # 0 THEN "retire" ELSE "finish")
      /\ UNCHANGED <<clock, token, file, suspended, register, shadowed, spent>>
  BY <1>1, <1>2, <1>3 DEF Close
<1>5. /\ i \in Intents /\ o \in State /\ o.intent = i /\ o.pending = state.pending
      /\ IF state.intent = i THEN o = state ELSE o.done = {} /\ Dead
      /\ former' \subseteq Commands /\ \A c \in former' : c.intent < i
      /\ o.pending # Nothing => o.pending.command.intent = i
  BY <1>1, <1>2, <1>4, Opening
<1>6. Nothing \in PendingEffect /\ Nothing.stage = "none"
  BY DEF Nothing, PendingEffect
<1>7. /\ s \in State /\ s.intent = i /\ s.done = o.done
      /\ s.pending = IF Uncertain(state) THEN state.pending ELSE Nothing
  BY <1>3, <1>5, <1>6 DEF Carried, Uncertain, State
<1>8. /\ state' \in State /\ state'.intent = i /\ state'.done = o.done
      /\ state'.phase = "revoked" /\ state'.pending = s.pending
  BY <1>4, <1>7 DEF State
<1>9. Fades
  BY <1>4, Fading
<1>10. Custody'
  <2>1. \A t \in Token \ shadowed : Holds(t) => token[t].of = i /\ (t = file \/ Lost(t))
    BY <1>5 DEF SourceInv, Custody, Dead
  <2>2. \A t \in Token \ shadowed : Lost(t) => Lost(t)'
    BY <1>4, <1>7, <1>8 DEF Lost, Uncertain
  <2> QED BY <1>4, <1>8, <1>9, <2>1, <2>2, FadingDead DEF Custody, Fades
<1>11. ReceiptInv'
  <2>1. i # 0
    BY <1>5 DEF Intents
  <2>2. \A c \in o.done : c.action = "revoke" => Dead
    BY <1>5 DEF SourceInv, ReceiptInv
  <2> QED BY <1>5, <1>8, <1>9, <2>1, <2>2, FadingDead DEF ReceiptInv
<1>12. \/ Leave
       \/ RunAt("retire") /\ file # 0
       \/ RunAt("finish") /\ file = 0 /\ ~Window(s)
  BY <1>4, Going DEF Outstanding
<1>13. SourceTypes'
  <2>1. run' \in Run
    BY <1>12, Leaving DEF RunAt
  <2>2. \A c \in o.done : c.intent = i
    BY <1>5 DEF SourceInv, SourceTypes
  <2>3. s.pending # Nothing => s.pending.command.intent = i
    BY <1>5, <1>7
  <2> QED BY <1>4, <1>5, <1>8, <2>1, <2>2, <2>3 DEF SourceInv, SourceTypes
<1>14. RunInv' /\ FileInv'
  <2>1. file' # 0 => token'[file'].expires # 0
    BY <1>4 DEF SourceInv, FileInv
  <2>2. CASE Leave
    BY <2>1, <2>2, Leaving, IdleInv
  <2>3. CASE RunAt("retire") /\ file # 0
    BY <1>1, <1>4, <1>8, <2>1, <2>3 DEF RunInv, FileInv, Reached, Of, Working, RunAt
  <2>4. CASE RunAt("finish") /\ file = 0 /\ ~Window(s)
    <3>1. Dead
      <4>1. SUFFICES ASSUME NEW t \in Token \ shadowed, Holds(t) PROVE FALSE
        BY DEF Dead
      <4>2. Lost(t)
        BY <2>4, <4>1, Sizes DEF SourceInv, Custody
      <4>3. Uncertain(s) /\ s.pending = state.pending
        BY <1>7, <4>2 DEF Lost, Uncertain
      <4>4. ~(clock < state.pending.started + Lifetime)
        BY <2>4, <4>3 DEF Window
      <4> QED BY <4>1, <4>2, <4>4, LostLingers
    <3>2. Dead'
      BY <1>9, <3>1, FadingDead
    <3> QED BY <1>1, <1>4, <1>8, <2>1, <2>4, <3>2 DEF RunInv, FileInv, Reached, Of, Working, RunAt
  <2> QED BY <1>12, <2>2, <2>3, <2>4
<1> QED BY <1>10, <1>11, <1>13, <1>14 DEF SourceInv

\* A mint is prepared.
LEMMA PrepareStep ==
  ASSUME SourceInv, Prepare
  PROVE  SourceInv'
<1>1. PICK i : i = run.command.intent
  OBVIOUS
<1>2. PICK s : s = Opened(i)
  OBVIOUS
<1>3. PICK prior : prior = IF file = 0 THEN 0 ELSE token[file].expires
  OBVIOUS
<1>4. /\ Accepted /\ ~Of({"revoke"}) /\ Permitted(s) /\ ~Resumed(s)
      /\ state' = [s EXCEPT !.pending = [stage |-> "preparing", command |-> run.command,
                                         prior |-> prior, started |-> clock]]
      /\ former' = Superseded(i) /\ Go("preflight")
      /\ UNCHANGED <<clock, token, file, suspended, register, shadowed, spent>>
  BY <1>1, <1>2, <1>3 DEF Prepare
<1>5. /\ i \in Intents /\ s \in State /\ s.intent = i /\ s.pending = state.pending
      /\ IF state.intent = i THEN s = state ELSE s.done = {} /\ Dead
      /\ former' \subseteq Commands /\ \A c \in former' : c.intent < i
  BY <1>1, <1>2, <1>4, Opening
<1>6. run.command \in Commands /\ Of({"issue", "renew"}) /\ RunAt("preflight")
  BY <1>4, Accepting, Going DEF Of
<1>7. prior \in Nat /\ clock \in Nat
  BY <1>3 DEF SourceInv, SourceTypes, Minting
<1>8. /\ state' \in State /\ state'.intent = i /\ state'.done = s.done
      /\ state'.phase = s.phase /\ s.phase # "revoked"
      /\ state'.pending.stage = "preparing" /\ state'.pending.command = run.command
  BY <1>4, <1>5, <1>6, <1>7 DEF State, PendingEffect, Permitted
<1>9. Fades
  BY <1>4, Fading
<1>10. Custody'
  <2>1. ASSUME NEW t \in Token \ shadowed, Holds(t) PROVE token[t].of = i /\ t = file
    <3>1. token[t].of = i /\ (t = file \/ Lost(t))
      BY <1>5, <2>1 DEF SourceInv, Custody, Dead
    <3>2. ASSUME Lost(t) PROVE FALSE
      <4>1. Uncertain(s) /\ s.pending = state.pending
        BY <1>5, <2>1, <3>2 DEF Lost, Uncertain, Dead
      <4>2. ~(clock < state.pending.started + Lifetime)
        BY <1>4, <4>1 DEF Permitted, Resumed, Window
      <4> QED BY <2>1, <3>2, <4>2, LostLingers
    <3> QED BY <3>1, <3>2
  <2> QED BY <1>4, <1>8, <1>9, <2>1, FadingDead DEF Custody, Fades
<1>11. ReceiptInv'
  <2>1. i # 0
    BY <1>5 DEF Intents
  <2>2. \A c \in s.done : c.action # "revoke"
    BY <1>5, <1>8 DEF SourceInv, ReceiptInv
  <2> QED BY <1>5, <1>8, <2>1, <2>2 DEF ReceiptInv
<1>12. SourceTypes'
  <2>1. \A c \in s.done : c.intent = i
    BY <1>5 DEF SourceInv, SourceTypes
  <2> QED BY <1>1, <1>4, <1>5, <1>6, <1>8, <2>1 DEF SourceInv, SourceTypes, RunAt
<1>13. RunInv' /\ FileInv'
  BY <1>1, <1>4, <1>6, <1>8 DEF SourceInv, RunInv, FileInv, Reached, Of, Working, RunAt
<1> QED BY <1>10, <1>11, <1>12, <1>13 DEF SourceInv

-----------------------------------------------------------------------------
(* Source credentials: the issuer's transaction.                           *)

\* A token stops working.
LEMMA Stopping ==
  ASSUME SourceInv, NEW t \in Token, NEW b \in BOOLEAN,
         token' = [token EXCEPT ![t].live = b], b => token[t].live,
         UNCHANGED <<clock, file, shadowed>>
  PROVE  /\ Fades /\ token' \in [Token -> Minting] /\ token'[t].live = b
         /\ \A u \in Token : token'[u].expires = token[u].expires /\ token'[u].of = token[u].of
<1>1. token \in [Token -> Minting] /\ token[t] \in Minting
  BY DEF SourceInv, SourceTypes
<1>2. /\ token' \in [Token -> Minting] /\ token'[t].live = b
      /\ token'[t].expires = token[t].expires /\ token'[t].of = token[t].of
      /\ \A u \in Token \ {t} : token'[u] = token[u]
  BY <1>1 DEF Minting
<1>3. Fades
  BY <1>2 DEF Fades, Holds, Works, Lingers
<1> QED BY <1>2, <1>3

\* Tokens only stop working, and the state is that of before.
LEMMA StoppingInv ==
  ASSUME SourceInv, Fades, UNCHANGED <<file, state, former, shadowed>>
  PROVE  Custody' /\ ReceiptInv'
<1>1. Custody'
  BY FadingDead DEF SourceInv, Custody, Fades, Lost, Uncertain
<1> QED BY <1>1, FadingDead DEF SourceInv, ReceiptInv

\* The token in the projection is revoked, or the call fails.
LEMMA RetireSteps ==
  ASSUME SourceInv, Retire \/ RetireFails
  PROVE  SourceInv'
<1>1. /\ Reached("retire") /\ file \in Token /\ token[file] \in Minting
      /\ UNCHANGED <<clock, file, state, former, suspended, register, shadowed>>
      /\ spent' \in [requests : Nat, faults : Nat]
  BY DEF Retire, RetireFails, SourceInv, SourceTypes, FileInv, Reached, Fault
<1>2. PICK b \in BOOLEAN :
        /\ token' = [token EXCEPT ![file].live = b] /\ (b => token[file].live)
        /\ (~b /\ Go("unlink")) \/ Leave
  <2>1. CASE Retire
    BY <2>1 DEF Retire
  <2>2. CASE RetireFails
    <3>1. PICK live \in BOOLEAN : token' = [token EXCEPT ![file].live = token[file].live /\ live]
      BY <2>2 DEF RetireFails
    <3>2. (token[file].live /\ live) \in BOOLEAN
      OBVIOUS
    <3> QED BY <2>2, <3>1, <3>2 DEF RetireFails
  <2> QED BY <2>1, <2>2
<1>3. /\ Fades /\ token' \in [Token -> Minting] /\ token'[file].live = b
      /\ \A u \in Token : token'[u].expires = token[u].expires /\ token'[u].of = token[u].of
  BY <1>1, <1>2, Stopping
<1>4. Custody' /\ ReceiptInv'
  BY <1>1, <1>3, StoppingInv
<1>5. \/ RunAt("unlink") /\ ~b
      \/ run' \in Run /\ run'.at = "idle"
  BY <1>2, Going, Leaving
<1>6. token'[file].expires # 0
  BY <1>1, <1>3 DEF SourceInv, FileInv, Token
<1>7. SourceTypes'
  BY <1>1, <1>3, <1>5, <1>6 DEF SourceInv, SourceTypes, RunAt, Unminted
<1>8. RunInv' /\ FileInv'
  <2>1. CASE RunAt("unlink") /\ ~b
    BY <1>1, <1>3, <1>6, <2>1 DEF SourceInv, RunInv, FileInv, Reached, Of, Working, RunAt
  <2>2. CASE run'.at = "idle"
    BY <1>1, <1>6, <2>2, IdleInv
  <2> QED BY <1>5, <2>1, <2>2
<1> QED BY <1>4, <1>7, <1>8 DEF SourceInv

\* And is taken away.
LEMMA UnlinkStep ==
  ASSUME SourceInv, Unlink
  PROVE  SourceInv'
<1>1. /\ Reached("unlink") /\ file' = 0
      /\ UNCHANGED <<clock, token, state, former, suspended, register, shadowed, spent>>
  BY DEF Unlink
<1>2. Dead /\ Dead'
  <2>1. Dead
    BY <1>1, Sizes DEF SourceInv, FileInv, Custody, Lost, Dead, Reached, Holds, Works
  <2> QED BY <1>1, <2>1, Fading, FadingDead
<1>3. Custody' /\ ReceiptInv'
  BY <1>1, <1>2 DEF SourceInv, Custody, ReceiptInv, Dead
<1>4. \/ run' \in Run /\ run'.at = "idle"
      \/ RunAt("finish") /\ Of({"revoke"})
      \/ RunAt("announce") /\ ~Of({"revoke", "withdraw", "suspend"})
  BY <1>1, Going, Leaving DEF Unlink, Of
<1>5. SourceTypes'
  BY <1>1, <1>4 DEF SourceInv, SourceTypes, RunAt
<1>6. RunInv' /\ FileInv'
  <2>1. CASE run'.at = "idle"
    BY <1>1, <2>1, IdleInv
  <2>2. CASE RunAt("finish") /\ Of({"revoke"})
    BY <1>1, <1>2, <2>2 DEF SourceInv, RunInv, FileInv, Reached, Of, Working, RunAt
  <2>3. CASE RunAt("announce") /\ ~Of({"revoke", "withdraw", "suspend"})
    BY <1>1, <2>3 DEF SourceInv, RunInv, FileInv, Reached, Of, Working, RunAt
  <2> QED BY <1>4, <2>1, <2>2, <2>3
<1> QED BY <1>3, <1>5, <1>6 DEF SourceInv

\* The mint is announced on disk.
LEMMA AnnounceStep ==
  ASSUME SourceInv, Announce
  PROVE  SourceInv'
<1>1. /\ Reached("announce") /\ Of({"issue", "renew", "deliver"}) /\ file = 0
      /\ UNCHANGED <<clock, token, file, former, suspended, register, shadowed, spent>>
  BY DEF Announce, SourceInv, RunInv, FileInv, Reached
<1>2. CASE UNCHANGED state
  <2>1. Custody' /\ ReceiptInv'
    BY <1>1, <1>2, StillStep DEF Still
  <2>2. /\ run' \in Run
        /\ \/ run'.at = "idle"
           \/ RunAt("mint") /\ Of({"deliver"})
    <3>1. CASE Leave
      BY <3>1, Leaving
    <3>2. CASE Of({"deliver"}) /\ Go("mint")
      BY <3>2, Going DEF RunAt
    <3>3. CASE ~Leave /\ ~Of({"deliver"})
      <4>1. state' = [state EXCEPT !.pending.stage = "issuing", !.pending.started = clock]
        BY <3>3 DEF Announce
      <4>2. state \in State /\ state.pending \in PendingEffect
        BY DEF SourceInv, SourceTypes, State
      <4>3. state'.pending.stage = "issuing"
        BY <4>1, <4>2 DEF State, PendingEffect
      <4>4. Of({"issue", "renew"})
        BY <1>1, <3>3 DEF Of
      <4>5. state.pending.stage = "preparing"
        BY <1>1, <4>4 DEF SourceInv, RunInv, Reached
      <4> QED BY <1>2, <4>3, <4>5
    <3> QED BY <3>1, <3>2, <3>3 DEF Announce
  <2>3. SourceTypes'
    BY <1>1, <1>2, <2>2 DEF SourceInv, SourceTypes
  <2>4. RunInv' /\ FileInv'
    <3>1. CASE run'.at = "idle"
      BY <1>1, <3>1, IdleInv
    <3>2. CASE RunAt("mint") /\ Of({"deliver"})
      BY <1>1, <3>2 DEF SourceInv, RunInv, FileInv, Reached, Of, Working, RunAt
    <3> QED BY <2>2, <3>1, <3>2
  <2> QED BY <2>1, <2>3, <2>4 DEF SourceInv
<1>3. CASE ~UNCHANGED state
  <2>1. /\ RunAt("mint") /\ Of({"issue", "renew"}) /\ ~Of({"deliver", "revoke"})
        /\ state' = [state EXCEPT !.pending.stage = "issuing", !.pending.started = clock]
    BY <1>1, <1>3, Going DEF Announce, Of
  <2>2. state \in State /\ state.pending \in PendingEffect /\ clock \in Nat
    BY DEF SourceInv, SourceTypes, State
  <2>3. /\ state' \in State /\ state'.intent = state.intent /\ state'.phase = state.phase
        /\ state'.done = state.done /\ state'.pending.command = state.pending.command
        /\ state'.pending.stage = "issuing" /\ state'.pending.started = clock
    BY <2>1, <2>2 DEF State, PendingEffect
  <2>4. /\ state.pending.stage = "preparing" /\ state.phase # "revoked"
        /\ run.command.intent = state.intent
    BY <1>1, <2>1 DEF SourceInv, RunInv, Reached, Of, Working
  <2>5. Dead /\ Dead'
    <3>1. Dead
      BY <1>1, <2>4, Sizes DEF SourceInv, Custody, Lost, Uncertain, Dead
    <3> QED BY <1>1, <3>1, Fading, FadingDead
  <2>6. state.pending # Nothing
    BY <2>4 DEF Nothing
  <2>7. Custody' /\ ReceiptInv'
    BY <1>1, <2>3, <2>4, <2>5, <2>6 DEF SourceInv, Custody, ReceiptInv, Dead
  <2>8. SourceTypes'
    BY <1>1, <2>1, <2>3, <2>6 DEF SourceInv, SourceTypes, RunAt
  <2>9. RunInv' /\ FileInv'
    <3>1. clock <= clock /\ clock <= clock + Delay
      BY Times
    <3> QED BY <1>1, <2>1, <2>3, <2>4, <2>5, <3>1
        DEF RunInv, FileInv, Reached, Of, Working, RunAt, Uncertain
  <2> QED BY <2>7, <2>8, <2>9 DEF SourceInv
<1> QED BY <1>2, <1>3

\* GitHub mints a token.
LEMMA Minting1 ==
  ASSUME SourceInv, Reached("mint"), NEW b \in BOOLEAN, NEW at \in Nat, Minted(b, at),
         Of({"deliver"}) \/ at <= state.pending.started + Delay,
         UNCHANGED <<clock, file, state, former>>
  PROVE  /\ NextToken \in Token /\ token' \in [Token -> Minting] /\ shadowed' \subseteq Token
         /\ token'[NextToken].live = b /\ token'[NextToken].expires # 0
         /\ Custody' /\ ReceiptInv'
         /\ \A t \in Token \ shadowed' : Holds(t)' => t = NextToken /\ ~Of({"deliver"})
         /\ NextToken \in shadowed' \/ token'[NextToken].of = state'.intent
         /\ Of({"deliver"}) => NextToken \in shadowed'
<1>1. PICK n : n = NextToken
  OBVIOUS
<1>2. n \in Token /\ token[n] = Unminted
  BY <1>1 DEF Minted, NextToken
<1>3. /\ token' = [token EXCEPT ![n] = [of |-> run.command.intent, live |-> b,
                                        expires |-> at + Lifetime]]
      /\ shadowed' = IF Of({"deliver"}) THEN shadowed \cup {t \in Token : Works(t)} \cup {n}
                     ELSE shadowed
  BY <1>1 DEF Minted
<1>4. /\ at + Lifetime \in Nat /\ at + Lifetime # 0
      /\ run.command.intent \in 0 .. 2 /\ token \in [Token -> Minting] /\ shadowed \subseteq Token
  BY Sizes DEF SourceInv, SourceTypes, Run, Commands, Maintenance, Intents, Nothing
<1>5. /\ token' \in [Token -> Minting] /\ token'[n].live = b
      /\ token'[n].expires = at + Lifetime /\ token'[n].of = run.command.intent
      /\ \A t \in Token \ {n} : token'[t] = token[t]
  BY <1>2, <1>3, <1>4 DEF Minting
<1>6. /\ Of({"issue", "renew", "deliver"}) /\ file = 0
      /\ Of({"issue", "renew"}) => /\ Dead /\ Uncertain(state)
                                   /\ run.command.intent = state.intent
                                   /\ state.phase # "revoked"
  BY DEF SourceInv, RunInv, FileInv, Reached, Of, Working
<1>7. CASE Of({"deliver"})
  <2>1. Dead'
    BY <1>2, <1>3, <1>5, <1>7 DEF Dead, Holds, Works
  <2>2. n \in shadowed' /\ shadowed' \subseteq Token
    BY <1>2, <1>3, <1>4, <1>7
  <2>3. Custody' /\ ReceiptInv'
    BY <1>5, <2>1 DEF SourceInv, Custody, ReceiptInv, Dead
  <2> QED BY <1>1, <1>2, <1>4, <1>5, <2>1, <2>2, <2>3 DEF Dead
<1>8. CASE ~Of({"deliver"})
  <2>1. Of({"issue", "renew"}) /\ shadowed' = shadowed
    BY <1>3, <1>6, <1>8 DEF Of
  <2>2. \A t \in Token \ shadowed' : Holds(t)' => t = n
    BY <1>5, <1>6, <2>1 DEF Dead, Holds, Works, Lingers
  <2>3. Lost(n)' /\ token'[n].of = state'.intent
    <3>1. at <= state.pending.started + Delay /\ state.pending.started \in Nat
      BY <1>8 DEF SourceInv, SourceTypes, State, PendingEffect
    <3>2. at + Lifetime <= state.pending.started + Delay + Lifetime
      BY <3>1, Sizes
    <3> QED BY <1>5, <1>6, <2>1, <3>2 DEF Lost, Uncertain
  <2>4. Custody' /\ ReceiptInv'
    BY <1>6, <2>1, <2>2, <2>3 DEF SourceInv, Custody, ReceiptInv
  <2> QED BY <1>1, <1>2, <1>4, <1>5, <1>8, <2>1, <2>2, <2>3, <2>4
<1> QED BY <1>7, <1>8

\* With or without its answer, or not at all.
LEMMA MintSteps ==
  ASSUME SourceInv, Mint \/ MintFails
  PROVE  SourceInv'
<1>1. /\ Reached("mint") /\ file = 0 /\ spent' \in [requests : Nat, faults : Nat]
      /\ UNCHANGED <<clock, file, state, former, suspended, register>>
  <2>1. Reached("mint") /\ UNCHANGED <<clock, file, state, former, suspended, register>>
    BY DEF Mint, MintFails
  <2>2. spent \in [requests : Nat, faults : Nat]
    BY DEF SourceInv, SourceTypes
  <2>3. spent' = spent \/ spent' = [spent EXCEPT !.faults = @ + 1]
    BY DEF Mint, MintFails, Fault
  <2>4. spent' \in [requests : Nat, faults : Nat]
    BY <2>2, <2>3
  <2> QED BY <2>1, <2>4 DEF SourceInv, FileInv, Reached
<1>2. ASSUME NEW b \in BOOLEAN, NEW at \in Arrivals, Minted(b, at), Leave
      PROVE  SourceInv'
  <2>0. at \in Nat /\ (Of({"deliver"}) \/ at <= state.pending.started + Delay)
    BY <1>2, Times DEF Arrivals
  <2>1. /\ Custody' /\ ReceiptInv' /\ token' \in [Token -> Minting] /\ shadowed' \subseteq Token
    BY <1>1, <1>2, <2>0, Minting1
  <2>2. run' \in Run /\ RunInv' /\ FileInv'
    BY <1>1, <1>2, Sizes, Leaving, IdleInv
  <2>3. SourceTypes'
    BY <1>1, <2>1, <2>2 DEF SourceInv, SourceTypes
  <2> QED BY <2>1, <2>2, <2>3 DEF SourceInv
<1>3. CASE UNCHANGED <<token, shadowed>> /\ Leave
  <2>1. Custody' /\ ReceiptInv'
    BY <1>1, <1>3, StillStep DEF Still
  <2>2. run' \in Run /\ RunInv' /\ FileInv'
    BY <1>1, <1>3, Leaving, IdleInv
  <2>3. SourceTypes'
    BY <1>1, <1>3, <2>2 DEF SourceInv, SourceTypes
  <2> QED BY <2>1, <2>2, <2>3 DEF SourceInv
<1>4. CASE Mint
  <2>0. clock \in Nat /\ (Of({"deliver"}) \/ clock <= state.pending.started + Delay)
    BY <1>1, Times DEF SourceInv, RunInv, FileInv, Reached, Of
  <2>1. Minted(TRUE, clock) /\ run' = [run EXCEPT !.at = "project", !.token = NextToken]
    BY <1>4 DEF Mint
  <2>2. /\ NextToken \in Token /\ token' \in [Token -> Minting] /\ shadowed' \subseteq Token
        /\ token'[NextToken].live /\ token'[NextToken].expires # 0
        /\ Custody' /\ ReceiptInv'
        /\ \A t \in Token \ shadowed' : Holds(t)' => t = NextToken /\ ~Of({"deliver"})
        /\ NextToken \in shadowed' \/ token'[NextToken].of = state'.intent
        /\ Of({"deliver"}) => NextToken \in shadowed'
    BY <1>1, <2>0, <2>1, Minting1
  <2>3. /\ run' \in Run /\ run'.at = "project" /\ run'.token = NextToken
        /\ run'.command = run.command
    BY <2>1, <2>2, Sizes DEF SourceInv, SourceTypes, Run
  <2>4. RunInv' /\ FileInv'
    BY <1>1, <2>2, <2>3 DEF SourceInv, RunInv, FileInv, Reached, Of, Working, Uncertain
  <2>5. SourceTypes'
    BY <1>1, <2>2, <2>3 DEF SourceInv, SourceTypes
  <2> QED BY <2>2, <2>4, <2>5 DEF SourceInv
<1> QED BY <1>2, <1>3, <1>4 DEF MintFails

\* The token is projected, or revoked as far as that succeeds.
LEMMA ProjectSteps ==
  ASSUME SourceInv, Project \/ ProjectFails
  PROVE  SourceInv'
<1>1. /\ Reached("project") /\ file = 0 /\ run.token \in Token /\ token[run.token].live
      /\ token[run.token].expires # 0 /\ Of({"issue", "renew", "deliver"})
      /\ \A t \in Token \ shadowed : Holds(t) => t = run.token /\ ~Of({"deliver"})
      /\ run.token \in shadowed \/ token[run.token].of = state.intent
      /\ Of({"deliver"}) => run.token \in shadowed
      /\ UNCHANGED <<clock, state, former, suspended, register, shadowed>>
      /\ spent' \in [requests : Nat, faults : Nat]
  BY DEF Project, ProjectFails, SourceInv, SourceTypes, RunInv, FileInv, Reached, Fault
<1>2. CASE Project
  <2>1. file' = run.token /\ UNCHANGED token
    BY <1>2 DEF Project
  <2>2. \A t \in Token \ shadowed' : Holds(t)' => t = file' /\ token'[t].of = state'.intent
    <3> SUFFICES ASSUME NEW t \in Token \ shadowed', Holds(t)'
                 PROVE  t = run.token /\ token[t].of = state.intent
      BY <1>1, <2>1
    <3>1. t = run.token \/ Holds(t)
      BY <1>1, <2>1 DEF Holds, Works, Lingers
    <3>2. t = run.token
      BY <1>1, <3>1
    <3> QED BY <1>1, <3>2
  <2>3. Custody' /\ ReceiptInv'
    <3>1. \A c \in state.done : c.action # "revoke" \/ Of({"deliver"})
      BY <1>1 DEF SourceInv, ReceiptInv, RunInv, Reached, Working, Of
    <3>2. Of({"deliver"}) => Dead'
      BY <1>1, <2>1, <2>2 DEF Dead
    <3> QED BY <1>1, <2>2, <3>1, <3>2 DEF SourceInv, Custody, ReceiptInv
  <2>4. \/ run' \in Run /\ run'.at = "idle"
        \/ RunAt("finish") /\ Of({"issue", "renew"}) /\ ~Of({"revoke"})
    BY <1>1, <1>2, Going, Leaving DEF Project, Of
  <2>5. SourceTypes'
    BY <1>1, <2>1, <2>4 DEF SourceInv, SourceTypes, RunAt, Unminted
  <2>6. RunInv' /\ FileInv'
    <3>1. CASE run'.at = "idle"
      BY <1>1, <2>1, <3>1, IdleInv
    <3>2. CASE RunAt("finish") /\ Of({"issue", "renew"}) /\ ~Of({"revoke"})
      BY <1>1, <2>1, <3>2, Sizes DEF SourceInv, RunInv, FileInv, Reached, Of, Working, RunAt
    <3> QED BY <2>4, <3>1, <3>2
  <2> QED BY <2>3, <2>5, <2>6 DEF SourceInv
<1>3. CASE ProjectFails
  <2>1. PICK b \in BOOLEAN : token' = [token EXCEPT ![run.token].live = b]
    BY <1>3 DEF ProjectFails
  <2>2. UNCHANGED file /\ run' \in Run /\ run'.at = "idle"
    BY <1>3, Leaving DEF ProjectFails
  <2>3. Fades /\ token' \in [Token -> Minting]
    BY <1>1, <2>1, <2>2, Stopping
  <2>4. Custody' /\ ReceiptInv'
    BY <1>1, <2>2, <2>3, StoppingInv
  <2>5. SourceTypes' /\ RunInv' /\ FileInv'
    BY <1>1, <2>2, <2>3, IdleInv DEF SourceInv, SourceTypes
  <2> QED BY <2>4, <2>5 DEF SourceInv
<1> QED BY <1>2, <1>3

\* The receipt is written.
LEMMA SettleStep ==
  ASSUME SourceInv, Settle
  PROVE  SourceInv'
<1>1. /\ Reached("finish") /\ Of({"issue", "renew", "revoke"})
      /\ run.command \in Commands /\ run.command.intent = state.intent
      /\ UNCHANGED <<clock, token, file, former, suspended, register, shadowed, spent>>
      /\ Of({"revoke"}) <=> state.phase = "revoked"
      /\ IF Of({"revoke"}) THEN Dead ELSE file # 0
  <2>1. /\ Of({"issue", "renew", "revoke"})
        /\ run.command \in Commands \cup Maintenance \cup {Nothing.command}
    BY DEF Settle, SourceInv, SourceTypes, RunInv, Run
  <2>2. run.command \in Commands
    BY <2>1 DEF Of, Commands, Maintenance, Nothing
  <2> QED BY <2>1, <2>2 DEF Settle, SourceInv, RunInv, FileInv, Reached, Of, Working
<1>2. /\ state' = [state EXCEPT !.phase = IF Of({"revoke"}) THEN "revoked" ELSE "issued",
                                !.pending = Nothing, !.done = state.done \cup {run.command}]
      /\ run' \in Run /\ run'.at = "idle"
  BY Leaving DEF Settle
<1>3. Nothing \in PendingEffect /\ state \in State /\ state.done \subseteq Commands
  BY DEF Nothing, PendingEffect, SourceInv, SourceTypes, State
<1>4. /\ state' \in State /\ state'.intent = state.intent
      /\ state'.phase = IF Of({"revoke"}) THEN "revoked" ELSE "issued"
      /\ state'.pending = Nothing /\ state'.done = state.done \cup {run.command}
  BY <1>1, <1>2, <1>3 DEF State
<1>5. Fades /\ state.intent # 0
  BY <1>1, Fading DEF Commands, Intents
<1>6. \A t \in Token \ shadowed : Holds(t) => token[t].of = state.intent /\ t = file
  BY <1>1 DEF SourceInv, Custody, Lost, Dead
<1>7. Custody'
  BY <1>1, <1>4, <1>5, <1>6, FadingDead DEF Custody, Fades
<1>8. ReceiptInv'
  <2>1. CASE Of({"revoke"})
    BY <1>1, <1>4, <1>5, <2>1, FadingDead DEF SourceInv, ReceiptInv
  <2>2. CASE ~Of({"revoke"})
    <3>1. \A c \in state'.done : c.action # "revoke"
      BY <1>1, <1>4, <2>2 DEF SourceInv, ReceiptInv, Of
    <3> QED BY <1>1, <1>4, <1>5, <3>1 DEF SourceInv, ReceiptInv
  <2> QED BY <2>1, <2>2
<1>9. SourceTypes'
  BY <1>1, <1>2, <1>4 DEF SourceInv, SourceTypes
<1>10. RunInv' /\ FileInv'
  <2>1. file' # 0 => token'[file'].expires # 0
    BY <1>1 DEF SourceInv, FileInv
  <2> QED BY <1>2, <2>1, IdleInv
<1> QED BY <1>7, <1>8, <1>9, <1>10 DEF SourceInv

-----------------------------------------------------------------------------
(* Source credentials: what holds of every run.                            *)

\* A unit without intent, projection and token.
LEMMA SourceStarts == SourceInit => SourceInv
<1> SUFFICES ASSUME SourceInit PROVE SourceInv
  OBVIOUS
<1>1. Nothing \in PendingEffect /\ NoRun \in Run /\ NoRun.at = "idle"
  BY DEF Nothing, PendingEffect, NoRun, Run
<1>2. NoState \in State /\ NoState.pending = Nothing /\ NoState.done = {} /\ NoState.intent = 0
  BY <1>1 DEF NoState, State
<1>3. Unminted \in Minting /\ ~Unminted.live
  BY DEF Unminted, Minting
<1>4. SourceTypes
  BY <1>1, <1>2, <1>3 DEF SourceInit, SourceTypes
<1>5. Custody /\ ReceiptInv
  BY <1>2, <1>3 DEF SourceInit, Custody, ReceiptInv, Holds, Works
<1>6. RunInv /\ FileInv
  BY <1>1 DEF SourceInit, RunInv, FileInv, Reached, Working
<1> QED BY <1>4, <1>5, <1>6 DEF SourceInv

\* Nothing happens.
LEMMA Unchanged ==
  ASSUME SourceInv, UNCHANGED sourceVars
  PROVE  SourceInv'
BY DEF sourceVars, SourceInv, SourceTypes, Custody, ReceiptInv, RunInv, FileInv, Dead, Lost,
       Holds, Works, Lingers, Reached, Of, Uncertain

\* The tokens of a unit, its state and its projection, and how far the command
\* that holds the lock has come, fit together at every step.
THEOREM SourceInvariant == SourceSpec => []SourceInv
<1>1. SourceInv /\ [SourceNext]_sourceVars => SourceInv'
  BY QuietSteps, TombstoneStep, PrepareStep, RetireSteps, UnlinkStep, AnnounceStep, MintSteps,
     ProjectSteps, SettleStep, Unchanged DEF SourceNext, SourceStep
<1> QED BY <1>1, SourceStarts, PTL DEF SourceSpec

\* When the revoke of an intent has its receipt no token of that intent works, now or
\* later, whatever answers were lost and commands killed before, but a lost one for as
\* long as its mint was under way (the window of operate).
THEOREM RevokedStaysDead == SourceSpec => []RevokedIsDead
<1>1. SourceInv => RevokedIsDead
  <2> SUFFICES ASSUME SourceInv, NEW c \in state.done \cup former, c.action = "revoke",
                      NEW t \in Token \ shadowed, Holds(t)
               PROVE  token[t].of # c.intent
    BY DEF RevokedIsDead, Holds
  <2>1. token[t].of = state.intent
    BY DEF SourceInv, Custody
  <2>2. c \notin state.done
    BY DEF SourceInv, ReceiptInv, Dead
  <2>3. c.intent < state.intent /\ c.intent \in Nat /\ state.intent \in Nat
    BY <2>2 DEF SourceInv, ReceiptInv, SourceTypes, State, Commands, Intents
  <2> QED BY <2>1, <2>3
<1> QED BY <1>1, SourceInvariant, PTL

\* Of two tokens of the unit that work one was lost and lingers.
THEOREM OneTokenWorks == SourceSpec => []TokensAreSound
<1>1. SourceInv => TokensAreSound
  <2> SUFFICES ASSUME SourceInv PROVE OneToken
    BY DEF TokensAreSound, SourceInv
  <2> DEFINE S == {t \in Token \ shadowed : Works(t) /\ ~Lingers(t)}
  <2>1. \A t, u \in S : t = u
    BY DEF SourceInv, Custody, Holds
  <2>2. CASE S = {}
    BY <2>2, FS_EmptySet DEF OneToken
  <2>3. CASE S # {}
    <3>1. PICK t : S = {t}
      BY <2>1, <2>3
    <3>2. Cardinality(S) = 1
      BY <3>1, FS_Singleton
    <3> QED BY <3>2 DEF OneToken
  <2> QED BY <2>2, <2>3
<1> QED BY <1>1, SourceInvariant, PTL

=============================================================================
