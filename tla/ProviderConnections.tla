------------------------ MODULE ProviderConnections ------------------------
(***************************************************************************)
(* One named API connection of the AI gateway: the file that keeps its      *)
(* state and its operations, the Vault entry that keeps its key, and its    *)
(* reference in the model configuration.                                    *)
(*                                                                         *)
(*   command    changes the connection; it holds the lock of the connection *)
(*              and the lock of the file, and saves before every effect;    *)
(*   reconcile  finishes a credential operation whose answer was lost; it   *)
(*              holds the lock of the file only;                            *)
(*   use        holds the lock of the connection while a key is used;       *)
(*   admission  registers the connection as a backend, or restores a        *)
(*              revision that has it; it holds the lock of the connection.  *)
(*                                                                         *)
(* Vault applies a write only if it names the current version.  A write may *)
(* be lost, lose its answer, or arrive after the server gave it up.  The    *)
(* server may die at any point.                                            *)
(***************************************************************************)
EXTENDS Integers, FiniteSets

CONSTANTS
  Op,           \* identities of the operator's commands
  Key,          \* keys
  MaxRevision,  \* bound: revisions of the model configuration
  None

ASSUME ConnectionAssumption ==
  /\ IsFiniteSet(Op) /\ None \notin Op
  /\ None \notin Key
  /\ MaxRevision \in Nat /\ None \notin Nat

VARIABLES
  item,       \* the connection as the file has it, or None
  ops,        \* the operations as the file has them
  vault,      \* the current version of the entry, who wrote it and its key
  late,       \* writes that Vault may still receive
  config,     \* the reference and the models of the connection in the configuration
  past,       \* the configurations of all revisions
  revision,   \* of the configuration
  committed,  \* the revision at which the configuration took the removal of an operation
  call,       \* the command or reconciliation that holds the lock of the file
  use,        \* the use of a key
  admission   \* the configuration being admitted, or None

conf == <<config, past, revision, committed>>
vars == <<item, ops, vault, late, conf, call, use, admission>>

-----------------------------------------------------------------------------
Action == {"credentials", "disconnect", "reconnect", "remove"}
Generation == [version : Nat, op : Op]
Configuration == [registered : BOOLEAN, used : BOOLEAN]
Write == [cas : Nat, op : Op, key : Key \cup {None}]
Entry == [version : Nat, op : Op \cup {None}, key : Key \cup {None}]
Connection == [state : {"active", "disconnected", "removing", "removed"},
               generation : Generation \cup {None}, pending : Op \cup {None}]
Operation == [action : Action, state : {"pending", "finished", "cancelled"},
              previous : Nat \cup {None}]
Step == {"idle", "read", "write", "read again", "backend", "fence", "tombstone", "recover",
         "finish"}
Call == [at : Step, op : Op \cup {None}, key : Key \cup {None}, version : Nat \cup {None}]
Use == [at : {"idle", "read", "using"}, generation : Generation \cup {None}]

ASSUME NoneAssumption ==
  None \notin Connection \cup Operation \cup Generation \cup Configuration

TypeOK ==
  /\ item \in Connection \cup {None}
  /\ ops \in [Op -> Operation \cup {None}]
  /\ vault \in Entry
  /\ late \subseteq Write
  /\ config \in Configuration /\ past \subseteq Configuration
  /\ revision \in 0 .. MaxRevision /\ committed \in [Op -> Nat \cup {None}]
  /\ call \in Call
  /\ use \in Use
  /\ admission \in Configuration \cup {None}

Idle == [at |-> "idle", op |-> None, key |-> None, version |-> None]
Unused == [at |-> "idle", generation |-> None]
Absent == [registered |-> FALSE, used |-> FALSE]

Init ==
  /\ item = None /\ ops = [c \in Op |-> None]
  /\ vault = [version |-> 0, op |-> None, key |-> None] /\ late = {}
  /\ config = Absent /\ past = {Absent} /\ revision = 0
  /\ committed = [c \in Op |-> None]
  /\ call = Idle /\ use = Unused /\ admission = None

-----------------------------------------------------------------------------
(* Commands.                                                               *)

Create ==
  /\ item = None /\ call = Idle
  /\ item' = [state |-> "active", generation |-> None, pending |-> None]
  /\ UNCHANGED <<ops, vault, late, conf, call, use, admission>>

ConnectionFree == use = Unused /\ admission = None

\* A command holds both locks; it is new, or its original is still pending.
Admitted(c, action) ==
  /\ call = Idle /\ ConnectionFree
  /\ item # None
  /\ ops[c] # None => ops[c].action = action /\ ops[c].state = "pending"

Pending(c, action) == [action |-> action, state |-> "pending", previous |-> None]
Does(step, c) == call' = [Idle EXCEPT !.at = step, !.op = c]
Goes(step) == call' = [call EXCEPT !.at = step]

\* A retirement fences a pending credential operation.
NoneCancelled(c, action) == [ops EXCEPT ![c] = Pending(c, action)]
PriorCancelled(c, action) ==
  [o \in Op |-> IF o = c THEN Pending(c, action)
                ELSE IF o = item.pending THEN [ops[o] EXCEPT !.state = "cancelled"]
                ELSE ops[o]]

MayRetire(c) ==
  /\ item.state # "removed"
  /\ item.pending \notin {None, c} => ops[item.pending].action = "credentials"

Disconnect(c) ==
  /\ Admitted(c, "disconnect") /\ MayRetire(c)
  /\ item' = [item EXCEPT !.state = "disconnected", !.pending = c]
  /\ ops' = PriorCancelled(c, "disconnect")
  /\ Does("fence", c)
  /\ UNCHANGED <<vault, late, conf, use, admission>>

\* The revision that is read here must still be current for the removal of the backend.
Remove(c) ==
  /\ Admitted(c, "remove") /\ MayRetire(c)
  /\ ~config.used
  /\ item' = [item EXCEPT !.state = "removing", !.pending = c]
  /\ ops' = PriorCancelled(c, "remove")
  /\ IF config.registered
     THEN call' = [Idle EXCEPT !.at = "backend", !.op = c, !.version = revision]
     ELSE Does("fence", c)
  /\ UNCHANGED <<vault, late, conf, use, admission>>

Reconnect(c) ==
  /\ Admitted(c, "reconnect")
  /\ ops[c] = None
  /\ item.state # "removed" /\ item.pending = None
  /\ item' = [item EXCEPT !.state = "active"]
  /\ ops' = [ops EXCEPT ![c] = [Pending(c, "reconnect") EXCEPT !.state = "finished"]]
  /\ UNCHANGED <<vault, late, conf, call, use, admission>>

Credentials(c, k) ==
  /\ Admitted(c, "credentials")
  /\ item.state = "active" /\ item.pending \in {None, c}
  /\ item' = [item EXCEPT !.pending = c]
  /\ ops' = [ops EXCEPT ![c] = IF @ = None THEN Pending(c, "credentials") ELSE @]
  /\ call' = [Idle EXCEPT !.at = "read", !.op = c, !.key = k]
  /\ UNCHANGED <<vault, late, conf, use, admission>>

Reconcile(c) ==
  /\ call = Idle
  /\ ops[c] # None
  /\ ops[c].action = "credentials" /\ ops[c].state = "pending"
  /\ Does("recover", c)
  /\ UNCHANGED <<item, ops, vault, late, conf, use, admission>>

-----------------------------------------------------------------------------
(* The configuration.                                                      *)

Configures(new) ==
  /\ revision < MaxRevision
  /\ config' = new
  /\ past' = past \cup {new}
  /\ revision' = revision + 1

\* A removal whose identity was committed at another revision is a conflict,
\* and so is a revision that is not current.
BackendRemoved ==
  /\ call.at = "backend"
  /\ committed[call.op] = None /\ call.version = revision
  /\ Configures(Absent)
  /\ committed' = [committed EXCEPT ![call.op] = revision]
  /\ call' = [call EXCEPT !.at = "fence", !.version = None]
  /\ UNCHANGED <<item, ops, vault, late, use, admission>>

BackendConflict ==
  /\ call.at = "backend"
  /\ committed[call.op] # None \/ call.version # revision
  /\ call' = Idle
  /\ UNCHANGED <<item, ops, vault, late, conf, use, admission>>

\* The connection is registered as a backend, or a revision that has it is
\* restored: its lock is held from the check to the write.
Admit(new) ==
  /\ call = Idle /\ ConnectionFree
  /\ item # None /\ item.state # "removed"
  /\ new \in past \cup {[config EXCEPT !.registered = TRUE]}
  /\ new.registered
  /\ admission' = new
  /\ UNCHANGED <<item, ops, vault, late, conf, call, use>>

AdmissionEnds ==
  /\ admission # None
  /\ admission' = None
  /\ Configures(admission) \/ UNCHANGED <<config, past, revision>>
  /\ UNCHANGED <<item, ops, vault, late, committed, call, use>>

\* Changes that introduce no backend: a model of a registered one, the removal
\* of a model or of a backend without models, an older revision without either.
ConfigurationMoves ==
  /\ \E new \in Configuration :
       /\ new # config
       /\ new.registered => config.registered
       /\ new.used => new.registered
       /\ Configures(new)
  /\ UNCHANGED <<item, ops, vault, late, committed, call, use, admission>>

-----------------------------------------------------------------------------
(* Vault.                                                                  *)

After(w) == [version |-> w.cas + 1, op |-> w.op, key |-> w.key]

\* The answer is kept, or lost; the write is refused, comes late, or never.
Writes(w, next) ==
  \/ /\ w.cas = vault.version
     /\ vault' = After(w)
     /\ Goes(next) \/ call' = Idle
     /\ UNCHANGED late
  \/ /\ late' \in {late, late \cup {w}}
     /\ call' = Idle
     /\ UNCHANGED vault

\* A write that names another version is refused whenever it comes.
Arrives(w) ==
  /\ w \in late
  /\ late' = late \ {w}
  /\ vault' = IF w.cas = vault.version THEN After(w) ELSE vault
  /\ UNCHANGED <<item, ops, conf, call, use, admission>>

\* A read that fails, or an entry that belongs to another operation or key.
CallFails ==
  /\ call.at \in {"read", "read again", "fence", "recover"}
  /\ call' = Idle
  /\ UNCHANGED <<item, ops, vault, late, conf, use, admission>>

IsOurs == vault.op = call.op /\ vault.key = call.key
Finds == call' = [call EXCEPT !.at = "finish", !.version = vault.version]

ReadKey ==
  /\ call.at = "read"
  /\ LET previous == ops[call.op].previous
     IN \/ IsOurs /\ Finds /\ UNCHANGED ops
        \/ /\ vault.op # call.op
           /\ previous \in {None, vault.version}
           /\ ops' = [ops EXCEPT ![call.op].previous = vault.version]
           /\ call' = [call EXCEPT !.at = "write", !.version = vault.version]
  /\ UNCHANGED <<item, vault, late, conf, use, admission>>

WriteKey ==
  /\ call.at = "write"
  /\ Writes([cas |-> call.version, op |-> call.op, key |-> call.key], "read again")
  /\ UNCHANGED <<item, ops, conf, use, admission>>

ReadAgain ==
  /\ call.at = "read again"
  /\ IsOurs /\ Finds
  /\ UNCHANGED <<item, ops, vault, late, conf, use, admission>>

Recovered == vault.op = call.op /\ vault.key # None

Recover ==
  /\ call.at = "recover"
  /\ Recovered /\ Finds
  /\ UNCHANGED <<item, ops, vault, late, conf, use, admission>>

\* The tombstone of the operation is there already, or it is written now: it
\* moves the version on, so that no write of a key can arrive any more.
Fenced == vault.op = call.op /\ vault.key = None

Fence ==
  /\ call.at = "fence"
  /\ IF Fenced THEN Goes("finish")
     ELSE call' = [call EXCEPT !.at = "tombstone", !.version = vault.version]
  /\ UNCHANGED <<item, ops, vault, late, conf, use, admission>>

Tombstone ==
  /\ call.at = "tombstone"
  /\ Writes([cas |-> call.version, op |-> call.op, key |-> None], "finish")
  /\ UNCHANGED <<item, ops, conf, use, admission>>

Finish ==
  /\ call.at = "finish"
  /\ LET action == ops[call.op].action
     IN item' = [item EXCEPT
          !.pending = None,
          !.state = IF action = "remove" THEN "removed" ELSE @,
          !.generation = IF action = "credentials"
                         THEN [version |-> call.version, op |-> call.op] ELSE None]
  /\ ops' = [ops EXCEPT ![call.op].state = "finished"]
  /\ call' = Idle
  /\ UNCHANGED <<vault, late, conf, use, admission>>

-----------------------------------------------------------------------------
(* Use.                                                                    *)

UseBegins ==
  /\ call = Idle /\ ConnectionFree
  /\ item # None
  /\ item.state = "active" /\ item.pending = None /\ item.generation # None
  /\ use' = [at |-> "read", generation |-> item.generation]
  /\ UNCHANGED <<item, ops, vault, late, conf, call, admission>>

IsCurrent(g) == g = [version |-> vault.version, op |-> vault.op] /\ vault.key # None

UseKey ==
  /\ use.at = "read"
  /\ IsCurrent(use.generation)
  /\ use' = [use EXCEPT !.at = "using"]
  /\ UNCHANGED <<item, ops, vault, late, conf, call, admission>>

UseEnds ==
  /\ use # Unused
  /\ use' = Unused
  /\ UNCHANGED <<item, ops, vault, late, conf, call, admission>>

\* The server dies with everything it does.
Crash ==
  /\ <<call, use, admission>> # <<Idle, Unused, None>>
  /\ call' = Idle /\ use' = Unused /\ admission' = None
  /\ UNCHANGED <<item, ops, vault, late, conf>>

Next ==
  \/ Create
  \/ \E c \in Op : \/ Disconnect(c) \/ Remove(c) \/ Reconnect(c) \/ Reconcile(c)
                   \/ \E k \in Key : Credentials(c, k)
  \/ BackendRemoved \/ BackendConflict
  \/ \E new \in Configuration : Admit(new)
  \/ AdmissionEnds \/ ConfigurationMoves
  \/ \E w \in late : Arrives(w)
  \/ CallFails \/ ReadKey \/ WriteKey \/ ReadAgain \/ Recover
  \/ Fence \/ Tombstone \/ Finish
  \/ UseBegins \/ UseKey \/ UseEnds
  \/ Crash

Spec == Init /\ [][Next]_vars

-----------------------------------------------------------------------------
(* What the connections guarantee.                                         *)

\* After a finished disconnection or removal Vault has no key of the connection,
\* and no write that was given up before can bring one back.
FencedStaysFenced ==
  item # None /\ item.state \in {"disconnected", "removed"} /\ item.pending = None =>
    /\ vault.key = None
    /\ \A w \in late : w.key # None => w.cas # vault.version

\* A connection that is offered for use has the key that Vault has, however many
\* writes were lost, given up or reconciled: its use never fails on custody.
OfferedKeyIsCurrent ==
  item # None /\ item.state = "active" /\ item.pending = None /\ item.generation # None =>
    IsCurrent(item.generation) /\ \A w \in late : w.cas # vault.version

\* While a key is used it is not rotated, fenced or removed.
UsedKeyStays ==
  use.at = "using" => IsCurrent(use.generation) /\ item.generation = use.generation

\* No operation writes to Vault more than once, however often its write is given
\* up and tried again.
WrittenOnce == vault.version <= Cardinality(Op)

\* The key that the gateway offers or uses is the one in Vault.
KeyIsCurrent == TypeOK /\ WrittenOnce /\ OfferedKeyIsCurrent /\ UsedKeyStays

\* The configuration never refers to a connection that was removed.
NoOrphanReference ==
  item # None /\ item.state = "removed" => config = Absent /\ admission = None

\* An operation that was cancelled or finished stays so, and a removed connection
\* is never bound again.
Retired ==
  [][/\ \A c \in Op : ops[c] # None /\ ops[c].state # "pending" => ops'[c] = ops[c]
     /\ item # None /\ item.state = "removed" => item' = item]_vars
=============================================================================
