----------------------------- MODULE AgentSource -----------------------------
(***************************************************************************)
(* Source credentials of one Landing Unit: the approved intents the        *)
(* operation provider executes (agent_source_intent.py) and the            *)
(* maintenance commands of an engineer (agent_source_identity.py).  Both   *)
(* mint tokens at GitHub, keep one of them in the unit's projection, and   *)
(* take the projection lock, so that one command runs at a time; a command *)
(* may fail, lose an answer or be killed at every call.                    *)
(***************************************************************************)
EXTENDS Naturals, FiniteSets

CONSTANTS Tokens,    \* tokens GitHub may mint
          Time,      \* ticks of the clock
          Lifetime,  \* ticks a token lives
          Delay,     \* ticks from the announcement of a mint until GitHub has it
          Rotate,    \* it is renewed when no more than this is left
          Expiry,    \* tick at which the approval of an intent ends
          Requests,  \* commands that are started
          Faults     \* failures, lost answers, kills and changes of the register

ASSUME AgentSourceAssumption ==
  /\ {Tokens, Time, Lifetime, Delay, Rotate, Expiry, Requests, Faults} \subseteq Nat
  /\ Rotate < Lifetime /\ Delay < Lifetime

VARIABLES
  clock,
  token,      \* what became of each token at GitHub
  file,       \* token in the unit's projection, 0 when there is none
  state,      \* the unit's intent state
  former,     \* commands of a superseded intent that have a receipt
  suspended,  \* the suspension file exists
  register,   \* entry of the unit's repository in the reviewed inventory
  run,        \* the command that holds the projection lock
  shadowed,   \* tokens that a maintenance command put out of the intents' sight
  spent

sourceVars == <<clock, token, file, state, former, suspended, register, run, shadowed, spent>>

\* Intent 2 supersedes intent 1.  The receipts are kept by command identity.
Intents == 1 .. 2
Commands == [action : {"issue", "renew", "revoke"}, intent : Intents]
Maintenance == [action : {"deliver"}, intent : 0 .. 2] \cup
               [action : {"withdraw", "suspend", "resume"}, intent : {0}]

Token == 1 .. Tokens
Minting == [of : 0 .. 2, expires : Nat, live : BOOLEAN]
Unminted == [of |-> 0, expires |-> 0, live |-> FALSE]
Nothing == [stage |-> "none", command |-> [action |-> "none", intent |-> 0],
            prior |-> 0, started |-> 0]
PendingEffect == [stage : {"none", "preparing", "issuing"},
                  command : Commands \cup {Nothing.command}, prior : Nat, started : Nat]
State == [intent : 0 .. 2, phase : {"none", "approved", "issued", "revoked"},
          pending : PendingEffect, done : SUBSET Commands]
NoState == [intent |-> 0, phase |-> "none", pending |-> Nothing, done |-> {}]
Run == [command : Commands \cup Maintenance \cup {Nothing.command},
        at : {"idle", "admission", "entry", "maintenance", "preflight", "retire", "unlink",
              "announce", "mint", "project", "finish"},
        under : Nat, token : Nat]
NoRun == [command |-> Nothing.command, at |-> "idle", under |-> 0, token |-> 0]

SourceInit ==
  /\ clock = 0 /\ file = 0 /\ state = NoState /\ former = {} /\ suspended = FALSE
  /\ register = [version |-> 1, active |-> TRUE]
  /\ token = [t \in Token |-> Unminted]
  /\ run = NoRun /\ shadowed = {}
  /\ spent = [requests |-> 0, faults |-> 0]

Works(t) == token[t].live /\ clock < token[t].expires
Left(t) == IF t = 0 \/ clock >= token[t].expires THEN 0 ELSE token[t].expires - clock

\* The projection is missing or due for rotation.
Due == Left(file) <= Rotate

Fault == /\ spent.faults < Faults
         /\ spent' = [spent EXCEPT !.faults = @ + 1]

Reached(step) == run.at = step
Go(step) == run' = [run EXCEPT !.at = step]
Leave == run' = NoRun
Of(actions) == run.command.action \in actions

(***************************************************************************)
(* A command is authenticated and admitted before it takes the lock; what  *)
(* it finds under the lock decides what it does.                           *)
(***************************************************************************)
Submit ==
  /\ Reached("idle")
  /\ spent.requests < Requests
  /\ spent' = [spent EXCEPT !.requests = @ + 1]
  /\ \E c \in Commands \cup Maintenance :
       run' = [NoRun EXCEPT !.command = c, !.at = "admission"]
  /\ UNCHANGED <<clock, token, file, state, former, suspended, register, shadowed>>

\* What ends a credential needs no admission: it works for a retired owner too.
Stops == Of({"revoke", "withdraw", "suspend"})

\* The committed inventory has the repository among its active owners.
Listed == register.active

\* A command that was admitted waits for the lock.
GoIn ==
  /\ Reached("admission")
  /\ Stops \/ Listed
  /\ run' = [run EXCEPT !.under = register.version,
                        !.at = IF run.command \in Commands THEN "entry" ELSE "maintenance"]
  /\ UNCHANGED <<clock, token, file, state, former, suspended, register, shadowed, spent>>

\* The repository is not admitted, or the inventory cannot be read as the
\* current reviewed one.
TurnAway ==
  /\ Reached("admission") /\ ~Stops
  /\ Leave
  /\ UNCHANGED <<clock, token, file, state, former, suspended, register, shadowed, spent>>

\* Immediately before the mint the admission is read again: an intent may go on
\* under a later inventory that still has the repository, maintenance may not.
StillAdmitted == Listed /\ (Of({"deliver"}) => register.version = run.under)

\* The exact successor of a revoked intent that left nothing.
Succeeds(i) ==
  /\ state.intent = 1 /\ i = 2
  /\ state.phase = "revoked" /\ state.pending = Nothing /\ file = 0
  /\ Of({"issue", "revoke"})

\* The successor starts afresh.
Opened(i) ==
  IF state.intent = i THEN state
  ELSE [NoState EXCEPT !.intent = i, !.phase = "approved"]

\* A first intent has no predecessor; nothing is borrowed from the projection.
Bound(i) ==
  /\ state.intent = i \/ (state.intent = 0 /\ i = 1 /\ ~Of({"renew"}) /\ file = 0) \/ Succeeds(i)
  /\ file # 0 => token[file].of = i

\* The receipt of a command that was executed is returned again.
Recorded(c) == c \in former \/ c \in state.done

\* A pending operation that did not reach the mint is forgotten.
Uncertain(s) == s.pending.stage = "issuing"

\* A mint whose outcome is not known may have left a token.
Window(s) == Uncertain(s) /\ clock < s.pending.started + Lifetime

\* The projection shows that the mint went through.
Projected(s) == file # 0 /\ token[file].expires # s.pending.prior

\* A recovered operation keeps its pending entry until it is recorded.
Resumed(s) == Uncertain(s) /\ Projected(s)

\* The command that lost its answer mints again at once.
PermittedAtOnce(s) ==
  /\ s.phase # "revoked" /\ clock < Expiry /\ ~suspended
  /\ Uncertain(s) => s.pending.command = run.command
  /\ (Of({"issue"}) /\ s.phase = "issued") => ~Due

\* A revoked or expired intent gets nothing, nor does any while issuance is
\* suspended.  An uncertain operation is first settled by the command itself:
\* its token shows, or is past its life.  Only a renewal rotates.
Permitted(s) ==
  /\ s.phase # "revoked" /\ clock < Expiry /\ ~suspended
  /\ Uncertain(s) => /\ s.pending.command = run.command
                     /\ Projected(s) \/ ~Window(s)
  /\ (Of({"issue"}) /\ s.phase = "issued") => ~Due

\* Nothing changes: a receipt is returned, or the command is refused.
Refuse ==
  /\ Reached("entry")
  /\ LET i == run.command.intent IN
       \/ Recorded(run.command) \/ ~Bound(i)
       \/ (~Of({"revoke"}) /\ ~Permitted(Opened(i)))
  /\ Leave
  /\ UNCHANGED <<clock, token, file, state, former, suspended, register, shadowed, spent>>

\* The superseded state goes to the history before the new one is written.
Superseded(i) == IF state.intent # i THEN former \cup state.done ELSE former

Accepted ==
  LET i == run.command.intent IN
  Reached("entry") /\ ~Recorded(run.command) /\ Bound(i)

\* The pending entry that a command takes over.
Carried(s) == IF Uncertain(s) THEN s ELSE [s EXCEPT !.pending = Nothing]

\* A revoke waits for no mint.
Unwaited(s) == FALSE

\* While a token that nobody can name may live, a revoke has to be repeated.
Outstanding(s) == file = 0 /\ Window(s)

\* The intent is closed on disk before its token goes.
Close ==
  /\ Accepted /\ Of({"revoke"})
  /\ LET i == run.command.intent
         s == Carried(Opened(i))
     IN /\ state' = [s EXCEPT !.phase = "revoked"]
        /\ former' = Superseded(i)
        /\ IF Outstanding(s) THEN Leave ELSE Go(IF file # 0 THEN "retire" ELSE "finish")
  /\ UNCHANGED <<clock, token, file, suspended, register, shadowed, spent>>

\* What is projected and not due is the answer, as is the projection of the
\* operation that lost its own.
Keep ==
  /\ Accepted /\ ~Of({"revoke"})
  /\ LET s == Opened(run.command.intent) IN Permitted(s) /\ (~Due \/ Resumed(s))
  /\ Go("finish")
  /\ UNCHANGED <<clock, token, file, state, former, suspended, register, shadowed, spent>>

Prepare ==
  /\ Accepted /\ ~Of({"revoke"})
  /\ LET i == run.command.intent
         s == Opened(i)
     IN /\ Permitted(s) /\ Due /\ ~Resumed(s)
        /\ state' = [s EXCEPT !.pending = [stage |-> "preparing", command |-> run.command,
              prior |-> IF file = 0 THEN 0 ELSE token[file].expires, started |-> clock]]
        /\ former' = Superseded(i)
  /\ Go("preflight")
  /\ UNCHANGED <<clock, token, file, suspended, register, shadowed, spent>>

(***************************************************************************)
(* The issuer's transaction, shared by intents and maintenance.            *)
(***************************************************************************)
\* The private key is read from Vault and the App is verified.
Preflight ==
  /\ Reached("preflight")
  /\ Go(IF file # 0 THEN "retire" ELSE "announce")
  /\ UNCHANGED <<clock, token, file, state, former, suspended, register, shadowed, spent>>

\* The token in the projection is revoked first; one that GitHub does not know
\* any more is as good as revoked.
Retire ==
  /\ Reached("retire")
  /\ token' = [token EXCEPT ![file].live = FALSE]
  /\ Go("unlink")
  /\ UNCHANGED <<clock, file, state, former, suspended, register, shadowed, spent>>

RetireFails ==
  /\ Reached("retire")
  /\ Fault
  /\ \E live \in BOOLEAN : token' = [token EXCEPT ![file].live = @ /\ live]
  /\ Leave
  /\ UNCHANGED <<clock, file, state, former, suspended, register, shadowed>>

Unlink ==
  /\ Reached("unlink")
  /\ file' = 0
  /\ IF Of({"withdraw", "suspend"}) THEN Leave
     ELSE Go(IF Of({"revoke"}) THEN "finish" ELSE "announce")
  /\ UNCHANGED <<clock, token, state, former, suspended, register, shadowed, spent>>

\* Immediately before the mint of an intent it is on disk that one may follow,
\* unless the approval or the admission has ended meanwhile.
Announce ==
  /\ Reached("announce")
  /\ IF ~StillAdmitted \/ (~Of({"deliver"}) /\ clock >= Expiry) THEN Leave /\ UNCHANGED state
     ELSE /\ Go("mint")
          /\ IF Of({"deliver"}) THEN UNCHANGED state
             ELSE state' = [state EXCEPT !.pending.stage = "issuing",
                                         !.pending.started = clock]
  /\ UNCHANGED <<clock, token, file, former, suspended, register, shadowed, spent>>

NextToken == CHOOSE t \in Token : token[t] = Unminted

\* When GitHub has a request whose command gives up: now, or while it is under way.
Arrivals == IF Of({"deliver"}) THEN {clock} ELSE clock .. state.pending.started + Delay

\* A token lives from its mint, not from the announcement.
Minted(live, at) ==
  /\ \E t \in Token : token[t] = Unminted
  /\ token' = [token EXCEPT ![NextToken] = [of |-> run.command.intent, live |-> live,
                                           expires |-> at + Lifetime]]
  /\ shadowed' = IF Of({"deliver"}) THEN shadowed \cup {t \in Token : Works(t)} \cup {NextToken}
                 ELSE shadowed

Mint ==
  /\ Reached("mint")
  /\ Minted(TRUE, clock)
  /\ run' = [run EXCEPT !.at = "project", !.token = NextToken]
  /\ UNCHANGED <<clock, file, state, former, suspended, register, spent>>

\* The answer is lost, or the token is not what was asked for and is revoked,
\* as far as that succeeds.
MintFails ==
  /\ Reached("mint")
  /\ Fault
  /\ \/ \E live \in BOOLEAN, at \in Arrivals : Minted(live, at)
     \/ UNCHANGED <<token, register, shadowed>>
  /\ Leave
  /\ UNCHANGED <<clock, file, state, former, suspended, register>>

Project ==
  /\ Reached("project")
  /\ file' = run.token
  /\ IF Of({"deliver"}) THEN Leave ELSE Go("finish")
  /\ UNCHANGED <<clock, token, state, former, suspended, register, shadowed, spent>>

\* A token that cannot be projected is revoked.
ProjectFails ==
  /\ Reached("project")
  /\ Fault
  /\ \E live \in BOOLEAN : token' = [token EXCEPT ![run.token].live = live]
  /\ Leave
  /\ UNCHANGED <<clock, file, state, former, suspended, register, shadowed>>

Settle ==
  /\ Reached("finish")
  /\ state' = [state EXCEPT !.phase = IF Of({"revoke"}) THEN "revoked" ELSE "issued",
                            !.pending = Nothing, !.done = @ \cup {run.command}]
  /\ Leave
  /\ UNCHANGED <<clock, token, file, former, suspended, register, shadowed, spent>>

(***************************************************************************)
(* Maintenance by an engineer.                                             *)
(***************************************************************************)
Refused == \/ suspended
           \/ (file # 0 /\ token[file].of # run.command.intent)

Deliver ==
  /\ Reached("maintenance") /\ Of({"deliver"})
  /\ IF Refused THEN Leave ELSE Go("preflight")
  /\ UNCHANGED <<clock, token, file, state, former, suspended, register, shadowed, spent>>

Withdraw ==
  /\ Reached("maintenance") /\ Of({"withdraw"})
  /\ IF file = 0 THEN Leave ELSE Go("retire")
  /\ UNCHANGED <<clock, token, file, state, former, suspended, register, shadowed, spent>>

Suspend ==
  /\ Reached("maintenance") /\ Of({"suspend"})
  /\ suspended' = TRUE
  /\ IF file = 0 THEN Leave ELSE Go("retire")
  /\ UNCHANGED <<clock, token, file, state, former, register, shadowed, spent>>

\* A commissioning that verified every repository lets issuance go on.
Resume ==
  /\ Reached("maintenance") /\ Of({"resume"})
  /\ suspended' = FALSE
  /\ Leave
  /\ UNCHANGED <<clock, token, file, state, former, register, shadowed, spent>>

(***************************************************************************)
(* Kills and time.  A request to mint is no longer under way than Delay.   *)
(***************************************************************************)
Killed ==
  /\ ~Reached("idle")
  /\ Fault
  /\ Leave
  /\ UNCHANGED <<clock, token, file, state, former, suspended, register, shadowed>>

\* The inventory gets a new revision, with or without the repository.
Reviewed ==
  /\ register.active
  /\ Fault
  /\ \E active \in BOOLEAN :
       register' = [version |-> register.version + 1, active |-> active]
  /\ UNCHANGED <<clock, token, file, state, former, suspended, run, shadowed>>

Tick ==
  /\ Reached("mint") /\ ~Of({"deliver"}) => clock < state.pending.started + Delay
  /\ clock < Time
  /\ clock' = clock + 1
  /\ UNCHANGED <<token, file, state, former, suspended, register, run, shadowed, spent>>

SourceStep == \/ GoIn \/ TurnAway \/ Refuse \/ Close \/ Keep \/ Prepare
              \/ Preflight \/ Retire \/ Unlink \/ Announce \/ Mint \/ Project \/ Settle
              \/ Deliver \/ Withdraw \/ Suspend \/ Resume

SourceNext == \/ Submit \/ SourceStep \/ RetireFails \/ MintFails \/ ProjectFails
              \/ Killed \/ Reviewed \/ Tick

SourceSpec == SourceInit /\ [][SourceNext]_sourceVars

(***************************************************************************)
(* Properties.                                                             *)
(***************************************************************************)
\* Types, and what belongs together: receipts and the pending entry are those
\* of the intent on disk.
SourceTypes ==
  /\ clock \in Nat /\ file \in Token \cup {0} /\ suspended \in BOOLEAN
  /\ register \in [version : Nat, active : BOOLEAN]
  /\ token \in [Token -> Minting] /\ state \in State /\ run \in Run
  /\ \A c \in state.done : c.intent = state.intent
  /\ state.pending # Nothing => state.pending.command.intent = state.intent
  /\ former \subseteq Commands /\ shadowed \subseteq Token
  /\ spent \in [requests : Nat, faults : Nat]
  /\ file # 0 => token[file] # Unminted

\* A token that is nowhere and works no longer than a request to mint is under way.
Lingers(t) == t # file /\ token[t].expires <= clock + Delay

\* When a revoke has its receipt, no token of the intent works, now or later, but
\* one whose answer was lost, for its last moments, whatever commands were killed
\* before; tokens that a maintenance delivery minted, or hid while it replaced them,
\* are excepted.
RevokedIsDead ==
  \A c \in state.done \cup former :
    c.action = "revoke" =>
      \A t \in Token \ shadowed : Works(t) /\ token[t].of = c.intent => Lingers(t)

\* Never two tokens of the unit work, whether one rotates, a command repeats what
\* lost its answer, or a successor is issued, but a lost one in its last moments.
OneToken == Cardinality({t \in Token \ shadowed : Works(t) /\ ~Lingers(t)}) <= 1

\* The tokens of a unit are accounted for.
TokensAreSound == SourceTypes /\ OneToken
=============================================================================
