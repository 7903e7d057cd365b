---------------------------- MODULE CodexAccount ----------------------------
(***************************************************************************)
(* The dedicated account of the AI gateway's native backend: its entry in  *)
(* Vault (provider_accounts.py), the sign-in that fills it                 *)
(* (model_login.py), and the invocations and probes that use and refresh   *)
(* it (codex_adapter.py, model_management.py), each invocation under the   *)
(* journal that lets it run once (task_routing.py).                        *)
(*                                                                         *)
(* The file lock of the account and the process slot are both taken without*)
(* waiting, in different orders.  Vault applies a write only if it names   *)
(* the current version; a write may lose its answer, be lost, or arrive    *)
(* after the server gave it up.  The server may die at any point.          *)
(***************************************************************************)
EXTENDS Naturals, Sequences

CONSTANTS Login,         \* identities of sign-in commands
          Request,       \* identities of invocations
          MaxRefreshes,  \* bound: refreshed accounts
          MaxFaults      \* bound: deaths of the server and failures of its disk

ASSUME AccountAssumption ==
  /\ Login \cap {"none", "refresh"} = {} /\ Request \cap {"free", "signIn", "probe"} = {}
  /\ MaxRefreshes \in Nat /\ MaxFaults \in Nat

VARIABLES
  account,     \* the entry in Vault: its version, and the sign-in it is from
  drifting,    \* writes that were given up and may still arrive
  persisted,   \* the sign-ins that were ever in Vault
  projection,  \* who holds the lock of the account, and the entry it has read
  slot,        \* who has the process slot
  login,       \* the record of each sign-in
  signIn,      \* the sign-in that is active in the server
  cancelling,  \* the sign-in a cancellation has read, before it locks it again
  journal,     \* the record of each invocation: pending, or its outcome
  handler,     \* the request that works on it
  turns,       \* turns that were submitted for it, anywhere
  probe,       \* the catalogue or health check that uses the account
  tried

accountVars == <<account, drifting, persisted, projection, slot, login, signIn, cancelling,
                 journal, handler, turns, probe, tried>>
custody == <<account, drifting, persisted>>
signIns == <<login, signIn, cancelling>>
invocations == <<journal, handler, turns>>

Terminal == {"connected", "cancelled", "failed", "interrupted"}
Outcome == {"suggestion", "unknown", "failed", "no fallback"}
Route == {<<"codex", "other">>, <<"other", "codex">>}

Account == [version : Nat, login : Login \cup {"none"}]
Drift == [cas : Nat, login : Login, by : Login \cup {"refresh"}]
Holder == {"free", "signIn", "probe"} \cup Request
Projection == [by : Holder, entry : Account]
LoginState == Terminal \cup {"none", "starting", "waiting", "cancel-requested"}
SignIn == [login : Login \cup {"none"}, cancel : BOOLEAN,
           at : {"idle", "stuck", "starting", "slot", "projected", "waiting", "persisted",
                 "failing", "closing"}]
Handler == [at : {"idle", "next", "projected", "ready", "submitted", "completed", "other",
                  "answer"},
            todo : Seq({"codex", "other"}), outcome : Outcome \cup {"none"}]

NoEntry == [version |-> 0, login |-> "none"]
Unlocked == [by |-> "free", entry |-> NoEntry]
Inactive == [login |-> "none", at |-> "idle", cancel |-> FALSE]
Waiting == [at |-> "idle", todo |-> << >>, outcome |-> "none"]

AccountInit ==
  /\ account = NoEntry /\ drifting = {} /\ persisted = {}
  /\ projection = Unlocked /\ slot = "free"
  /\ login = [l \in Login |-> "none"] /\ signIn = Inactive /\ cancelling = "none"
  /\ journal = [i \in Request |-> "none"] /\ handler = [i \in Request |-> Waiting]
  /\ turns = [i \in Request |-> 0] /\ probe = "idle"
  /\ tried = [refreshes |-> 0, faults |-> 0]

-----------------------------------------------------------------------------
(* The account.                                                            *)

Broken == /\ tried.faults < MaxFaults
          /\ tried' = [tried EXCEPT !.faults = @ + 1]

Lock(who) == projection.by = "free" /\ projection' = [by |-> who, entry |-> account]
Unlock(who) == projection' = IF projection.by = who THEN Unlocked ELSE projection
FreeSlot(who) == slot' = IF slot = who THEN "free" ELSE slot
Release(who) == Unlock(who) /\ FreeSlot(who)

Expected(w) == w.cas = account.version

Takes(w) ==
  /\ account' = [version |-> account.version + 1, login |-> w.login]
  /\ persisted' = persisted \cup ({w.by} \cap Login)

\* The write is applied, with or without its answer; or it is refused or lost,
\* and may still arrive.
Persist(w, done, failed) ==
  \/ Expected(w) /\ Takes(w) /\ (done \/ failed) /\ UNCHANGED drifting
  \/ failed /\ drifting' \in {drifting, drifting \cup {w}} /\ UNCHANGED <<account, persisted>>

Drifts(w) ==
  /\ w \in drifting /\ drifting' = drifting \ {w}
  /\ IF Expected(w) THEN Takes(w) ELSE UNCHANGED <<account, persisted>>
  /\ UNCHANGED <<projection, slot, signIns, invocations, probe, tried>>

\* The session ended with another state of the same account.
Refresh(done, failed) ==
  /\ projection.entry.login # "none" /\ tried.refreshes < MaxRefreshes
  /\ tried' = [tried EXCEPT !.refreshes = @ + 1]
  /\ Persist([cas |-> projection.entry.version, login |-> projection.entry.login,
              by |-> "refresh"], done, failed)

Unrefreshed == UNCHANGED <<custody, tried>>

-----------------------------------------------------------------------------
(* Sign-in.                                                                *)

Begun(l, at) == signIn' = [login |-> l, at |-> at, cancel |-> FALSE]
Steps(at) == signIn' = [signIn EXCEPT !.at = at]
Records(state) == login' = [login EXCEPT ![signIn.login] = state]
KeepLogin == UNCHANGED <<login, cancelling>>

\* The active sign-in is noted before its record is written; when the record
\* cannot be written no thread starts, and the note stays.
StartLogin(l) ==
  /\ login[l] = "none" /\ signIn = Inactive
  /\ \/ login' = [login EXCEPT ![l] = "starting"] /\ Begun(l, "starting") /\ UNCHANGED tried
     \/ Broken /\ Begun(l, "stuck") /\ UNCHANGED login
  /\ UNCHANGED <<custody, projection, slot, cancelling, invocations, probe>>

LoginTakesSlot ==
  /\ signIn.at = "starting"
  /\ IF slot = "free" THEN slot' = "signIn" /\ Steps("slot")
     ELSE Steps("failing") /\ UNCHANGED slot
  /\ KeepLogin
  /\ UNCHANGED <<custody, projection, invocations, probe, tried>>

LoginProjects ==
  /\ signIn.at = "slot"
  /\ \/ Lock("signIn") /\ Steps("projected")
     \/ Steps("failing") /\ UNCHANGED projection
  /\ KeepLogin
  /\ UNCHANGED <<custody, slot, invocations, probe, tried>>

\* A cancellation that came before keeps its state in the record.
Instructs ==
  /\ signIn.at = "projected"
  /\ Steps("waiting")
  /\ IF signIn.cancel THEN UNCHANGED login ELSE Records("waiting")
  /\ UNCHANGED <<custody, projection, slot, cancelling, invocations, probe, tried>>

\* The native login is refused, interrupted, expires, or ends without success.
LoginFails ==
  /\ signIn.at \in {"projected", "waiting"}
  /\ Steps("failing") /\ Unlock("signIn")
  /\ KeepLogin
  /\ UNCHANGED <<custody, slot, invocations, probe, tried>>

LoginCancels ==
  /\ signIn.at = "waiting" /\ signIn.cancel
  /\ Records("cancelled") /\ Steps("closing")
  /\ UNCHANGED <<custody, projection, slot, cancelling, invocations, probe, tried>>

\* The record is locked from the look at the cancellation to the last write.
LoginCompletes ==
  /\ signIn.at = "waiting" /\ ~signIn.cancel
  /\ Persist([cas |-> projection.entry.version, login |-> signIn.login, by |-> signIn.login],
             Steps("persisted") /\ UNCHANGED projection,
             Steps("failing") /\ Unlock("signIn"))
  /\ KeepLogin
  /\ UNCHANGED <<slot, invocations, probe, tried>>

RecordConnected ==
  /\ signIn.at = "persisted"
  /\ \/ Records("connected") /\ Steps("closing") /\ UNCHANGED <<projection, tried>>
     \/ Broken /\ Steps("failing") /\ Unlock("signIn") /\ UNCHANGED login
  /\ UNCHANGED <<custody, slot, cancelling, invocations, probe>>

RecordFailed ==
  /\ signIn.at = "failing"
  /\ \/ Records("failed") /\ UNCHANGED tried
     \/ Broken /\ UNCHANGED login
  /\ Steps("closing")
  /\ UNCHANGED <<custody, projection, slot, cancelling, invocations, probe>>

CloseLogin ==
  /\ signIn.at = "closing"
  /\ Release("signIn") /\ signIn' = Inactive
  /\ KeepLogin
  /\ UNCHANGED <<custody, invocations, probe, tried>>

Open(l) == login[l] # "none" /\ login[l] \notin Terminal
RecordFree(l) == ~(signIn.at = "persisted" /\ signIn.login = l)

AnyAccount(l) == account.login # "none"
CompletedLogin(l) == account.login = l

\* A reading of a sign-in that no thread works on settles it from Vault.
ReadLogin(l) ==
  /\ Open(l) /\ signIn.login # l
  /\ login' = [login EXCEPT ![l] = IF CompletedLogin(l) THEN "connected" ELSE "interrupted"]
  /\ UNCHANGED <<custody, projection, slot, signIn, cancelling, invocations, probe, tried>>

CancelReads(l) ==
  /\ cancelling = "none"
  /\ Open(l) /\ signIn.login = l /\ RecordFree(l)
  /\ cancelling' = l
  /\ UNCHANGED <<custody, projection, slot, login, signIn, invocations, probe, tried>>

OnceOpen == TRUE
StillOpen == Open(cancelling)

CancelWrites ==
  /\ cancelling # "none" /\ RecordFree(cancelling)
  /\ IF StillOpen
     THEN /\ login' = [login EXCEPT ![cancelling] = "cancel-requested"]
          /\ signIn' = [signIn EXCEPT !.cancel = @ \/ signIn.login = cancelling]
     ELSE UNCHANGED <<login, signIn>>
  /\ cancelling' = "none"
  /\ UNCHANGED <<custody, projection, slot, invocations, probe, tried>>

-----------------------------------------------------------------------------
(* Invocations.                                                            *)

At(i, at) == handler[i].at = at
Moves(i, at) == handler' = [handler EXCEPT ![i].at = at]
FallsBack(i) == handler' = [handler EXCEPT ![i].at = "next", ![i].todo = Tail(@)]
Ends(i, outcome) ==
  handler' = [handler EXCEPT ![i] = [@ EXCEPT !.at = "answer", !.outcome = outcome]]
Candidate(i, backend) ==
  At(i, "next") /\ handler[i].todo # << >> /\ Head(handler[i].todo) = backend

Unfinished(i) == journal[i] \in {"none", "pending"}
Fresh(i) == journal[i] = "none"

\* The journal entry is written before anything is sent.  Another request of
\* the same invocation finds the lock held, or is told that the completion is
\* unknown, or gets the result again.
Receive(i) ==
  /\ handler[i] = Waiting /\ Fresh(i)
  /\ journal' = [journal EXCEPT ![i] = "pending"]
  /\ \E route \in Route :
       handler' = [handler EXCEPT ![i] = [Waiting EXCEPT !.at = "next", !.todo = route]]
  /\ UNCHANGED <<custody, projection, slot, signIns, turns, probe, tried>>

\* Before a turn is submitted a backend that is busy or unavailable is passed
\* over, and one whose identity does not match ends the invocation.  So does a
\* local model that does not say in time which version and which models it has:
\* its completion counts as unknown, though nothing was asked of it.
PassOver(i) ==
  /\ At(i, "next") /\ handler[i].todo # << >>
  /\ \/ FallsBack(i)
     \/ Ends(i, "failed")
     \/ Candidate(i, "other") /\ Ends(i, "unknown")
  /\ UNCHANGED <<custody, projection, slot, signIns, journal, turns, probe, tried>>

Exhausted(i) ==
  /\ At(i, "next") /\ handler[i].todo = << >>
  /\ Ends(i, "no fallback")
  /\ UNCHANGED <<custody, projection, slot, signIns, journal, turns, probe, tried>>

ProjectAccount(i) ==
  /\ Candidate(i, "codex")
  /\ Lock(i) /\ account.login # "none"
  /\ Moves(i, "projected")
  /\ UNCHANGED <<custody, slot, signIns, journal, turns, probe, tried>>

TakeSlot(i) ==
  /\ At(i, "projected")
  /\ IF slot = "free" THEN slot' = i /\ Moves(i, "ready") /\ UNCHANGED projection
     ELSE Unlock(i) /\ FallsBack(i) /\ UNCHANGED slot
  /\ UNCHANGED <<custody, signIns, journal, turns, probe, tried>>

CodexUnavailable(i) ==
  /\ At(i, "ready")
  /\ FallsBack(i) \/ Ends(i, "failed")
  /\ Release(i)
  /\ UNCHANGED <<custody, signIns, journal, turns, probe, tried>>

Submitted(i) == turns' = [turns EXCEPT ![i] = @ + 1]

SubmitTurn(i) ==
  /\ At(i, "ready")
  /\ Submitted(i) /\ Moves(i, "submitted")
  /\ UNCHANGED <<custody, projection, slot, signIns, journal, probe, tried>>

LostTurn(i) == Ends(i, "unknown")

\* A turn that was submitted completes, is lost, or is not what was asked for.
TurnEnds(i) ==
  /\ At(i, "submitted")
  /\ \/ Moves(i, "completed") /\ UNCHANGED <<projection, slot>>
     \/ (LostTurn(i) \/ Ends(i, "failed")) /\ Release(i)
  /\ UNCHANGED <<custody, signIns, journal, turns, probe, tried>>

\* The refreshed account must be in custody before the answer counts.
SinkAccount(i) ==
  /\ At(i, "completed")
  /\ \/ Ends(i, "suggestion") /\ Unrefreshed
     \/ Refresh(Ends(i, "suggestion"), Ends(i, "failed"))
  /\ Release(i)
  /\ UNCHANGED <<signIns, journal, turns, probe>>

\* A local model or an API: the request is taken, and then answered, refused
\* as output, or lost.
SubmitOther(i) ==
  /\ Candidate(i, "other")
  /\ Submitted(i) /\ Moves(i, "other")
  /\ UNCHANGED <<custody, projection, slot, signIns, journal, probe, tried>>

OtherEnds(i) ==
  /\ At(i, "other")
  /\ Ends(i, "suggestion") \/ Ends(i, "failed") \/ LostTurn(i)
  /\ UNCHANGED <<custody, projection, slot, signIns, journal, turns, probe, tried>>

\* The audit or the journal may not take the answer: it stays pending.
Answer(i) ==
  /\ At(i, "answer")
  /\ \/ journal' = [journal EXCEPT ![i] = handler[i].outcome] /\ UNCHANGED tried
     \/ Broken /\ UNCHANGED journal
  /\ handler' = [handler EXCEPT ![i] = Waiting]
  /\ UNCHANGED <<custody, projection, slot, signIns, turns, probe>>

-----------------------------------------------------------------------------
(* Probes: a catalogue or health check takes the slot first.               *)

ProbeTakesSlot ==
  /\ probe = "idle" /\ slot = "free"
  /\ slot' = "probe" /\ probe' = "slot"
  /\ UNCHANGED <<custody, projection, signIns, invocations, tried>>

ProbeProjects ==
  /\ probe = "slot"
  /\ Lock("probe") /\ probe' = "projected"
  /\ UNCHANGED <<custody, slot, signIns, invocations, tried>>

ProbeEnds ==
  /\ probe # "idle"
  /\ \/ Unrefreshed
     \/ probe = "projected" /\ Refresh(TRUE, TRUE)
  /\ Release("probe") /\ probe' = "idle"
  /\ UNCHANGED <<signIns, invocations>>

-----------------------------------------------------------------------------
ServerDies ==
  /\ Broken
  /\ projection' = Unlocked /\ slot' = "free"
  /\ signIn' = Inactive /\ cancelling' = "none"
  /\ handler' = [i \in Request |-> Waiting] /\ probe' = "idle"
  /\ UNCHANGED <<custody, login, journal, turns>>

AccountNext ==
  \/ \E w \in drifting : Drifts(w)
  \/ \E l \in Login : StartLogin(l) \/ ReadLogin(l) \/ CancelReads(l)
  \/ CancelWrites
  \/ LoginTakesSlot \/ LoginProjects \/ Instructs \/ LoginFails \/ LoginCancels
  \/ LoginCompletes \/ RecordConnected \/ RecordFailed \/ CloseLogin
  \/ \E i \in Request :
       \/ Receive(i) \/ PassOver(i) \/ Exhausted(i) \/ ProjectAccount(i) \/ TakeSlot(i)
       \/ CodexUnavailable(i) \/ SubmitTurn(i) \/ TurnEnds(i) \/ SinkAccount(i)
       \/ SubmitOther(i) \/ OtherEnds(i) \/ Answer(i)
  \/ ProbeTakesSlot \/ ProbeProjects \/ ProbeEnds
  \/ ServerDies

-----------------------------------------------------------------------------
(* What the account and its users guarantee.                               *)

AccountTypeOK ==
  /\ account \in Account /\ drifting \subseteq Drift /\ persisted \subseteq Login
  /\ projection \in Projection /\ slot \in Holder
  /\ login \in [Login -> LoginState]
  /\ signIn \in SignIn /\ cancelling \in Login \cup {"none"}
  /\ journal \in [Request -> Outcome \cup {"none", "pending"}]
  /\ handler \in [Request -> Handler]
  /\ turns \in [Request -> Nat] /\ probe \in {"idle", "slot", "projected"}
  /\ tried \in [refreshes : Nat, faults : Nat]

\* A sign-in that says connected put its account into Vault, and one that says
\* cancelled did not and never will, whatever died or lost its answer between
\* Vault and the record.
SignInIsTrue ==
  \A l \in Login :
    /\ login[l] = "connected" => l \in persisted
    /\ login[l] = "cancelled" => l \notin persisted /\ \A w \in drifting : w.by # l

\* An invocation submits one turn at most, to whichever backend and however
\* often it is asked again; a suggestion was the answer to one, and none was
\* submitted when no fallback was left (task_routing.py:75, "These errors must
\* mean the backend did not submit a turn").  One that failed or whose
\* completion is unknown may have submitted it or not: after a turn no other
\* backend is tried.
InvokedOnce ==
  \A i \in Request :
    /\ turns[i] <= 1
    /\ journal[i] = "suggestion" => turns[i] = 1
    /\ journal[i] = "no fallback" => turns[i] = 0
    /\ turns[i] = 1 => handler[i].at \notin {"next", "projected", "ready"}

\* A refresh never puts back an account that a later sign-in replaced, however
\* late it arrives (provider_accounts.py:68, "no concurrent app-server can
\* silently overwrite a newer account state").
AccountMovesOn ==
  [][account'.login # account.login => account'.login \notin persisted]_accountVars

\* An ended sign-in and a finished invocation keep their answer.
AnswersAreFinal ==
  [][/\ \A l \in Login : login[l] \in Terminal => login'[l] = login[l]
     /\ \A i \in Request : journal[i] \in Outcome => journal'[i] = journal[i]]_accountVars
=============================================================================
