--------------------------- MODULE ReleaseDispatch ---------------------------
(***************************************************************************)
(* One release request of the Console, from its submission to its receipt.  *)
(*                                                                         *)
(*   provider  keeps the record of the request; every call holds the lock  *)
(*             of the record, works on a copy and writes it where the code *)
(*             does.  It dispatches the native GitHub workflow once, after *)
(*             a write-ahead marker, and otherwise only reads what came of *)
(*             it: the run, its source review, its branch, the desired     *)
(*             state;                                                      *)
(*   GitHub    starts the run, though the answer may be lost, lists it     *)
(*             later, and lets people merge, close and reopen the review   *)
(*             between two of the provider's readings.                     *)
(*                                                                         *)
(* The provider may die at any point and loses the copy only.              *)
(***************************************************************************)
EXTENDS Integers, FiniteSets

CONSTANTS
  Key,         \* the idempotency keys of cancellations
  MaxRuns,     \* bound: workflow runs that could be started
  MaxCrashes,  \* bound: crashes of the provider
  None         \* no record, run or receipt

ASSUME DispatchAssumption ==
  /\ MaxRuns \in Nat
  /\ MaxCrashes \in Nat
  /\ None \notin Nat

Run == 1 .. MaxRuns

VARIABLES
  record,   \* the record on disk, or None
  call,     \* the call that holds the lock: its step, its copy, what it read
  run,      \* the runs of the workflow that carry the request
  listed,   \* the runs that a listing shows
  review,   \* the pull request of the branch of the run
  branch,   \* the branch of the run exists
  desired,  \* main has the desired state of the request
  crashes

github == <<run, listed, review, branch, desired>>
vars == <<record, call, github, crashes>>

-----------------------------------------------------------------------------
Terminal == {"succeeded", "failed", "cancelled"}
Conclusion == {"success", "failure", "cancelled"}

Receipt == [outcome : Terminal, effect : {"verified", "partial", "none"}]

Record ==
  [state : {"queued", "running", "blocked"} \cup Terminal,
   phase : {"prepared", "dispatching", "uncertain", "queued", "awaiting-review",
            "applied", "no-change", "failed", "cancelled"},
   run_id : Run \cup {None}, cancel_available : BOOLEAN, controls : SUBSET Key,
   receipt : Receipt \cup {None}]

ASSUME NoneAssumption == None \notin Receipt /\ None \notin Record

Step == {"idle", "dispatch", "post", "answered", "run", "reviews", "effect", "branch", "main", "cancel"}

\* Merged as the run wrote it, or edited before.
Merged == {"merged", "merged otherwise"}

TypeOK ==
  /\ record \in Record \cup {None}
  /\ call \in [at : Step, copy : Record \cup {None}, key : Key \cup {None},
               conclusion : Conclusion \cup {None}]
  /\ run \in [Run -> {"unborn", "active"} \cup Conclusion]
  /\ listed \in SUBSET Run
  /\ review \in {"none", "hidden", "open", "closed"} \cup Merged
  /\ branch \in BOOLEAN /\ desired \in BOOLEAN
  /\ crashes \in Nat

Idle == [at |-> "idle", copy |-> None, key |-> None, conclusion |-> None]

Prepared ==
  [state |-> "queued", phase |-> "prepared", run_id |-> None,
   cancel_available |-> FALSE, controls |-> {}, receipt |-> None]

Init ==
  /\ record = None /\ call = Idle
  /\ run = [r \in Run |-> "unborn"] /\ listed = {}
  /\ review = "none" /\ branch = FALSE /\ desired \in BOOLEAN
  /\ crashes = 0

-----------------------------------------------------------------------------
(* The calls.                                                              *)

Goes(step) == call' = [call EXCEPT !.at = step]
GoesWith(step, rec) == call' = [call EXCEPT !.at = step, !.copy = rec]

\* The record is written and the call ends.
Returns(rec) == record' = rec /\ call' = Idle

\* A terminal record with its receipt.
Ended(rec, state, phase, effect) ==
  [rec EXCEPT !.state = state, !.phase = phase, !.cancel_available = FALSE,
              !.receipt = [outcome |-> state, effect |-> effect]]

Blocked(rec) == [rec EXCEPT !.state = "blocked", !.cancel_available = FALSE]

\* A reading failed: the record is blocked with all that the copy has learnt.
\* A cancellation that fails is answered as it is, or reconciles once more.
Unavailable ==
  \/ Returns(Blocked(call.copy))
  \/ /\ call.key # None
     /\ \/ call' = Idle
        \/ call' = [call EXCEPT !.at = "run", !.key = None]
     /\ UNCHANGED record

Rejected ==
  /\ record = None /\ call = Idle
  /\ record' = Ended(Prepared, "failed", "failed", "none")
  /\ UNCHANGED <<call, github, crashes>>

Submit ==
  /\ record = None /\ call = Idle
  /\ record' = Prepared
  /\ call' = [Idle EXCEPT !.at = "dispatch", !.copy = Prepared]
  /\ UNCHANGED <<github, crashes>>

\* A request that was dispatched is only reconciled, with or without its run.
Entry(rec) == IF rec.phase = "prepared" THEN "dispatch" ELSE "run"

AnyState == TRUE
Open == record.state \notin Terminal

\* A replay of the command only reads the record.
Read ==
  /\ record # None /\ call = Idle
  /\ Open
  /\ call' = [Idle EXCEPT !.at = Entry(record), !.copy = record]
  /\ UNCHANGED <<record, github, crashes>>

\* A cancellation reconciles first; one of a request that was not dispatched
\* has no time to search from and fails.
Cancel(k) ==
  /\ record # None /\ call = Idle
  /\ Open
  /\ record.phase # "prepared"
  /\ call' = [Idle EXCEPT !.at = "run", !.copy = record, !.key = k]
  /\ UNCHANGED <<record, github, crashes>>

\* The source or the protection changed, or they cannot be read now.
Refused ==
  /\ call.at = "dispatch"
  /\ \/ Returns(Ended(call.copy, "failed", "failed", "none"))
     \/ Unavailable
  /\ UNCHANGED <<github, crashes>>

Marked(rec) == [rec EXCEPT !.phase = "dispatching", !.state = "queued"]

\* The marker is on disk before the dispatch is posted.
MarkerKept(rec) == record' = record
MarkerWritten(rec) == record' = rec

Mark ==
  /\ call.at = "dispatch"
  /\ MarkerWritten(Marked(call.copy)) /\ GoesWith("post", Marked(call.copy))
  /\ UNCHANGED <<github, crashes>>

Starts(r) ==
  /\ run[r] = "unborn" /\ \A q \in 1 .. r - 1 : run[q] # "unborn"
  /\ run' = [run EXCEPT ![r] = "active"]

\* The answer names the run, or it is lost or names no run.
Numbered(rec, id) ==
  [rec EXCEPT !.phase = IF id # None THEN "queued" ELSE "uncertain", !.run_id = id]

PostAccepted ==
  /\ call.at = "post"
  /\ \E r \in Run :
       /\ Starts(r)
       /\ \E id \in {r, None} : GoesWith("answered", Numbered(call.copy, id))
  /\ UNCHANGED <<record, listed, review, branch, desired, crashes>>

\* A refusal that GitHub gives before it starts anything.
PostRefused ==
  /\ call.at = "post"
  /\ GoesWith("answered", Ended(call.copy, "failed", "failed", "none"))
  /\ UNCHANGED <<record, github, crashes>>

\* The post, or a server error in its place, reaches nobody.
LostIsUncertain(rec) == [rec EXCEPT !.phase = "uncertain"]

PostLost ==
  /\ call.at = "post"
  /\ GoesWith("answered", LostIsUncertain(call.copy))
  /\ \/ UNCHANGED run
     \/ \E r \in Run : Starts(r)
  /\ UNCHANGED <<record, listed, review, branch, desired, crashes>>

\* What the answer says is written after the post; a refusal ends the call.
Answered ==
  /\ call.at = "answered"
  /\ record' = call.copy
  /\ IF call.copy.receipt # None THEN call' = Idle ELSE Goes("run")
  /\ UNCHANGED <<github, crashes>>

\* The run is read by its number, or looked for in the listing.
OnlyNumbered == IF call.copy.run_id # None THEN {call.copy.run_id} ELSE {}
Known == IF call.copy.run_id # None THEN {call.copy.run_id} ELSE listed

NotFound(rec) == [rec EXCEPT !.state = "blocked", !.phase = "uncertain", !.cancel_available = FALSE]

RunUnknown ==
  /\ call.at = "run"
  /\ Known = {}
  /\ Returns(NotFound(call.copy))
  /\ UNCHANGED <<github, crashes>>

\* More than one run, or any reading that fails at any step.
ReadFails ==
  /\ call.at \in {"run", "reviews", "effect", "branch", "main"}
  /\ Unavailable
  /\ UNCHANGED <<github, crashes>>

\* A control key that was accepted before posts nothing.
NewKey(k) == k \notin call.copy.controls

Seen(rec, r, state) ==
  [rec EXCEPT !.run_id = r, !.phase = "queued", !.state = state, !.cancel_available = TRUE]
Controlled(rec, k) == [rec EXCEPT !.controls = @ \cup {k}]

RunActive(r) ==
  /\ call.at = "run"
  /\ Known = {r} /\ run[r] = "active"
  /\ \E state \in {"queued", "running"} :
       LET seen == Seen(call.copy, r, state)
       IN IF call.key = None \/ ~NewKey(call.key)
          THEN Returns(seen)
          ELSE LET kept == Controlled(seen, call.key)
               IN record' = kept /\ GoesWith("cancel", kept)
  /\ UNCHANGED <<github, crashes>>

\* The cancellation reaches GitHub or not, where a run may end so at any time;
\* the request is reconciled again.
PostCancel ==
  /\ call.at = "cancel"
  /\ Goes("run")
  /\ UNCHANGED <<record, github, crashes>>

Completed(rec, r) == [rec EXCEPT !.run_id = r, !.cancel_available = FALSE]

RunCompleted(r) ==
  /\ call.at = "run"
  /\ Known = {r} /\ run[r] \in Conclusion
  /\ call' = [call EXCEPT !.at = "reviews", !.conclusion = run[r],
                !.copy = Completed(call.copy, r)]
  /\ UNCHANGED <<record, github, crashes>>

InReview(rec) == [rec EXCEPT !.state = "running", !.phase = "awaiting-review"]

\* What comes of the run: its review, its branch, or the desired state as it was.
Reviews ==
  /\ call.at = "reviews"
  /\ \/ review \in {"none", "hidden"} /\ Goes("branch") /\ UNCHANGED record
     \/ review = "open"
        /\ Returns(InReview(call.copy))
     \/ review = "closed" /\ Returns(Ended(call.copy, "failed", "failed", "partial"))
     \/ review \in Merged /\ Goes("effect") /\ UNCHANGED record
  /\ UNCHANGED <<github, crashes>>

EffectAssumed == TRUE
EffectProven == review = "merged"

Effect ==
  /\ call.at = "effect"
  /\ EffectProven
  /\ Returns(Ended(call.copy, "succeeded", "applied", "verified"))
  /\ UNCHANGED <<github, crashes>>

Waiting(rec) == [rec EXCEPT !.state = "blocked", !.phase = "awaiting-review"]

Branch ==
  /\ call.at = "branch"
  /\ \/ branch /\ Returns(Waiting(call.copy))
     \/ ~branch /\ call.conclusion = "success" /\ Goes("main") /\ UNCHANGED record
     \/ ~branch /\ call.conclusion = "failure"
        /\ Returns(Ended(call.copy, "failed", "failed", "partial"))
     \/ ~branch /\ call.conclusion = "cancelled"
        /\ Returns(Ended(call.copy, "cancelled", "cancelled", "partial"))
  /\ UNCHANGED <<github, crashes>>

Main ==
  /\ call.at = "main"
  /\ \/ desired /\ Returns(Ended(call.copy, "succeeded", "no-change", "none"))
     \/ ~desired /\ Returns(Waiting(call.copy))
  /\ UNCHANGED <<github, crashes>>

Crash ==
  /\ call # Idle
  /\ crashes < MaxCrashes
  /\ crashes' = crashes + 1
  /\ call' = Idle
  /\ UNCHANGED <<record, github>>

-----------------------------------------------------------------------------
(* GitHub and the people who work there.                                       *)

Listed(r) ==
  /\ run[r] # "unborn"
  /\ listed' = listed \cup {r}
  /\ UNCHANGED <<record, call, run, review, branch, desired, crashes>>

\* A successful run proposes a change or finds none to be needed; another may
\* have got as far as a branch or a review.
RunEnds(r) ==
  /\ run[r] = "active"
  /\ \E conclusion \in Conclusion :
       /\ run' = [run EXCEPT ![r] = conclusion]
       /\ \/ branch' = TRUE /\ review' \in {"hidden", "open"}
          \/ conclusion # "success" /\ branch' = TRUE /\ UNCHANGED review
          \/ (conclusion = "success" => desired) /\ UNCHANGED <<branch, review>>
  /\ UNCHANGED <<record, call, listed, desired, crashes>>

\* A review is shown by the listing, opened from a branch that was retained,
\* closed, opened again or merged, which may delete the branch.
ReviewMoves ==
  /\ \/ review = "hidden" /\ review' = "open" /\ UNCHANGED <<branch, desired>>
     \/ review \in {"none", "closed"} /\ branch /\ review' = "open"
        /\ UNCHANGED <<branch, desired>>
     \/ review = "open" /\ review' = "closed" /\ branch' \in BOOLEAN /\ UNCHANGED desired
     \/ review = "open" /\ review' \in Merged /\ branch' \in BOOLEAN
        /\ desired' = (review' = "merged")
  /\ UNCHANGED <<record, call, run, listed, crashes>>

\* Other work on main.
MainMoves ==
  /\ desired' = ~desired
  /\ UNCHANGED <<record, call, run, listed, review, branch, crashes>>

-----------------------------------------------------------------------------
CallStep ==
  \/ Refused \/ Mark \/ PostAccepted \/ PostRefused \/ PostLost \/ Answered
  \/ RunUnknown \/ ReadFails \/ PostCancel
  \/ \E r \in Run : RunActive(r) \/ RunCompleted(r)
  \/ Reviews \/ Effect \/ Branch \/ Main

Next ==
  \/ Rejected \/ Submit \/ Read
  \/ \E k \in Key : Cancel(k)
  \/ CallStep \/ Crash
  \/ \E r \in Run : Listed(r) \/ RunEnds(r)
  \/ ReviewMoves \/ MainMoves

Spec == Init /\ [][Next]_vars

\* The Console polls the request until it is terminal, and a call that goes on
\* reaches its end.  That GitHub answers the readings now and then, and lists a
\* run in the end, is assumed of GitHub.
Fairness ==
  /\ WF_vars(Read) /\ WF_vars(CallStep)
  /\ \A r \in Run : SF_vars(RunCompleted(r)) /\ WF_vars(Listed(r))
  /\ SF_vars(Reviews) /\ SF_vars(Effect)

FairSpec == Spec /\ Fairness

-----------------------------------------------------------------------------
(* What the dispatch guarantees.                                               *)

Started == {r \in Run : run[r] # "unborn"}

\* However often it is read, cancelled, refused or lost, and wherever the
\* provider dies, a request starts one run at most.
AtMostOneRun == Cardinality(Started) <= 1

\* A request that failed without effect has started no run at all.
NoEffectIsTrue ==
  record # None =>
    (record.receipt = [outcome |-> "failed", effect |-> "none"] => Started = {})

\* A request is applied only if its review was merged as the run wrote it, and
\* needs no change only if its run succeeded.
SuccessIsReal ==
  record # None =>
    /\ record.phase = "applied" => review = "merged"
    /\ record.phase = "no-change" => run[record.run_id] = "success"

\* Whatever a receipt says is so: a failure without effect, an applied change
\* and an unneeded one.
ReceiptIsTrue == TypeOK /\ NoEffectIsTrue /\ SuccessIsReal

\* A receipt is final, although the review may be opened again or merged, runs
\* end and calls go on after it; and a run once bound to the record stays so.
ReceiptIsFinal ==
  [][record # None =>
       /\ record.receipt # None => record' = record
       /\ record.run_id # None => record'.run_id = record.run_id]_vars

\* A change that was merged as the run wrote it is found, over lost answers and
\* failing readings, unless a receipt was given before.
MergeIsFound ==
  review = "merged" ~> (record # None /\ record.receipt # None)
=============================================================================
