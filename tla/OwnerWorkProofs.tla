---------------------------- MODULE OwnerWorkProofs ----------------------------
(***************************************************************************)
(* Proofs about the two that share the owner guard of the Console: the     *)
(* operation provider of OwnerOperation, for any number of workers, any    *)
(* control keys and any number of crashes, and the repair of the image     *)
(* caches of ArtifactRecovery, for any images and any number of            *)
(* corruptions, kills and restarts.                                        *)
(***************************************************************************)
EXTENDS OwnerOperation, ArtifactRecovery, FiniteSetTheorems, TLAPS

(***************************************************************************)
(* The operation provider.                                                 *)
(***************************************************************************)
-----------------------------------------------------------------------------
(* The invariant.                                                          *)

\* The workers that may still run an owner command, or have one at work.
Busy == {w \in Worker : Alive(w) \/ child[w] = "running"}

\* The worker that the record counts on.
Own ==
  {w \in Busy : Alive(w) /\ record # None /\ record.state \in Active /\ record.worker = w}

Stray == Busy \ Own

\* Every other busy worker is the doing of a crash.
StrayInv == Cardinality(Stray) <= crashes

\* No worker precedes the record.
UnbornInv == record = None => \A w \in Worker : process[w] = "unborn"

\* A worker that was not started has no command.
ChildInv ==
  \A w \in Worker :
    process[w] \in {"unborn", "waiting", "deferring"} => child[w] = "none"

\* Without a crash a worker executes the attempt of the record.
AttemptInv ==
  crashes = 0 =>
    \A w \in Worker : process[w] = "executing" => attempt[w] = record.attempt

\* The repair has the guard for itself.
GuardInv ==
  repair # "none" => \A w \in Worker : process[w] # "executing"

\* Each spawned worker was asked for.
SpawnInv == record # None => IsFiniteSet(record.controls) /\ WorkerPerControl

IInv ==
  TypeOK /\ StrayInv /\ UnbornInv /\ ChildInv /\ AttemptInv /\ GuardInv /\ SpawnInv /\ SuccessIsReal

-----------------------------------------------------------------------------
(* Records.                                                                *)

\* The record of a submission.
LEMMA New ==
  ASSUME TypeOK
  PROVE  NewRecord \in Record /\ NewRecord.state = "queued" /\ NewRecord.controls = {}
         /\ NewRecord.attempt = 1
BY DEF TypeOK, NewRecord, Record, Active, TERMINAL_STATES

\* A record is none, and none is not a worker.
LEMMA Existing ==
  ASSUME TypeOK, record # None
  PROVE  /\ record \in Record /\ record.worker \in Worker \cup {None}
         /\ record.attempt \in Nat /\ record.controls \in SUBSET Key
         /\ record.state \in TERMINAL_STATES \cup Active \cup {"blocked"}
BY DEF TypeOK, Record

\* A record gets its worker.
LEMMA WithWorker ==
  ASSUME NEW rec \in Record, NEW w \in Worker
  PROVE  LET new == [rec EXCEPT !.worker = w]
         IN new \in Record /\ new.worker = w /\ new.state = rec.state
            /\ new.attempt = rec.attempt /\ new.controls = rec.controls
BY DEF Record

\* A record that is deferred.
LEMMA Deferring ==
  ASSUME NEW rec \in Record
  PROVE  LET new == [rec EXCEPT !.state = "blocked", !.worker = None,
                       !.cancel_available = FALSE, !.retryable = TRUE]
         IN new \in Record /\ new.state = "blocked" /\ new.attempt = rec.attempt
            /\ new.controls = rec.controls
BY DEF Record

\* A record of a lost worker is blocked, any other is left as it is.
LEMMA Reconciling ==
  ASSUME TypeOK, record # None
  PROVE  /\ Reconciled \in Record
         /\ Reconciled.attempt = record.attempt /\ Reconciled.controls = record.controls
         /\ Lost => Reconciled.state = "blocked"
         /\ ~Lost => Reconciled = record
BY Deferring, Existing DEF Reconciled

\* A record is queued once more.
Requeued(rec, k, cancellable) ==
  [rec EXCEPT !.state = "queued", !.attempt = @ + 1, !.retryable = FALSE,
              !.receipt = None, !.worker = None, !.cancel_available = cancellable,
              !.controls = @ \cup {k}]

LEMMA Requeuing ==
  ASSUME NEW rec \in Record, NEW k \in Key, NEW cancellable \in BOOLEAN
  PROVE  LET new == Requeued(rec, k, cancellable)
         IN new \in Record /\ new.state = "queued" /\ new.attempt = rec.attempt + 1
            /\ new.controls = rec.controls \cup {k}
<1>1. rec.attempt + 1 \in Nat /\ rec.controls \cup {k} \in SUBSET Key
  BY DEF Record
<1>2. \A attempt1 \in Nat, controls1 \in SUBSET Key :
        [rec EXCEPT !.state = "queued", !.attempt = attempt1, !.retryable = FALSE,
           !.receipt = None, !.worker = None, !.cancel_available = cancellable,
           !.controls = controls1] \in Record
  BY DEF Record, Active
<1>3. Requeued(rec, k, cancellable) \in Record
  BY <1>1, <1>2 DEF Requeued
<1>4. LET new == Requeued(rec, k, cancellable)
      IN new.state = "queued" /\ new.attempt = rec.attempt + 1
         /\ new.controls = rec.controls \cup {k}
  BY DEF Record, Requeued
<1> QED BY <1>3, <1>4

\* A record that is rejected.
Rejected(rec, state, receipt) ==
  [rec EXCEPT !.state = state, !.cancel_available = FALSE, !.retryable = FALSE,
              !.receipt = receipt]

LEMMA Rejecting ==
  ASSUME NEW rec \in Record, NEW state \in TERMINAL_STATES, NEW receipt \in Receipt
  PROVE  LET new == Rejected(rec, state, receipt)
         IN new \in Record /\ new.state = state /\ new.attempt = rec.attempt
            /\ new.controls = rec.controls
BY DEF Record, Rejected

\* A record that is finished.
Finished(rec, state, failed, receipt) ==
  [rec EXCEPT !.state = state, !.cancel_available = FALSE, !.worker = None,
              !.retryable = failed, !.receipt = receipt]

LEMMA Finishing ==
  ASSUME NEW rec \in Record, NEW state \in TERMINAL_STATES, NEW failed \in BOOLEAN,
         NEW receipt \in Receipt
  PROVE  LET new == Finished(rec, state, failed, receipt)
         IN new \in Record /\ new.attempt = rec.attempt /\ new.controls = rec.controls
BY DEF Record, Finished

-----------------------------------------------------------------------------
(* Busy workers.                                                           *)

\* There are finitely many workers.
LEMMA FiniteWorkers ==
  ASSUME NEW S \in SUBSET Worker
  PROVE  IsFiniteSet(S) /\ Cardinality(S) \in Nat
<1>1. IsFiniteSet(Worker)
  BY OperationAssumption, FS_Interval DEF Worker
<1> QED BY <1>1, FS_Subset, FS_CardinalityType

\* Fewer workers count no more.
LEMMA Fewer ==
  ASSUME NEW S \in SUBSET Worker, NEW T \in SUBSET S
  PROVE  Cardinality(T) <= Cardinality(S)
BY FiniteWorkers, FS_Subset

\* One worker more counts one more.
LEMMA OneMore ==
  ASSUME NEW S \in SUBSET Worker, NEW w \in Worker, NEW T \in SUBSET (S \cup {w})
  PROVE  Cardinality(T) <= Cardinality(S) + 1
<1>1. Cardinality(S \cup {w}) <= Cardinality(S) + 1
  BY FiniteWorkers, FS_AddElement
<1>2. Cardinality(T) <= Cardinality(S \cup {w})
  BY Fewer
<1> QED BY <1>1, <1>2, FiniteWorkers

\* One worker less counts one less.
LEMMA OneLess ==
  ASSUME NEW S \in SUBSET Worker, NEW w \in S, NEW T \in SUBSET (S \ {w})
  PROVE  Cardinality(T) <= Cardinality(S) - 1
<1>1. Cardinality(S \ {w}) = Cardinality(S) - 1
  BY FiniteWorkers, FS_RemoveElement
<1>2. Cardinality(T) <= Cardinality(S \ {w})
  BY Fewer
<1> QED BY <1>1, <1>2, FiniteWorkers

\* The record counts on one worker at most, and on none unless it is active.
LEMMA OwnWorker ==
  ASSUME TypeOK
  PROVE  /\ Busy \in SUBSET Worker /\ Own \in SUBSET Busy /\ Stray \in SUBSET Worker
         /\ Cardinality(Busy) <= Cardinality(Stray) + 1
         /\ Own = {} => Stray = Busy
<1>1. Busy \in SUBSET Worker /\ Own \in SUBSET Busy /\ Stray \in SUBSET Worker
  BY DEF Busy, Own, Stray
<1>2. CASE Own = {}
  BY <1>1, <1>2, FiniteWorkers DEF Stray
<1>3. CASE Own # {}
  <2>1. PICK w \in Own : Own = {w}
    BY <1>3 DEF Own
  <2>2. Busy \in SUBSET (Stray \cup {w}) /\ w \in Worker
    BY <1>1, <2>1 DEF Stray
  <2> QED BY <1>1, <1>3, <2>2, OneMore
<1> QED BY <1>1, <1>2, <1>3

\* Without a crash no worker goes astray: the strays stay what they are, or a busy
\* worker ends and the record counts on whom it likes.
LEMMA NoMoreStrays ==
  ASSUME TypeOK, StrayInv, crashes' = crashes,
         \/ Stray' \in SUBSET Stray
         \/ \E w \in Busy : Busy' \in SUBSET (Busy \ {w})
  PROVE  StrayInv'
<1>1. crashes \in Nat /\ Stray \in SUBSET Worker /\ Busy \in SUBSET Worker
      /\ Cardinality(Stray) \in Nat /\ Cardinality(Busy) \in Nat
  BY OwnWorker, FiniteWorkers DEF TypeOK
<1>2. CASE Stray' \in SUBSET Stray
  <2>1. Cardinality(Stray') <= Cardinality(Stray)
    BY <1>1, <1>2, Fewer
  <2> QED BY <1>1, <1>2, <2>1, FiniteWorkers DEF StrayInv
<1>3. ASSUME NEW w \in Busy, Busy' \in SUBSET (Busy \ {w})
      PROVE  StrayInv'
  <2>1. Stray' \in SUBSET (Busy \ {w})
    BY <1>3 DEF Stray
  <2>2. Cardinality(Stray') <= Cardinality(Busy) - 1
    BY <1>1, <2>1, OneLess
  <2>3. Cardinality(Stray') \in Nat
    BY <1>1, <2>1, FiniteWorkers
  <2> QED BY <1>1, <2>2, <2>3, OwnWorker DEF StrayInv
<1> QED BY <1>2, <1>3

\* A crash accounts for one more.
LEMMA CrashStrays ==
  ASSUME TypeOK, StrayInv, crashes' = crashes + 1, NEW w \in Worker,
         Stray' \in SUBSET (Stray \cup {w})
  PROVE  StrayInv'
<1>1. Cardinality(Stray') <= Cardinality(Stray) + 1
  BY OwnWorker, OneMore
<1>2. Cardinality(Stray') \in Nat /\ Cardinality(Stray) \in Nat /\ crashes \in Nat
  BY OwnWorker, FiniteWorkers DEF TypeOK
<1> QED BY <1>1, <1>2 DEF StrayInv

\* A lost operation counts on nobody.
LEMMA LostOwn == ASSUME Lost PROVE Own = {}
<1>1. ASSUME NEW w \in Own PROVE FALSE
  BY NoneAssumption DEF Own, Busy, Lost, WorkerIsCurrent
<1> QED BY <1>1

\* A worker that exits.
LEMMA Exiting ==
  ASSUME TypeOK, NEW w \in Worker, process[w] # "unborn", Exit(w)
  PROVE  /\ process' \in [Worker -> Process] /\ process'[w] = "zombie"
         /\ \A v \in Worker \ {w} : process'[v] = process[v]
BY DEF TypeOK, Exit, Process

-----------------------------------------------------------------------------
(* Spawning.                                                               *)

\* Collecting the dead leaves the living.
LEMMA Reaping ==
  ASSUME TypeOK
  PROVE  /\ Reaped(process) \in [Worker -> Process]
         /\ \A w \in Worker :
              /\ process[w] # "zombie" => Reaped(process)[w] = process[w]
              /\ process[w] = "zombie" => Reaped(process)[w] = "gone"
BY DEF TypeOK, Reaped, Process

\* What a spawn does, when the record counted on nobody alive before.
LEMMA Spawning ==
  ASSUME TypeOK, StrayInv, ChildInv, Own = {}, NEW rec \in Record, rec.state = "queued",
         NEW w \in Worker, Fresh(w), SpawnWorker(rec, w), UNCHANGED child
  PROVE  /\ StrayInv' /\ ChildInv'
         /\ record' \in Record /\ record'.attempt = rec.attempt
         /\ record'.controls = rec.controls /\ record'.state = "queued"
         /\ process' \in [Worker -> Process]
         /\ crashes' \in Nat /\ crashes' >= crashes
         /\ \A v \in Worker :
              /\ process'[v] = "executing" => process[v] = "executing"
              /\ process'[v] # "unborn" => v = w \/ process[v] # "unborn"
<1>1. /\ record' \in Record /\ record'.attempt = rec.attempt
      /\ record'.controls = rec.controls /\ record'.state = "queued"
      /\ crashes' \in Nat /\ crashes' >= crashes
  <2>1. crashes' \in Nat /\ crashes' >= crashes
    BY DEF SpawnWorker, TypeOK
  <2>2. CASE record' = rec
    BY <2>1, <2>2
  <2>3. CASE record' = [rec EXCEPT !.worker = w]
    BY <2>1, <2>3, WithWorker
  <2> QED BY <2>2, <2>3 DEF SpawnWorker
<1>2. /\ process' \in [Worker -> Process]
      /\ \A v \in Worker \ {w} : process'[v] = Reaped(process)[v]
      /\ process'[w] \in {"waiting", Reaped(process)[w]}
  BY Reaping DEF SpawnWorker, Process
<1>3. /\ process[w] = "unborn" /\ child[w] = "none" /\ child' = child
      /\ Reaped(process)[w] = "unborn"
  BY Reaping DEF Fresh, ChildInv
<1>4. \A v \in Worker :
        /\ process'[v] = "executing" => process[v] = "executing"
        /\ process'[v] # "unborn" => v = w \/ process[v] # "unborn"
        /\ process'[v] = "waiting" => v = w \/ process[v] = "waiting"
        /\ process'[v] = "deferring" => process[v] = "deferring"
        /\ process'[v] = "unborn" => process[v] = "unborn"
  BY <1>2, <1>3, Reaping DEF TypeOK, Process
<1>5. Busy' \in SUBSET (Busy \cup {w})
  BY <1>3, <1>4 DEF Busy, Alive
<1>6. ChildInv'
  BY <1>3, <1>4 DEF ChildInv
<1>7. Stray = Busy
  BY OwnWorker
<1>8. StrayInv'
  <2>1. CASE crashes' = crashes + 1
    <3>1. Stray' \in SUBSET (Stray \cup {w})
      BY <1>5, <1>7 DEF Stray
    <3> QED BY <2>1, <3>1, CrashStrays
  <2>2. CASE record' = [rec EXCEPT !.worker = w] /\ UNCHANGED crashes
    <3>1. record'.worker = w /\ record' # None
      BY <1>1, <2>2, WithWorker, NoneAssumption
    <3>2. w \in Busy' => w \in Own'
      BY <1>1, <1>3, <3>1 DEF Own, Busy, Active
    <3>3. Stray' \in SUBSET Stray
      BY <1>5, <1>7, <3>2 DEF Stray
    <3> QED BY <2>2, <3>3, NoMoreStrays
  <2>3. CASE process' = Reaped(process) /\ UNCHANGED crashes
    <3>1. w \notin Busy'
      BY <1>3, <2>3 DEF Busy, Alive
    <3>2. Stray' \in SUBSET Stray
      BY <1>5, <1>7, <3>1 DEF Stray
    <3> QED BY <2>3, <3>2, NoMoreStrays
  <2> QED BY <2>1, <2>2, <2>3 DEF SpawnWorker
<1> QED BY <1>1, <1>2, <1>4, <1>6, <1>8

-----------------------------------------------------------------------------
(* The steps.  Each lemma is about the types, the strays, and who executes.   *)

\* What every step keeps, apart from the receipt of a success.
Kept ==
  /\ TypeOK' /\ StrayInv' /\ UnbornInv' /\ ChildInv' /\ AttemptInv' /\ GuardInv' /\ SpawnInv'

\* The workers that were spawned.
Spawned == {w \in Worker : process[w] # "unborn"}

\* A step without a spawn that keeps the controls keeps the count.
LEMMA NoSpawn ==
  ASSUME TypeOK, UnbornInv, SpawnInv, TypeOK', record # None, record' # None,
         record'.controls = record.controls, Spawned' \in SUBSET Spawned
  PROVE  SpawnInv' /\ UnbornInv'
<1>1. Cardinality(Spawned') <= Cardinality(Spawned)
  BY Fewer DEF Spawned
<1>2. Cardinality(Spawned') \in Nat /\ Cardinality(Spawned) \in Nat
  BY FiniteWorkers DEF Spawned
<1>3. Cardinality(record.controls) \in Nat
  BY FS_CardinalityType DEF SpawnInv
<1> QED BY <1>1, <1>2, <1>3 DEF SpawnInv, UnbornInv, WorkerPerControl, Spawned

\* A control that is new counts for one worker.
LEMMA OneSpawn ==
  ASSUME TypeOK, SpawnInv, record # None, NEW k \in Key, NewKey(k), record' # None,
         record'.controls = record.controls \cup {k},
         NEW w \in Worker, Spawned' \in SUBSET (Spawned \cup {w})
  PROVE  SpawnInv' /\ UnbornInv'
<1>1. Cardinality(Spawned') <= Cardinality(Spawned) + 1
  BY OneMore DEF Spawned
<1>2. Cardinality(Spawned') \in Nat /\ Cardinality(Spawned) \in Nat
  <2>1. Spawned \in SUBSET Worker /\ Spawned' \in SUBSET Worker
    BY DEF Spawned
  <2> QED BY <2>1, FiniteWorkers
<1>3. /\ IsFiniteSet(record.controls) /\ k \notin record.controls
      /\ Cardinality(record.controls) \in Nat
  BY FS_CardinalityType DEF SpawnInv, NewKey
<1>4. /\ IsFiniteSet(record'.controls)
      /\ Cardinality(record'.controls) = Cardinality(record.controls) + 1
  <2>1. /\ IsFiniteSet(record.controls \cup {k})
        /\ Cardinality(record.controls \cup {k}) = Cardinality(record.controls) + 1
    BY <1>3, FS_AddElement
  <2> QED BY <2>1
<1> QED BY <1>1, <1>2, <1>3, <1>4 DEF SpawnInv, UnbornInv, WorkerPerControl, Spawned

\* The submission finds no worker.
LEMMA SubmitStep ==
  ASSUME IInv, NEW w \in Worker, Submit(w)
  PROVE  Kept
<1>1. TypeOK /\ StrayInv /\ UnbornInv /\ ChildInv /\ record = None /\ Fresh(w)
      /\ SpawnWorker(NewRecord, w)
      /\ UNCHANGED <<kind, child, attempt, journal, repair>>
  BY DEF IInv, Submit
<1>2. Own = {} /\ \A v \in Worker : process[v] = "unborn"
  BY <1>1 DEF Own, UnbornInv
<1>3. /\ StrayInv' /\ ChildInv'
      /\ record' \in Record /\ record'.controls = {}
      /\ process' \in [Worker -> Process] /\ crashes' \in Nat
      /\ \A v \in Worker : /\ process'[v] # "executing"
                           /\ process'[v] # "unborn" => v = w
  BY <1>1, <1>2, New, Spawning
<1>4. TypeOK'
  BY <1>1, <1>3 DEF TypeOK
<1>5. SpawnInv'
  <2>1. Spawned' \in SUBSET {w}
    BY <1>3 DEF Spawned
  <2>2. Cardinality({w}) = 1 /\ Cardinality({}) = 0 /\ IsFiniteSet({})
    BY FS_Singleton, FS_EmptySet
  <2>3. Cardinality(Spawned') <= 1
    BY <2>1, <2>2, Fewer
  <2> QED BY <1>3, <2>2, <2>3 DEF SpawnInv, WorkerPerControl, Spawned
<1>6. UnbornInv' /\ AttemptInv' /\ GuardInv'
  BY <1>3, NoneAssumption DEF UnbornInv, AttemptInv, GuardInv
<1> QED BY <1>3, <1>4, <1>5, <1>6 DEF Kept

\* A retry follows a failure, or a worker that was lost.
LEMMA RetryStep ==
  ASSUME IInv, NEW k \in Key, NEW w \in Worker, Retry(k, w)
  PROVE  Kept
<1> DEFINE cancellable == ~kind.credential
           queued == Requeued(Reconciled, k, cancellable)
<1>1. TypeOK /\ StrayInv /\ ChildInv /\ record # None /\ Fresh(w) /\ NewKey(k)
      /\ SpawnWorker(queued, w) /\ Reconciled.state \in {"failed", "blocked"}
      /\ UNCHANGED <<kind, child, attempt, journal, repair>>
  BY DEF IInv, Retry, Requeued
<1>2. cancellable \in BOOLEAN
  BY <1>1 DEF TypeOK
<1> HIDE DEF cancellable
<1>3. queued \in Record /\ queued.state = "queued" /\ queued.controls = record.controls \cup {k}
  <2>1. Reconciled \in Record /\ Reconciled.controls = record.controls
    BY <1>1, Reconciling
  <2> HIDE DEF queued
  <2>2. queued \in Record /\ queued.state = "queued"
        /\ queued.controls = Reconciled.controls \cup {k}
    BY <1>2, <2>1, Requeuing DEF queued
  <2> QED BY <2>1, <2>2
<1>4. Own = {}
  <2>1. CASE Lost
    BY <2>1, LostOwn
  <2>2. CASE ~Lost
    BY <1>1, <2>2, Reconciling DEF Own, Active
  <2> QED BY <2>1, <2>2
<1> HIDE DEF queued
<1>5. /\ StrayInv' /\ ChildInv'
      /\ record' \in Record /\ record'.controls = record.controls \cup {k}
      /\ process' \in [Worker -> Process] /\ crashes' \in Nat /\ crashes' >= crashes
      /\ \A v \in Worker : /\ process'[v] = "executing" => process[v] = "executing"
                           /\ process'[v] # "unborn" => v = w \/ process[v] # "unborn"
  BY <1>1, <1>3, <1>4, Spawning
<1>6. TypeOK' /\ record' # None
  BY <1>1, <1>5, NoneAssumption DEF TypeOK
<1>7. GuardInv'
  BY <1>1, <1>5 DEF IInv, GuardInv
<1>8. SpawnInv' /\ UnbornInv'
  <2>1. Spawned' \in SUBSET (Spawned \cup {w})
    BY <1>5 DEF Spawned
  <2> QED BY <1>1, <1>5, <1>6, <2>1, OneSpawn DEF IInv
<1>9. AttemptInv'
  <2>1. SUFFICES ASSUME crashes' = 0 PROVE \A v \in Worker : process'[v] # "executing"
    BY DEF AttemptInv
  <2>2. crashes = 0
    BY <1>1, <1>5, <2>1 DEF TypeOK
  <2>3. Busy = {}
    <3>1. Stray = Busy /\ IsFiniteSet(Busy) /\ Cardinality(Busy) \in Nat
      BY <1>1, <1>4, OwnWorker, FiniteWorkers
    <3>2. Cardinality(Busy) = 0
      BY <1>1, <2>2, <3>1 DEF StrayInv
    <3> QED BY <3>1, <3>2, FS_EmptySet
  <2> QED BY <1>5, <2>3 DEF Busy, Alive
<1> QED BY <1>5, <1>6, <1>7, <1>8, <1>9 DEF Kept

\* A reading only reconciles.
LEMMA ReadStep ==
  ASSUME IInv, Read
  PROVE  Kept
<1>1. TypeOK /\ record # None /\ record' = Reconciled
      /\ UNCHANGED <<kind, process, child, attempt, journal, repair, crashes>>
  BY DEF IInv, Read
<1>2. record' \in Record /\ record'.attempt = record.attempt /\ record' # None
      /\ record'.controls = record.controls
  BY <1>1, Reconciling, NoneAssumption
<1>3. TypeOK'
  BY <1>1, <1>2 DEF TypeOK
<1>4. Stray' \in SUBSET Stray
  <2>1. Busy' = Busy
    BY <1>1 DEF Busy, Alive
  <2>2. CASE Lost
    BY <2>1, <2>2, LostOwn DEF Stray
  <2>3. CASE ~Lost
    <3>1. record' = record
      BY <1>1, <2>3, Reconciling
    <3> QED BY <1>1, <2>1, <3>1 DEF Stray, Own, Alive
  <2> QED BY <2>2, <2>3
<1>5. StrayInv'
  BY <1>1, <1>4, NoMoreStrays DEF IInv
<1>6. SpawnInv' /\ UnbornInv'
  <2>1. Spawned' \in SUBSET Spawned
    BY <1>1 DEF Spawned
  <2> QED BY <1>1, <1>2, <1>3, <2>1, NoSpawn DEF IInv
<1>7. ChildInv' /\ AttemptInv' /\ GuardInv'
  BY <1>1, <1>2 DEF IInv, ChildInv, AttemptInv, GuardInv
<1> QED BY <1>3, <1>5, <1>6, <1>7 DEF Kept

\* A cancellation ends the recorded worker with its command.
LEMMA CancelStep ==
  ASSUME IInv, NEW k \in Key, Cancel(k)
  PROVE  Kept
<1> DEFINE w == record.worker
           receipt == [outcome |-> "cancelled", effect |-> "partial",
                       attempt |-> record.attempt]
<1>1. TypeOK /\ record # None /\ NewKey(k) /\ WorkerIsCurrent(w)
      /\ Exit(w) /\ child' = GroupKilled(w)
      /\ UNCHANGED <<kind, attempt, journal, repair, crashes>>
  BY DEF IInv, Cancel, Exit
<1>2. record \in Record /\ w \in Worker /\ process[w] # "unborn"
  BY <1>1, Existing DEF WorkerIsCurrent, Alive
<1>3. record' \in Record /\ record'.attempt = record.attempt /\ record' # None
      /\ record'.controls = record.controls \cup {k} /\ record'.state = "cancelled"
  <2>1. receipt \in Receipt /\ "cancelled" \in TERMINAL_STATES
    BY <1>1, Existing DEF Receipt, TERMINAL_STATES
  <2> DEFINE controls == record.controls \cup {k}
             new == [record EXCEPT !.state = "cancelled", !.cancel_available = FALSE,
                       !.retryable = FALSE, !.controls = controls, !.receipt = receipt]
  <2>2. controls \in SUBSET Key
    BY <1>1, Existing
  <2>3. record' = new
    BY DEF Cancel
  <2> HIDE DEF receipt, controls, new
  <2>4. /\ new \in Record /\ new.attempt = record.attempt
        /\ new.controls = controls /\ new.state = "cancelled"
    BY <1>2, <2>1, <2>2 DEF new, Record
  <2> QED BY <2>3, <2>4, NoneAssumption DEF controls
<1> HIDE DEF w, receipt
<1>4. /\ process' \in [Worker -> Process] /\ process'[w] = "zombie"
      /\ \A v \in Worker \ {w} : process'[v] = process[v]
  BY <1>1, <1>2, Exiting
<1>5. /\ child' \in [Worker -> Child] /\ child'[w] # "running"
      /\ \A v \in Worker : child'[v] = child[v] \/ v = w
  BY <1>1, <1>2 DEF TypeOK, GroupKilled, Child
<1>6. TypeOK'
  BY <1>1, <1>3, <1>4, <1>5 DEF TypeOK
<1>7. StrayInv'
  <2>1. Busy' \in SUBSET (Busy \ {w})
    BY <1>4, <1>5 DEF Busy, Alive
  <2>2. CASE w \in Busy
    BY <1>1, <2>1, <2>2, NoMoreStrays DEF IInv
  <2>3. CASE w \notin Busy
    <3>1. Own = {}
      BY <1>2, <2>3 DEF Own, w
    <3> QED BY <1>1, <2>1, <3>1, NoMoreStrays DEF IInv, Stray
  <2> QED BY <2>2, <2>3
<1>8. SpawnInv' /\ UnbornInv'
  <2>1. Spawned' \in SUBSET (Spawned \cup {w})
    BY <1>4 DEF Spawned
  <2> QED BY <1>1, <1>2, <1>3, <1>6, <2>1, OneSpawn DEF IInv
<1>9. ChildInv' /\ AttemptInv' /\ GuardInv'
  BY <1>1, <1>3, <1>4, <1>5 DEF IInv, ChildInv, AttemptInv, GuardInv
<1> QED BY <1>6, <1>7, <1>8, <1>9 DEF Kept

\* A step that leaves the record to its worker and starts nothing.
LEMMA SameRecord ==
  ASSUME IInv, TypeOK', UNCHANGED <<record, attempt, crashes>>, ChildInv',
         repair' = repair,
         \A v \in Worker : /\ process'[v] \in {process[v], "zombie", "gone", "deferring"}
                           /\ process[v] = "unborn" => process'[v] = "unborn"
                           /\ process'[v] = "deferring" => Alive(v)
                           /\ child'[v] = "running" => child[v] = "running",
         \A v \in Own : Alive(v)' \/ child'[v] # "running"
  PROVE  Kept
<1>1. Stray' \in SUBSET Stray
  BY DEF Stray, Own, Busy, Alive
<1>2. StrayInv'
  BY <1>1, NoMoreStrays DEF IInv
<1>3. SpawnInv' /\ UnbornInv'
  <2>1. Spawned' \in SUBSET Spawned
    BY DEF Spawned
  <2>2. CASE record = None
    BY <2>2 DEF IInv, UnbornInv, SpawnInv
  <2>3. CASE record # None
    BY <2>1, <2>3, NoSpawn DEF IInv
  <2> QED BY <2>2, <2>3
<1>4. AttemptInv' /\ GuardInv'
  BY DEF IInv, AttemptInv, GuardInv
<1> QED BY <1>2, <1>3, <1>4 DEF Kept

\* A worker defers or leaves, a command ends, the provider collects its dead.
LEMMA WaitStep ==
  ASSUME IInv, Reap \/ \E w \in Worker : Defer(w) \/ Leave(w) \/ ChildEnds(w)
  PROVE  Kept
<1>1. TypeOK /\ ChildInv
  BY DEF IInv
<1>2. CASE Reap
  <2>1. /\ process' = Reaped(process)
        /\ UNCHANGED <<kind, record, child, attempt, journal, repair, crashes>>
    BY <1>2 DEF Reap
  <2>2. TypeOK' /\ ChildInv'
    BY <1>1, <2>1, Reaping DEF TypeOK, ChildInv, Process
  <2>3. \A v \in Own : Alive(v)' \/ child'[v] # "running"
    BY <2>1, Reaping, <1>1 DEF Own, Busy, Alive
  <2>4. \A v \in Worker : /\ process'[v] \in {process[v], "zombie", "gone", "deferring"}
                          /\ process[v] = "unborn" => process'[v] = "unborn"
                          /\ process'[v] = "deferring" => Alive(v)
    BY <2>1, Reaping, <1>1 DEF Alive
  <2> QED BY <2>1, <2>2, <2>3, <2>4, SameRecord
<1>3. ASSUME NEW w \in Worker, Defer(w) PROVE Kept
  <2>1. TypeOK' /\ ChildInv'
    BY <1>1, <1>3 DEF Defer, TypeOK, ChildInv, Process
  <2> QED BY <1>1, <1>3, <2>1, SameRecord DEF Defer, TypeOK, Own, Alive
<1>4. ASSUME NEW w \in Worker, Leave(w) PROVE Kept
  <2>1. child[w] = "none" /\ process[w] = "waiting" /\ Exit(w)
        /\ UNCHANGED <<kind, record, child, attempt, journal, repair, crashes>>
    BY <1>1, <1>4 DEF Leave, ChildInv
  <2>2. /\ process' \in [Worker -> Process] /\ process'[w] = "zombie"
        /\ \A v \in Worker \ {w} : process'[v] = process[v]
    BY <1>1, <2>1, Exiting
  <2>3. TypeOK' /\ ChildInv'
    BY <1>1, <2>1, <2>2 DEF TypeOK, ChildInv
  <2>4. \A v \in Own : Alive(v)' \/ child'[v] # "running"
    BY <2>1, <2>2 DEF Own, Busy, Alive
  <2>5. \A v \in Worker : /\ process'[v] \in {process[v], "zombie", "gone", "deferring"}
                          /\ process[v] = "unborn" => process'[v] = "unborn"
                          /\ process'[v] = "deferring" => Alive(v)
    BY <2>1, <2>2 DEF Alive
  <2> QED BY <2>1, <2>3, <2>4, <2>5, SameRecord
<1>5. ASSUME NEW w \in Worker, ChildEnds(w) PROVE Kept
  <2>1. TypeOK' /\ ChildInv'
    BY <1>1, <1>5 DEF ChildEnds, TypeOK, ChildInv, Child
  <2> QED BY <1>1, <1>5, <2>1, SameRecord DEF ChildEnds, TypeOK, Own, Alive
<1> QED BY <1>2, <1>3, <1>4, <1>5

\* A worker exits with a record that names its attempt and its controls as before.
LEMMA ExitStep ==
  ASSUME IInv, NEW w \in Worker, Alive(w), record # None, Exit(w),
         UNCHANGED <<kind, child, attempt, journal, repair, crashes>>,
         child[w] # "running", record' \in Record,
         record'.attempt = record.attempt, record'.controls = record.controls
  PROVE  Kept
<1>1. TypeOK /\ ChildInv /\ process[w] # "unborn" /\ record' # None
  BY NoneAssumption DEF IInv, Alive
<1>2. /\ process' \in [Worker -> Process] /\ process'[w] = "zombie"
      /\ \A v \in Worker \ {w} : process'[v] = process[v]
  BY <1>1, Exiting
<1>3. TypeOK' /\ ChildInv'
  BY <1>1, <1>2 DEF TypeOK, ChildInv
<1>4. w \in Busy /\ Busy' \in SUBSET (Busy \ {w})
  BY <1>2 DEF Busy, Alive
<1>5. StrayInv'
  BY <1>1, <1>4, NoMoreStrays DEF IInv
<1>6. SpawnInv' /\ UnbornInv'
  <2>1. Spawned' \in SUBSET Spawned
    BY <1>1, <1>2 DEF Spawned
  <2> QED BY <1>1, <1>3, <2>1, NoSpawn DEF IInv
<1>7. AttemptInv' /\ GuardInv'
  BY <1>2 DEF IInv, AttemptInv, GuardInv
<1> QED BY <1>3, <1>5, <1>6, <1>7 DEF Kept

\* An exit that says why: deferred, rejected, or finished.
LEMMA EndStep ==
  ASSUME IInv, NEW w \in Worker, Deferred(w) \/ Reject(w) \/ Finish(w)
  PROVE  Kept
<1>1. TypeOK /\ ChildInv /\ Alive(w) /\ record # None /\ Exit(w)
      /\ UNCHANGED <<kind, child, attempt, journal, repair, crashes>>
  BY DEF IInv, UnbornInv, Deferred, Reject, Finish, Alive
<1>2. record \in Record
  BY <1>1, Existing
<1>3. CASE Deferred(w)
  <2>1. child[w] # "running"
    BY <1>1, <1>3 DEF Deferred, ChildInv
  <2>2. \/ record' = [record EXCEPT !.state = "blocked", !.worker = None,
                        !.cancel_available = FALSE, !.retryable = TRUE]
        \/ record' = record
    BY <1>3 DEF Deferred
  <2>3. record' \in Record /\ record'.attempt = record.attempt
        /\ record'.controls = record.controls
    BY <1>2, <2>2, Deferring
  <2> QED BY <1>1, <2>1, <2>3, ExitStep
<1>4. CASE Reject(w)
  <2> DEFINE receipt == [outcome |-> "failed", effect |-> "none", attempt |-> record.attempt]
  <2>1. child[w] # "running"
    BY <1>1, <1>4 DEF Reject, ChildInv
  <2>2. receipt \in Receipt
    BY <1>1, Existing DEF Receipt, TERMINAL_STATES
  <2>3. record' = Rejected(record, "failed", receipt)
    BY <1>4 DEF Reject, Rejected
  <2> HIDE DEF receipt
  <2>4. record' \in Record /\ record'.attempt = record.attempt
        /\ record'.controls = record.controls
    BY <1>2, <2>2, <2>3, Rejecting DEF TERMINAL_STATES
  <2> QED BY <1>1, <2>1, <2>4, ExitStep
<1>5. CASE Finish(w)
  <2> DEFINE receipt == [outcome |-> Outcome(w), effect |-> Effect(w),
                         attempt |-> record.attempt]
             failed == Outcome(w) = "failed"
  <2>1. child[w] \in {"succeeded", "failed"}
    BY <1>5 DEF Finish
  <2>2. receipt \in Receipt /\ Outcome(w) \in TERMINAL_STATES
    <3>1. Effect(w) \in {"verified", "partial", "none"}
      BY <2>1 DEF Effect, Outcome
    <3> QED BY <1>1, <2>1, <3>1, Existing DEF Receipt, TERMINAL_STATES, Outcome
  <2>3. record' = Finished(record, Outcome(w), failed, receipt) \/ record' = record
    BY <1>5 DEF Finish, Finished
  <2>4. failed \in BOOLEAN
    OBVIOUS
  <2> HIDE DEF receipt, failed
  <2>5. record' \in Record /\ record'.attempt = record.attempt
        /\ record'.controls = record.controls
    BY <1>2, <2>2, <2>3, <2>4, Finishing
  <2> QED BY <1>1, <2>1, <2>5, ExitStep
<1> QED BY <1>3, <1>4, <1>5

\* A start finds the record queued, so nobody but a stray executes.
LEMMA StartStep ==
  ASSUME IInv, NEW w \in Worker, Start(w)
  PROVE  Kept
<1> DEFINE cancellable == ~kind.credential
<1>1. TypeOK /\ ChildInv /\ record # None /\ process[w] = "waiting" /\ repair = "none"
      /\ record.state = "queued"
      /\ process' = [process EXCEPT ![w] = "executing"]
      /\ child' = [child EXCEPT ![w] = "running"]
      /\ attempt' = [attempt EXCEPT ![w] = record.attempt]
      /\ UNCHANGED <<kind, journal, repair, crashes>>
  BY DEF IInv, UnbornInv, Start, SharedGuard
<1>2. record \in Record /\ record.attempt \in Nat
  BY <1>1, Existing
<1>3. record' \in Record /\ record'.state = "running" /\ record'.attempt = record.attempt
      /\ record'.controls = record.controls /\ record'.worker = record.worker
      /\ record' # None
  <2>1. cancellable \in BOOLEAN
    BY <1>1 DEF TypeOK
  <2>2. record' = [record EXCEPT !.state = "running", !.cancel_available = cancellable]
    BY DEF Start
  <2> HIDE DEF cancellable
  <2>3. record' \in Record
    BY <1>2, <2>1, <2>2 DEF Record, Active
  <2>4. record'.state = "running" /\ record'.attempt = record.attempt
        /\ record'.controls = record.controls /\ record'.worker = record.worker
    BY <1>2, <2>2 DEF Record
  <2> QED BY <2>3, <2>4, NoneAssumption
<1>4. TypeOK' /\ ChildInv'
  BY <1>1, <1>2, <1>3 DEF TypeOK, ChildInv, Process, Child
<1>5. Busy' = Busy /\ Own' = Own
  <2>1. Busy' = Busy
    BY <1>1 DEF Busy, Alive, TypeOK
  <2> QED BY <1>1, <1>3, <2>1 DEF Own, Alive, Active, TypeOK
<1>6. StrayInv'
  BY <1>1, <1>5, NoMoreStrays DEF IInv, Stray
<1>7. SpawnInv' /\ UnbornInv'
  <2>1. Spawned' \in SUBSET Spawned
    BY <1>1 DEF Spawned, TypeOK
  <2> QED BY <1>1, <1>3, <1>4, <2>1, NoSpawn DEF IInv
<1>8. AttemptInv' /\ GuardInv'
  BY <1>1, <1>3 DEF IInv, AttemptInv, GuardInv, TypeOK
<1> QED BY <1>4, <1>6, <1>7, <1>8 DEF Kept

\* A kill, and a restart of the host.
LEMMA CrashStep ==
  ASSUME IInv, Reboot \/ \E w \in Worker : Kill(w)
  PROVE  Kept
<1>1. /\ TypeOK /\ ChildInv /\ crashes \in Nat /\ crashes' = crashes + 1
      /\ UNCHANGED <<kind, record, attempt, journal>>
  BY DEF IInv, TypeOK, Reboot, Kill
<1>2. ASSUME Spawned' \in SUBSET Spawned PROVE SpawnInv' /\ UnbornInv'
  <2>1. CASE record = None
    BY <1>1, <1>2, <2>1 DEF IInv, UnbornInv, SpawnInv, Spawned
  <2>2. CASE record # None
    <3>1. Cardinality(Spawned') <= Cardinality(Spawned)
      BY <1>2, Fewer DEF Spawned
    <3>2. Cardinality(Spawned') \in Nat /\ Cardinality(Spawned) \in Nat
      BY <1>2, FiniteWorkers DEF Spawned
    <3>3. Cardinality(record.controls) \in Nat
      BY <2>2, FS_CardinalityType DEF IInv, SpawnInv
    <3> QED BY <1>1, <2>2, <3>1, <3>2, <3>3
        DEF IInv, SpawnInv, UnbornInv, WorkerPerControl, Spawned
  <2> QED BY <2>1, <2>2
<1>3. AttemptInv'
  BY <1>1 DEF AttemptInv
<1>4. CASE Reboot
  <2>1. TypeOK' /\ ChildInv' /\ GuardInv'
    BY <1>1, <1>4 DEF Reboot, TypeOK, ChildInv, GuardInv, Process, Child
  <2>2. Spawned' \in SUBSET Spawned
    BY <1>1, <1>4 DEF Reboot, Spawned
  <2>3. Busy' = {}
    BY <1>1, <1>4 DEF Reboot, Busy, Alive, TypeOK
  <2>4. StrayInv'
    <3>1. Stray' = {}
      BY <2>3 DEF Stray
    <3> QED BY <1>1, <3>1, FS_EmptySet DEF StrayInv
  <2> QED BY <1>2, <1>3, <2>1, <2>2, <2>4 DEF Kept
<1>5. ASSUME NEW w \in Worker, Kill(w) PROVE Kept
  <2>1. Alive(w) /\ Exit(w) /\ repair' = repair /\ process[w] # "unborn"
    BY <1>5 DEF Kill, Alive
  <2>2. /\ process' \in [Worker -> Process] /\ process'[w] = "zombie"
        /\ \A v \in Worker \ {w} : process'[v] = process[v]
    BY <1>1, <2>1, Exiting
  <2>3. /\ child' \in [Worker -> Child]
        /\ \A v \in Worker : child'[v] = child[v] \/ (v = w /\ child'[v] = "lost")
    <3>1. CASE kind.credential
      <4>1. child' = [child EXCEPT ![w] = IF child[w] = "running" THEN "lost" ELSE child[w]]
        BY <1>5, <3>1 DEF Kill, GroupKilled
      <4>2. child \in [Worker -> Child]
        BY <1>1 DEF TypeOK
      <4>3. child' \in [Worker -> Child]
        BY <4>1, <4>2 DEF Child
      <4> QED BY <4>1, <4>2, <4>3
    <3>2. CASE ~kind.credential
      <4>1. child' = child
        BY <1>5, <3>2 DEF Kill
      <4> QED BY <1>1, <4>1 DEF TypeOK
    <3> QED BY <3>1, <3>2
  <2>4. TypeOK'
    BY <1>1, <2>1, <2>2, <2>3 DEF TypeOK
  <2>5. ChildInv' /\ GuardInv'
    BY <1>1, <2>1, <2>2, <2>3 DEF IInv, ChildInv, GuardInv
  <2>6. Spawned' \in SUBSET Spawned
    BY <2>1, <2>2 DEF Spawned
  <2>7. StrayInv'
    <3>1. Stray' \in SUBSET (Stray \cup {w})
      BY <1>1, <2>2, <2>3 DEF Stray, Own, Busy, Alive
    <3> QED BY <1>1, <3>1, CrashStrays DEF IInv
  <2> QED BY <1>2, <1>3, <2>4, <2>5, <2>6, <2>7 DEF Kept
<1> QED BY <1>4, <1>5

\* The repair takes its guard when nobody executes.
LEMMA RepairStep ==
  ASSUME IInv, RepairGuard \/ RepairDeferred \/ RepairWork \/ RepairEnd \/ Confirmed
  PROVE  Kept
<1>1. TypeOK' /\ UNCHANGED <<kind, record, process, child, attempt, crashes>>
  BY DEF IInv, TypeOK, RepairGuard, RepairDeferred, RepairWork, RepairEnd, Confirmed
<1>2. GuardInv'
  BY DEF IInv, GuardInv, ExclusiveGuard, RepairGuard, RepairDeferred, RepairWork, RepairEnd,
         Confirmed
<1>3. StrayInv' /\ UnbornInv' /\ ChildInv' /\ AttemptInv' /\ SpawnInv'
  BY <1>1 DEF IInv, StrayInv, Stray, Own, Busy, Alive, UnbornInv, ChildInv, AttemptInv,
              SpawnInv, WorkerPerControl
<1> QED BY <1>1, <1>2, <1>3 DEF Kept

\* Every step keeps all but the truth of a success.
LEMMA KeptByNext ==
  ASSUME IInv, Next
  PROVE  Kept
BY SubmitStep, RetryStep, ReadStep, CancelStep, WaitStep, EndStep, StartStep, CrashStep,
   RepairStep DEF Next, WorkerStep

-----------------------------------------------------------------------------
(* Success and cancellation.                                               *)

\* A command that succeeded stays so, with its attempt.
LEMMA SuccessStays ==
  ASSUME IInv, Next, NEW w \in Worker, child[w] = "succeeded"
  PROVE  child'[w] = "succeeded" /\ attempt'[w] = attempt[w]
<1>1. TypeOK /\ ChildInv /\ process[w] # "waiting"
  BY DEF IInv, ChildInv
<1>2. ASSUME NEW v \in Worker, Start(v)
      PROVE  child'[w] = "succeeded" /\ attempt'[w] = attempt[w]
  BY <1>1, <1>2 DEF Start, TypeOK
<1>3. ASSUME NEW v \in Worker, ChildEnds(v) \/ Kill(v)
      PROVE  child'[w] = "succeeded" /\ attempt'[w] = attempt[w]
  BY <1>1, <1>3 DEF ChildEnds, Kill, GroupKilled, TypeOK
<1>4. ASSUME NEW k \in Key, Cancel(k)
      PROVE  child'[w] = "succeeded" /\ attempt'[w] = attempt[w]
  BY <1>1, <1>4 DEF Cancel, GroupKilled, TypeOK
<1>5. CASE Reboot
  BY <1>1, <1>5 DEF Reboot
<1>6. ASSUME NEW v \in Worker,
             \/ Submit(v) \/ Defer(v) \/ Deferred(v) \/ Reject(v) \/ Leave(v) \/ Finish(v)
             \/ \E k \in Key : Retry(k, v)
      PROVE  child'[w] = "succeeded" /\ attempt'[w] = attempt[w]
  BY <1>6 DEF Submit, Defer, Deferred, Reject, Leave, Finish, Retry
<1>7. CASE Read \/ Reap \/ RepairGuard \/ RepairDeferred \/ RepairWork \/ RepairEnd \/ Confirmed
  BY <1>7 DEF Read, Reap, RepairGuard, RepairDeferred, RepairWork, RepairEnd, Confirmed
<1> QED BY <1>2, <1>3, <1>4, <1>5, <1>6, <1>7 DEF Next, WorkerStep

\* A record is left, reconciled, or changed by a step that found it open.
LEMMA RecordMoves ==
  ASSUME IInv, Next, record # None
  PROVE  \/ record' = record
         \/ /\ record.state \notin {"succeeded", "cancelled"}
            /\ \/ record'.state # "succeeded"
               \/ \E w \in Worker : Finish(w) /\ StillOpen
<1>1. TypeOK /\ record \in Record
  BY Existing DEF IInv
<1>2. ASSUME NEW w \in Worker,
             Submit(w) \/ Defer(w) \/ Leave(w) \/ ChildEnds(w) \/ Kill(w)
      PROVE  record' = record
  BY <1>2 DEF Submit, Defer, Leave, ChildEnds, Kill
<1>3. CASE Reap \/ Reboot \/ RepairGuard \/ RepairDeferred \/ RepairWork \/ RepairEnd
           \/ Confirmed
  BY <1>3 DEF Reap, Reboot, RepairGuard, RepairDeferred, RepairWork, RepairEnd, Confirmed
<1>4. CASE Read
  <2>1. CASE Lost
    BY <1>1, <1>4, <2>1, Reconciling DEF Read, Lost, Active
  <2>2. CASE ~Lost
    BY <1>1, <1>4, <2>2, Reconciling DEF Read
  <2> QED BY <2>1, <2>2
<1>5. ASSUME NEW w \in Worker, Deferred(w) \/ Start(w) \/ Reject(w)
      PROVE  \/ record' = record
             \/ record.state = "queued" /\ record'.state # "succeeded"
  BY <1>1, <1>5 DEF Deferred, Start, Reject, Record
<1>6. ASSUME NEW w \in Worker, Finish(w)
      PROVE  \/ record' = record
             \/ record.state \notin TERMINAL_STATES /\ StillOpen
  BY <1>6 DEF Finish, StillOpen
<1>7. ASSUME NEW k \in Key, Cancel(k)
      PROVE  record.state \in Active /\ record'.state = "cancelled"
  BY <1>1, <1>7 DEF Cancel, Record
<1>8. ASSUME NEW k \in Key, NEW w \in Worker, Retry(k, w)
      PROVE  record.state \notin {"succeeded", "cancelled"} /\ record'.state = "queued"
  <2> DEFINE queued == [Reconciled EXCEPT !.state = "queued", !.attempt = @ + 1,
                          !.retryable = FALSE, !.receipt = None, !.worker = None,
                          !.cancel_available = ~kind.credential, !.controls = @ \cup {k}]
  <2>1. Reconciled \in Record /\ Reconciled.state \in {"failed", "blocked"}
        /\ SpawnWorker(queued, w)
    BY <1>1, <1>8, Reconciling DEF Retry
  <2>2. queued.state = "queued" /\ [queued EXCEPT !.worker = w].state = "queued"
    BY <2>1 DEF Record
  <2>3. record'.state = "queued"
    <3> HIDE DEF queued
    <3> QED BY <2>1, <2>2 DEF SpawnWorker
  <2>4. record.state \notin {"succeeded", "cancelled"}
    BY <1>1, <2>1, Reconciling DEF Lost, Active
  <2> QED BY <2>3, <2>4
<1> QED BY <1>2, <1>3, <1>4, <1>5, <1>6, <1>7, <1>8
    DEF Next, WorkerStep, Active, TERMINAL_STATES

\* A success that is recorded is that of a command.
LEMMA SuccessStep ==
  ASSUME IInv, Next
  PROVE  SuccessIsReal'
<1>1. SUFFICES ASSUME record' # None, record'.state = "succeeded" PROVE SuccessIsReal'
  BY DEF SuccessIsReal
<1>2. crashes' = 0 => crashes = 0
  <2>1. crashes \in Nat /\ crashes' \in Nat
    BY KeptByNext DEF IInv, TypeOK, Kept
  <2>2. crashes' = crashes \/ crashes' = crashes + 1
    <3>1. ASSUME NEW k \in Key, NEW w \in Worker, Retry(k, w)
          PROVE  crashes' = crashes \/ crashes' = crashes + 1
      BY <3>1 DEF Retry, SpawnWorker
    <3>2. ASSUME NEW w \in Worker, Submit(w) PROVE crashes' = crashes \/ crashes' = crashes + 1
      BY <3>2 DEF Submit, SpawnWorker
    <3> QED BY <3>1, <3>2
        DEF Next, WorkerStep, Read, Reap, Reboot, ChildEnds, Kill, Cancel, Defer, Deferred,
            Start, Reject, Leave, Finish, RepairGuard, RepairDeferred, RepairWork, RepairEnd,
            Confirmed
  <2> QED BY <2>1, <2>2
<1>3. CASE record' = record
  BY <1>1, <1>2, <1>3, SuccessStays DEF IInv, SuccessIsReal
<1>4. CASE record = None
  <2>1. ASSUME NEW w \in Worker, Submit(w) PROVE FALSE
    <3>1. NewRecord \in Record /\ NewRecord.state = "queued"
      BY New DEF IInv
    <3>2. record' = NewRecord \/ record' = [NewRecord EXCEPT !.worker = w]
      BY <2>1 DEF Submit, SpawnWorker
    <3>3. [NewRecord EXCEPT !.worker = w].state = "queued"
      BY <3>1 DEF Record
    <3>4. record'.state = "queued"
      BY <3>1, <3>2, <3>3
    <3> QED BY <1>1, <3>4
  <2>2. ASSUME NEW w \in Worker, WorkerStep(w) PROVE FALSE
    BY <1>4, <2>2 DEF IInv, UnbornInv, WorkerStep, Defer, Deferred, Start, Reject, Leave, Finish
  <2>3. record' = record
    BY <1>4, <2>1, <2>2
    DEF Next, Read, Reap, Reboot, ChildEnds, Kill, Cancel, Retry, RepairGuard, RepairDeferred,
        RepairWork, RepairEnd, Confirmed
  <2> QED BY <1>3, <2>3
<1>5. ASSUME NEW w \in Worker, Finish(w), StillOpen, record # None PROVE SuccessIsReal'
  <2> DEFINE receipt == [outcome |-> Outcome(w), effect |-> Effect(w),
                         attempt |-> record.attempt]
             failed == Outcome(w) = "failed"
  <2>1. record \in Record /\ process[w] = "executing" /\ attempt' = attempt
        /\ child' = child /\ crashes' = crashes
    BY <1>5, Existing DEF IInv, Finish
  <2>2. record' = [record EXCEPT !.state = Outcome(w), !.cancel_available = FALSE,
                     !.worker = None, !.retryable = failed, !.receipt = receipt]
    BY <1>5 DEF Finish
  <2>3. record'.state = Outcome(w) /\ record'.receipt.attempt = record.attempt
    <3>1. receipt.attempt = record.attempt
      OBVIOUS
    <3> HIDE DEF receipt, failed
    <3> QED BY <2>1, <2>2, <3>1 DEF Record
  <2>4. crashes = 0 => attempt[w] = record.attempt
    BY <2>1 DEF IInv, AttemptInv
  <2> QED BY <1>1, <2>1, <2>3, <2>4 DEF SuccessIsReal, Outcome
<1> QED BY <1>1, <1>3, <1>4, <1>5, RecordMoves

-----------------------------------------------------------------------------
(* The theorems.                                                           *)

\* The invariant holds before the submission.
LEMMA Initial == ASSUME Init PROVE IInv
<1>1. TypeOK
  BY DEF Init, TypeOK, Process, Child
<1>2. Stray = {}
  BY DEF Init, Stray, Busy, Alive
<1>3. StrayInv
  BY <1>2, FS_EmptySet DEF Init, StrayInv
<1> QED BY <1>1, <1>3
    DEF Init, IInv, UnbornInv, ChildInv, AttemptInv, GuardInv, SpawnInv, SuccessIsReal

\* Every step preserves the invariant.
LEMMA Inductive == ASSUME IInv, [Next]_vars PROVE IInv'
<1>1. CASE Next
  BY <1>1, KeptByNext, SuccessStep DEF Kept, IInv
<1>2. CASE UNCHANGED vars
  BY <1>2 DEF vars, IInv, TypeOK, StrayInv, Stray, Own, Busy, Alive, UnbornInv, ChildInv,
              AttemptInv, GuardInv, SpawnInv, WorkerPerControl, SuccessIsReal
<1> QED BY <1>1, <1>2

\* Provider, workers and repair keep the invariant, whatever is killed.
THEOREM Invariant == Spec => []IInv
<1>1. Init => IInv
  BY Initial
<1>2. IInv /\ [Next]_vars => IInv'
  BY Inductive
<1> QED BY <1>1, <1>2, PTL DEF Spec

\* The owner commands of an operation overlap only by the doing of a crash, no
\* control starts more than one worker, and the repair has the guard for itself
\* (ProviderService.submit and control, execute_operation, the owner guard).
THEOREM ExclusiveWorkers == Spec => []WorkersExclude
<1>1. ASSUME IInv PROVE WorkersExclude
  <2>1. TypeOK /\ RepairExcludesWorkers
    BY <1>1 DEF IInv, GuardInv, RepairExcludesWorkers
  <2>2. OneOwnerCommand
    <3>1. Cardinality(Working) <= Cardinality(Busy)
      BY Fewer DEF Working, Busy
    <3>2. Cardinality(Working) \in Nat /\ Cardinality(Busy) \in Nat
          /\ Cardinality(Stray) \in Nat /\ crashes \in Nat
      BY <2>1, OwnWorker, FiniteWorkers DEF Working, TypeOK
    <3> QED BY <1>1, <2>1, <3>1, <3>2, OwnWorker DEF IInv, StrayInv, OneOwnerCommand
  <2>3. WorkerPerControl
    <3>1. CASE record = None
      <4>1. Spawned = {}
        BY <1>1, <3>1 DEF IInv, UnbornInv, Spawned
      <4> QED BY <3>1, <4>1, FS_EmptySet DEF WorkerPerControl, Spawned
    <3>2. CASE record # None
      BY <1>1, <3>2 DEF IInv, SpawnInv
    <3> QED BY <3>1, <3>2
  <2> QED BY <2>1, <2>2, <2>3 DEF WorkersExclude
<1> QED BY <1>1, Invariant, PTL

\* A success is that of a command, and a cancelled operation has no command at
\* work but by the doing of a crash (execute_operation, terminate_worker).
THEOREM RealOutcome == Spec => []OutcomeIsReal
<1>1. ASSUME IInv PROVE OutcomeIsReal
  <2>1. ASSUME record # None, record.state = "cancelled"
        PROVE  Cardinality(Working) <= crashes
    <3>1. Working \in SUBSET Stray
      BY <2>1 DEF Working, Stray, Own, Busy, Active
    <3>2. Cardinality(Working) <= Cardinality(Stray)
      BY <1>1, <3>1, OwnWorker, Fewer DEF IInv
    <3>3. Cardinality(Working) \in Nat /\ Cardinality(Stray) \in Nat /\ crashes \in Nat
      BY <1>1, OwnWorker, FiniteWorkers DEF Working, IInv, TypeOK
    <3> QED BY <1>1, <3>2, <3>3 DEF IInv, StrayInv
  <2> QED BY <1>1, <2>1 DEF IInv, OutcomeIsReal, CancelStopsWork
<1> QED BY <1>1, Invariant, PTL

\* Success and cancellation are final for every worker, reading, retry and repair.
THEOREM FinalOutcome == Spec => FinalStates
<1>1. IInv /\ [Next]_vars =>
        [record # None /\ record.state \in {"succeeded", "cancelled"} =>
           /\ record'.state = record.state
           /\ record'.receipt = record.receipt]_vars
  BY RecordMoves
<1> QED BY <1>1, Invariant, PTL DEF Spec, FinalStates

(***************************************************************************)
(* The repair of the image caches.                                         *)
(***************************************************************************)
-----------------------------------------------------------------------------
(* The invariant.                                                          *)

\* An image without an open incident was not removed since its incident was
\* closed, and only an attempt takes an image away.
IncidentInv ==
  \A i \in Image :
    /\ removals[i] <= 1
    /\ incident[i] \in {"none", "closed"} => removals[i] = 0
    /\ cache[i] = "absent" => incident[i] = "attempted"

\* The replacement at hand: its image is one of those left, without consumers.
ReplacementInv ==
  helper.at # NoReplacement =>
    LET i == helper.at.image
    IN /\ helper.action = "repair" /\ i \in helper.todo
       /\ incident[i] = "attempted" /\ consumers[i] = "none"
       /\ helper.at.step = "remove" => removals[i] = 0

\* The steps of a run that has called no helper yet, and those that a helper of
\* an earlier run cannot reach into.
Before == {"begin", "call check"}
Calling == {"check", "repair", "confirm"}

\* An image is missing only while a repair fetches it, or until a run asks the
\* helper again.
MissingInv ==
  \A i \in Image :
    cache[i] = "absent" =>
      /\ consumers[i] = "none"
      /\ \/ helper.action = "repair" /\ helper.at = [image |-> i, step |-> "pull"]
         \/ /\ helper.action = "none"
            /\ adapter.run = "none" \/ adapter.at \in Before

\* A run past its first call has the helper for itself.
CallInv ==
  adapter.run # "none" =>
    /\ adapter.at \in Calling => helper.action = adapter.at
    /\ adapter.at \notin Calling \cup Before => helper.action = "none"

\* What keeps ordinary owner work from a repair: the guard while the run of the
\* repair lives, and the journal when its helper survives it.
OwnerInv ==
  /\ GuardHeld => owner \in {"none", "queued"}
  /\ adapter.run # "none" /\ adapter.at \in {"call repair", "repair"} =>
       recovery = "repairing"
  /\ helper.action = "repair" =>
       /\ recovery \in {"repairing", "operator-required"}
       /\ owner # "ordinary"

\* What a helper may leave of an attempt: a check an image that it found corrupt, a
\* repair the image that it replaces, and a confirmation nothing.
LeftByHelper(i) ==
  /\ helper.action = "check" =>
       i \in helper.todo \/ (i \in helper.corrupt /\ cache[i] = "corrupt")
  /\ helper.action = "repair" =>
       /\ i \in helper.todo
       /\ cache[i] = "corrupt" \/ (helper.at # NoReplacement /\ helper.at.image = i)
  /\ helper.action # "confirm"

\* What a run may leave of it: an image that its check found corrupt, for which it
\* goes on to try a repair, and nothing once images are repaired or whole.
Trying == {"quiesce", "quiesced", "call repair"}
Whole == {"repaired", "up", "call confirm", "confirm"}
LeftByRun(i) ==
  adapter.run # "none" =>
    /\ adapter.at = "checked" => i \in adapter.corrupt
    /\ adapter.at \in {"checked"} \cup Trying => cache[i] = "corrupt"
    /\ adapter.at \notin Whole

\* An attempt is open until the bytes of its image were compared.
OpenInv == \A i \in Image : incident[i] = "attempted" => LeftByHelper(i) /\ LeftByRun(i)

RecoveryInv ==
  /\ RecoveryTypes /\ IncidentInv /\ ReplacementInv /\ MissingInv /\ CallInv
  /\ OwnerInv /\ OpenInv

-----------------------------------------------------------------------------
(* What the steps do to the adapter and to the helper.                     *)

\* A run goes on to a step.
LEMMA GoesOn ==
  ASSUME RecoveryTypes, NEW step \in Step, Goes(step)
  PROVE  adapter' \in Adapter /\ adapter'.run = adapter.run /\ adapter'.at = step
BY DEF RecoveryTypes, Goes, Adapter

\* A run goes on to stop the consumers it has planned to.
LEMMA PlansTo ==
  ASSUME RecoveryTypes, Quiescing
  PROVE  /\ adapter' \in Adapter /\ adapter'.run = adapter.run /\ adapter'.at = "quiesce"
         /\ recovery' = "quiescing"
<1>1. ASSUME NEW images \in SUBSET Image
      PROVE  LET new == [adapter EXCEPT !.at = "quiesce", !.corrupt = images]
             IN new \in Adapter /\ new.run = adapter.run /\ new.at = "quiesce"
  BY DEF RecoveryTypes, Adapter, Step
<1>2. Planned \subseteq SUBSET Image
  BY DEF RecoveryTypes, Adapter, Planned
<1> QED BY <1>1, <1>2 DEF Quiescing

\* A run ends.
LEMMA Over ==
  ASSUME Ends
  PROVE  adapter' \in Adapter /\ adapter'.run = "none" /\ adapter'.at = "begin"
BY DEF Ends, NoRun, Adapter, Step

\* A run begins, or a tick that finds nothing to do ends.
LEMMA Begins ==
  ASSUME Activate \/ Maintenance
  PROVE  adapter' \in Adapter /\ adapter'.at \in Before
<1>1. ASSUME NEW r \in {"activate", "maintenance"}, NEW step \in Before
      PROVE  [run |-> r, at |-> step, corrupt |-> {}] \in Adapter
  BY DEF Adapter, Before, Step
<1>2. CASE Activate
  <2>1. adapter' = [run |-> "activate", at |-> "begin", corrupt |-> {}]
    BY <1>2 DEF Activate, NoRun
  <2> QED BY <1>1, <2>1 DEF Before
<1>3. CASE adapter' = [NoRun EXCEPT !.run = "maintenance", !.at = "call check"]
  <2>1. adapter' = [run |-> "maintenance", at |-> "call check", corrupt |-> {}]
    BY <1>3 DEF NoRun
  <2> QED BY <1>1, <2>1 DEF Before
<1>4. CASE Ends
  BY <1>4, Over DEF Before
<1> QED BY <1>2, <1>3, <1>4 DEF Maintenance, EndsWith

\* No helper is at work.
LEMMA Off ==
  NoHelper \in Helper /\ NoHelper.action = "none" /\ NoHelper.at = NoReplacement /\ NoHelper.todo = {}
BY DEF NoHelper, Helper

\* The helper is done with an image.
LEMMA Done ==
  ASSUME RecoveryTypes, NEW i \in Image
  PROVE  \A new \in {Passed(i), Found(i)} :
           /\ new \in Helper /\ new.action = helper.action /\ new.at = helper.at
           /\ new.todo = helper.todo \ {i} /\ helper.corrupt \subseteq new.corrupt
           /\ new = Found(i) => i \in new.corrupt
<1> DEFINE DoneIn(new) == /\ new \in Helper /\ new.action = helper.action
                          /\ new.at = helper.at /\ new.todo = helper.todo \ {i}
                          /\ helper.corrupt \subseteq new.corrupt
<1>1. DoneIn(Passed(i))
  BY DEF RecoveryTypes, Passed, Helper
<1>2. DoneIn(Found(i)) /\ i \in Found(i).corrupt
  BY DEF RecoveryTypes, Found, Helper
<1> QED BY <1>1, <1>2

\* The helper goes on to x with the same images before it.
HelperAt(x) ==
  helper' \in Helper /\ helper'.action = helper.action /\ helper'.todo = helper.todo
  /\ helper'.at = x

\* The replacement of an image goes from its removal over the pull to the comparison.
LEMMA Replacing ==
  ASSUME RecoveryTypes, NEW i \in Image
  PROVE  /\ Attempt(i) => HelperAt([image |-> i, step |-> "remove"])
         /\ Remove(i) => HelperAt([image |-> i, step |-> "pull"])
         /\ Pull(i) => HelperAt([image |-> i, step |-> "verify"])
<1>1. ASSUME NEW x \in Replacement, helper' = [helper EXCEPT !.at = x] PROVE HelperAt(x)
  BY <1>1 DEF RecoveryTypes, Helper, HelperAt
<1>2. ASSUME NEW step \in {"remove", "pull", "verify"}
      PROVE  [image |-> i, step |-> step] \in Replacement
  BY DEF Replacement
<1>3. ASSUME NEW old, NEW new, helper.at = [image |-> i, step |-> old]
      PROVE  [helper EXCEPT !.at.step = new] = [helper EXCEPT !.at = [image |-> i, step |-> new]]
  <2>1. [helper.at EXCEPT !.step = new] = [image |-> i, step |-> new]
    BY <1>3
  <2> QED BY <2>1
<1>4. Attempt(i) => HelperAt([image |-> i, step |-> "remove"])
  BY <1>1, <1>2 DEF Attempt
<1>5. Remove(i) => helper' = [helper EXCEPT !.at = [image |-> i, step |-> "pull"]]
  BY <1>3 DEF Remove, Replaces
<1>6. Pull(i) => helper' = [helper EXCEPT !.at = [image |-> i, step |-> "verify"]]
  BY <1>3 DEF Pull, Replaces
<1> QED BY <1>1, <1>2, <1>4, <1>5, <1>6

\* The comparison ends the replacement.
LEMMA Verified ==
  ASSUME RecoveryTypes, NEW i \in Image, Verify(i)
  PROVE  helper' \in Helper /\ helper'.action = helper.action
         /\ helper'.todo = helper.todo \ {i} /\ helper'.at = NoReplacement
<1>1. \A new \in Helper :
        /\ [new EXCEPT !.at = NoReplacement] \in Helper /\ [new EXCEPT !.at = NoReplacement].at = NoReplacement
        /\ [new EXCEPT !.at = NoReplacement].action = new.action
        /\ [new EXCEPT !.at = NoReplacement].todo = new.todo
  BY DEF Helper
<1>2. helper' = [Passed(i) EXCEPT !.at = NoReplacement]
  BY DEF Verify
<1> QED BY <1>1, <1>2, Done

\* A call starts the helper when none is at work and nothing is missing.
LEMMA Called ==
  ASSUME RecoveryTypes, NEW action \in Calling, Call(action)
  PROVE  \/ UNCHANGED helper /\ Fails
         \/ /\ helper.action = "none" /\ Missing = {} /\ UNCHANGED recovery
            /\ helper' \in Helper /\ helper'.action = action /\ helper'.at = NoReplacement
            /\ helper'.todo = {i \in Image : cache[i] # "absent"}
            /\ adapter' \in Adapter /\ adapter'.run = adapter.run /\ adapter'.at = action
<1> DEFINE S == {i \in Image : cache[i] # "absent"}
<1>1. ASSUME NEW h \in Helper, NEW images \in SUBSET Image, NEW ready \in BOOLEAN
      PROVE  LET new == [h EXCEPT !.action = action, !.todo = images, !.ready = ready]
             IN new \in Helper /\ new.action = action /\ new.at = h.at /\ new.todo = images
  BY DEF Helper, Calling
<1>2. CASE helper.action = "none" /\ Missing = {} /\ Goes(action) /\ UNCHANGED recovery
           /\ helper' = [NoHelper EXCEPT !.action = action, !.todo = S, !.ready = Ready]
  <2>1. S \in SUBSET Image /\ Ready \in BOOLEAN
    BY DEF Ready
  <2>2. helper' \in Helper /\ helper'.action = action /\ helper'.at = NoReplacement
        /\ helper'.todo = S
    <3> HIDE DEF S
    <3>1. PICK ready \in BOOLEAN : ready = Ready
      BY <2>1, Zenon
    <3>2. helper' = [NoHelper EXCEPT !.action = action, !.todo = S, !.ready = ready]
      BY <1>2, <3>1, Zenon
    <3>3. \A h \in Helper :
            LET new == [h EXCEPT !.action = action, !.todo = S, !.ready = ready]
            IN new \in Helper /\ new.action = action /\ new.at = h.at /\ new.todo = S
      BY <1>1, <2>1, <3>1
    <3> QED BY <3>2, <3>3, Off
  <2> QED BY <1>2, <2>2, GoesOn DEF Calling, Step
<1> QED BY <1>2 DEF Call

\* The helper is done, and its caller, if it waits, goes on.
LEMMA Answered ==
  ASSUME RecoveryTypes, Answers
  PROVE  /\ helper' = NoHelper /\ helper.action # "none" /\ helper.todo = {}
         /\ \/ ~Waits /\ UNCHANGED <<adapter, recovery>>
            \/ /\ Waits /\ UNCHANGED recovery
               /\ adapter' \in Adapter /\ adapter'.run = adapter.run
               /\ \/ /\ adapter.at = "check" /\ adapter'.at = "checked"
                     /\ adapter'.corrupt = helper.corrupt
                  \/ adapter.at = "repair" /\ adapter'.at = "repaired"
            \/ Waits /\ adapter.at = "confirm" /\ (EndsWith("healthy") \/ Fails)
<1>1. ASSUME NEW S \in SUBSET Image
      PROVE  LET new == [adapter EXCEPT !.at = "checked", !.corrupt = S]
             IN new \in Adapter /\ new.run = adapter.run /\ new.at = "checked" /\ new.corrupt = S
  BY DEF RecoveryTypes, Adapter, Step
<1>2. helper.corrupt \in SUBSET Image /\ helper.action \in {"none"} \cup Calling
  BY DEF RecoveryTypes, Helper, Calling
<1>3. CASE Waits /\ helper.action = "check"
  <2>1. adapter' = [adapter EXCEPT !.at = "checked", !.corrupt = helper.corrupt]
        /\ UNCHANGED recovery
    BY <1>3 DEF Answers
  <2>2. adapter' \in Adapter /\ adapter'.run = adapter.run /\ adapter'.at = "checked"
        /\ adapter'.corrupt = helper.corrupt
    BY <1>1, <1>2, <2>1
  <2> QED BY <1>2, <1>3, <2>1, <2>2 DEF Answers, Waits
<1>4. CASE Waits /\ helper.action = "repair"
  BY <1>4, GoesOn DEF Answers, Step, Waits
<1>5. CASE Waits /\ helper.action = "confirm"
  BY <1>5 DEF Answers, Waits
<1>6. CASE ~Waits
  BY <1>6 DEF Answers
<1> QED BY <1>2, <1>3, <1>4, <1>5, <1>6 DEF Answers, Calling

\* What is so while the helper replaces an image.
LEMMA AtReplacement ==
  ASSUME ReplacementInv, NEW i \in Image, NEW step \in {"remove", "pull", "verify"},
         Replaces(i, step)
  PROVE  /\ helper.action = "repair" /\ helper.at = [image |-> i, step |-> step]
         /\ i \in helper.todo /\ incident[i] = "attempted" /\ consumers[i] = "none"
         /\ step = "remove" => removals[i] = 0
<1>1. [image |-> i, step |-> step] \in Replacement
  BY DEF Replacement
<1> QED BY <1>1, NoReplacementAssumption DEF ReplacementInv, Replaces

-----------------------------------------------------------------------------
(* The invariant is inductive.                                             *)

\* The invariant holds before the first run.
LEMMA RecoveryStarts == ASSUME RecoveryInit PROVE RecoveryInv
<1>1. RecoveryTypes
  BY DEF RecoveryInit, RecoveryTypes, Journal, NoRun, NoHelper, Adapter, Helper, Step, Incident, Cache, Owner
<1>2. IncidentInv /\ ReplacementInv /\ MissingInv /\ CallInv /\ OwnerInv /\ OpenInv
  BY DEF RecoveryInit, IncidentInv, ReplacementInv, MissingInv, CallInv, OwnerInv, OpenInv, NoRun, NoHelper,
         GuardHeld
<1> QED BY <1>1, <1>2 DEF RecoveryInv

\* The adapter leaves the images, and moves within its steps.
LEMMA AdapterTypes ==
  ASSUME RecoveryTypes, AdapterStep
  PROVE  RecoveryTypes'
<1> USE DEF RecoveryTypes, durable, bounds, Step
<1>1. CASE Activate \/ Maintenance
  BY <1>1, Begins, Over DEF Activate, Maintenance, EndsWith, Journal
<1>2. CASE Startup \/ Intact \/ Postponed
  BY <1>2, GoesOn, Over DEF Startup, Intact, Postponed, EndsWith, Journal, Blocking, Latched
<1>3. CASE Refused \/ Quiescing \/ Quiesce
  <2>1. \A images \in SUBSET Image : Stopped(images) \in [Image -> Consumer]
    BY DEF Stopped, Consumer
  <2>2. adapter.corrupt \in SUBSET Image
    BY DEF Adapter
  <2>3. CASE Refused
    BY <2>3, Over DEF Refused, EndsWith, Journal, Blocking, Latched
  <2>4. CASE Quiescing
    <3>1. recovery' \in Journal /\ adapter' \in Adapter
      BY <2>4, PlansTo DEF Journal, Blocking
    <3> QED BY <2>4, <3>1 DEF Quiescing
  <2>5. CASE Quiesce
    BY <2>1, <2>2, <2>5, GoesOn, Over DEF Quiesce, EndsWith, Journal, Blocking, Latched
  <2> QED BY <1>3, <2>3, <2>4, <2>5
<1>4. CASE Repairing \/ Restored \/ Resume \/ Up
  BY <1>4, GoesOn, Over DEF Repairing, Restored, Resume, Up, EndsWith, Journal, Blocking, Latched
<1>5. ASSUME NEW action \in {"check", "repair", "confirm"}, Call(action) PROVE RecoveryTypes'
  BY <1>5, Called, Over DEF Calling, Call, Fails, Journal, Blocking, Latched
<1> QED BY <1>1, <1>2, <1>3, <1>4, <1>5 DEF AdapterStep

\* The helper keeps the types.
LEMMA HelperTypes ==
  ASSUME RecoveryTypes, HelperStep
  PROVE  RecoveryTypes'
<1> USE DEF RecoveryTypes, durable, bounds
<1>1. CASE HelperFails
  BY <1>1, Off, Over DEF HelperFails, Fails, Journal, Blocking, Latched
<1>2. CASE Answers
  BY <1>2, Answered, Off, Over DEF Answers, EndsWith, Fails, Journal, Blocking, Latched
<1>3. ASSUME NEW i \in Image, Check(i) \/ Confirm(i) \/ Skip(i)
      PROVE  RecoveryTypes'
  BY <1>3, Done DEF Check, Resumed, Confirm, Skip, Incident
<1>4. ASSUME NEW i \in Image, Attempt(i) \/ Remove(i) \/ Pull(i) \/ Verify(i)
      PROVE  RecoveryTypes'
  <2>1. CASE Attempt(i)
    BY <1>4, <2>1, Replacing DEF HelperAt, Attempt, Incident
  <2>2. CASE Remove(i)
    <3>1. helper' \in Helper
      BY <2>2, Replacing DEF HelperAt
    <3>2. cache' \in [Image -> Cache] /\ removals' \in [Image -> Nat]
      BY <2>2 DEF Remove, Cache
    <3> QED BY <2>2, <3>1, <3>2 DEF Remove
  <2>3. CASE Pull(i)
    BY <1>4, <2>3, Replacing DEF HelperAt, Pull, Cache
  <2>4. CASE Verify(i)
    BY <1>4, <2>4, Verified DEF Verify, Incident
  <2> QED BY <1>4, <2>1, <2>2, <2>3, <2>4
<1> QED BY <1>1, <1>2, <1>3, <1>4 DEF HelperStep

\* So do owner work, corruption, kills and restarts.
LEMMA OtherTypes ==
  ASSUME RecoveryTypes, Queue \/ StartWork \/ EndWork \/ AdapterKilled \/ Restart
                   \/ \E i \in Image : Corrupt(i) \/ Probed(i)
  PROVE  RecoveryTypes'
<1> USE DEF RecoveryTypes, durable, bounds
<1>1. CASE Queue \/ StartWork \/ EndWork
  BY <1>1 DEF Queue, StartWork, EndWork, Owner
<1>2. CASE AdapterKilled \/ Restart
  BY <1>2, Over, Off DEF AdapterKilled, Restart, Owner
<1>3. CASE \E i \in Image : Corrupt(i) \/ Probed(i)
  BY <1>3 DEF Corrupt, Cache, Probed, Consumer
<1> QED BY <1>1, <1>2, <1>3

\* What the adapter, owner work, kills and restarts leave.
ImagesStay == UNCHANGED <<incident, cache, removals>>

\* Consumers go nowhere but away.
FewerConsumers == \A i \in Image : consumers'[i] \in {consumers[i], "none"}

\* Everything but the helper and corruption leaves the images, and only the start
\* of the consumers brings one.
LEMMA Elsewhere ==
  ASSUME AdapterStep \/ Queue \/ StartWork \/ EndWork \/ AdapterKilled \/ Restart
  PROVE  ImagesStay /\ (FewerConsumers \/ Up)
<1> USE DEF ImagesStay, FewerConsumers, durable
<1>1. CASE Activate \/ Startup \/ Maintenance \/ Intact \/ Postponed \/ Refused \/ Quiescing
  BY <1>1 DEF Activate, Startup, Maintenance, Intact, Postponed, Refused, Quiescing
<1>2. CASE Quiesce \/ Repairing \/ Restored \/ Resume \/ Up
  BY <1>2 DEF Quiesce, Stopped, Repairing, Restored, Resume, Up
<1>3. ASSUME NEW action \in {"check", "repair", "confirm"}, Call(action)
      PROVE  ImagesStay /\ FewerConsumers
  BY <1>3 DEF Call
<1>4. CASE Queue \/ StartWork \/ EndWork \/ AdapterKilled \/ Restart
  BY <1>4 DEF Queue, StartWork, EndWork, AdapterKilled, Restart
<1> QED BY <1>1, <1>2, <1>3, <1>4 DEF AdapterStep

\* An attempt opens the incident of an image, and only its replacement removes it.
LEMMA IncidentStep ==
  ASSUME RecoveryTypes, IncidentInv, ReplacementInv, MissingInv, RecoveryNext
  PROVE  IncidentInv'
<1> USE DEF RecoveryTypes, IncidentInv
<1>1. CASE ImagesStay
  BY <1>1 DEF ImagesStay
<1>2. CASE HelperFails \/ Answers
  BY <1>2 DEF HelperFails, Answers
<1>3. ASSUME NEW i \in Image, Check(i) \/ Confirm(i) \/ Skip(i) \/ Attempt(i)
      PROVE  IncidentInv'
  <2>1. CASE Check(i) \/ Skip(i)
    <3>1. cache[i] # "absent"
      BY <2>1 DEF MissingInv, Check, Skip, Turn
    <3>2. UNCHANGED <<cache, removals>> /\ \A j \in Image \ {i} : incident'[j] = incident[j]
      BY <2>1 DEF Check, Resumed, Skip, durable
    <3>3. incident'[i] \in {"none", "closed"} => incident'[i] = incident[i]
      BY <2>1 DEF Check, Resumed, Skip, durable
    <3> QED BY <3>1, <3>2, <3>3
  <2>2. CASE Confirm(i)
    <3>1. CASE UNCHANGED <<incident, removals>>
      BY <2>2, <3>1 DEF Confirm
    <3>2. CASE incident' = [incident EXCEPT ![i] = "closed"] /\ removals' = [removals EXCEPT ![i] = 0]
      <4>1. /\ incident'[i] = "closed" /\ removals'[i] = 0 /\ cache' = cache
            /\ \A j \in Image \ {i} : incident'[j] = incident[j] /\ removals'[j] = removals[j]
        BY <2>2, <3>2 DEF Confirm
      <4>2. cache[i] # "absent"
        BY <2>2 DEF MissingInv, Confirm, Turn
      <4> QED BY <4>1, <4>2
    <3> QED BY <2>2, <3>1, <3>2 DEF Confirm
  <2>3. CASE Attempt(i)
    BY <2>3 DEF Attempt, MayAttempt
  <2> QED BY <1>3, <2>1, <2>2, <2>3
<1>4. ASSUME NEW i \in Image, Remove(i) PROVE IncidentInv'
  <2>1. incident[i] = "attempted" /\ removals[i] = 0
    BY <1>4, AtReplacement DEF Remove
  <2>2. removals'[i] = 1 /\ \A j \in Image \ {i} : removals'[j] = removals[j]
    BY <1>4, <2>1 DEF Remove
  <2>3. \A j \in Image \ {i} : cache'[j] = cache[j]
    BY <1>4 DEF Remove
  <2> QED BY <1>4, <2>1, <2>2, <2>3 DEF Remove
<1>5. ASSUME NEW i \in Image, Pull(i) \/ Verify(i) \/ Corrupt(i) \/ Probed(i)
      PROVE  IncidentInv'
  BY <1>5 DEF Pull, Verify, Corrupt, Probed, durable
<1> QED BY <1>1, <1>2, <1>3, <1>4, <1>5, Elsewhere DEF RecoveryNext, HelperStep

\* The image at hand is replaced without consumers, by this helper alone.
LEMMA ReplacementStep ==
  ASSUME RecoveryTypes, ReplacementInv, IncidentInv, CallInv, RecoveryNext
  PROVE  ReplacementInv'
<1> USE DEF RecoveryTypes
<1>1. CASE AdapterStep \/ Queue \/ StartWork \/ EndWork \/ AdapterKilled \/ Restart
  <2>1. helper' = helper \/ helper'.at = NoReplacement
    <3>1. CASE \E action \in {"check", "repair", "confirm"} : Call(action)
      BY <3>1, Called DEF Calling
    <3>2. CASE Restart
      BY <3>2, Off DEF Restart
    <3> QED BY <1>1, <3>1, <3>2
        DEF AdapterStep, Activate, Startup, Maintenance, Intact, Postponed, Refused, Quiescing,
            Quiesce, Repairing, Restored, Resume, Up, Queue, StartWork, EndWork, AdapterKilled
  <2>2. Up => helper.action = "none"
    BY DEF CallInv, Up, At, Calling, Before
  <2>3. helper.at # NoReplacement => helper.at.image \in Image
    BY DEF Helper, Replacement
  <2> QED BY <1>1, <2>1, <2>2, <2>3, Elsewhere DEF ReplacementInv, ImagesStay, FewerConsumers
<1>2. CASE HelperFails \/ Answers
  BY <1>2, Off DEF HelperFails, Answers, ReplacementInv
<1>3. ASSUME NEW i \in Image, Check(i) \/ Confirm(i) \/ Skip(i) PROVE ReplacementInv'
  BY <1>3, Done DEF Check, Confirm, Skip, Turn, durable, ReplacementInv
<1>4. ASSUME NEW i \in Image, Attempt(i) PROVE ReplacementInv'
  <2>1. HelperAt([image |-> i, step |-> "remove"])
    BY <1>4, Replacing
  <2>2. removals[i] = 0 /\ incident'[i] = "attempted" /\ consumers[i] = "none"
    BY <1>4 DEF Attempt, MayAttempt, IncidentInv
  <2> QED BY <1>4, <2>1, <2>2 DEF Attempt, Turn, HelperAt, ReplacementInv
<1>5. ASSUME NEW i \in Image, Remove(i) \/ Pull(i) PROVE ReplacementInv'
  <2>1. PICK step \in {"pull", "verify"} : HelperAt([image |-> i, step |-> step])
    BY <1>5, Replacing
  <2>2. helper.action = "repair" /\ i \in helper.todo /\ incident[i] = "attempted" /\ consumers[i] = "none"
    BY <1>5, AtReplacement DEF Remove, Pull
  <2> QED BY <1>5, <2>1, <2>2 DEF Remove, Pull, HelperAt, ReplacementInv
<1>6. ASSUME NEW i \in Image, Verify(i) PROVE ReplacementInv'
  BY <1>6, Verified DEF ReplacementInv
<1>7. CASE \E i \in Image : Corrupt(i) \/ Probed(i)
  <2>1. UNCHANGED <<helper, incident, removals>>
    BY <1>7 DEF Corrupt, Probed, durable
  <2>2. \A j \in Image : consumers[j] = "none" => consumers'[j] = "none"
    BY <1>7 DEF Corrupt, Probed
  <2>3. helper.at # NoReplacement => helper.at.image \in Image
    BY DEF Helper, Replacement
  <2> QED BY <2>1, <2>2, <2>3 DEF ReplacementInv
<1> QED BY <1>1, <1>2, <1>3, <1>4, <1>5, <1>6, <1>7 DEF RecoveryNext, HelperStep

\* An image that is missing is fetched, or found missing before the consumers start.
LEMMA MissingStep ==
  ASSUME RecoveryTypes, MissingInv, IncidentInv, ReplacementInv, CallInv, RecoveryNext
  PROVE  MissingInv'
<1> USE DEF MissingInv
<1>1. CASE Activate \/ Maintenance
  BY <1>1, Begins DEF Activate, Maintenance, durable
<1>2. CASE Startup \/ Intact \/ Postponed \/ Refused \/ Quiescing
  BY <1>2, GoesOn, PlansTo, Over
  DEF Startup, Intact, Postponed, Refused, Quiescing, EndsWith, Before, At, Step, CallInv, Calling
<1>3. CASE Quiesce \/ Repairing \/ Restored \/ Resume \/ Up
  BY <1>3, GoesOn, Over
  DEF Quiesce, Stopped, Repairing, Restored, Resume, Up, EndsWith, Before, At, Step, durable, CallInv,
      Calling
<1>4. ASSUME NEW action \in Calling, Call(action) PROVE MissingInv'
  <2>1. CASE UNCHANGED helper /\ Fails
    BY <1>4, <2>1, Over DEF Call, Fails
  <2>2. CASE Missing = {}
    <3>1. \A i \in Image : cache[i] # "absent"
      BY <2>2 DEF Missing, IncidentInv
    <3> QED BY <1>4, <3>1 DEF Call
  <2> QED BY <1>4, <2>1, <2>2, Called
<1>5. CASE HelperFails
  <2>1. adapter' = adapter \/ adapter'.run = "none"
    BY <1>5, Over DEF HelperFails, Fails
  <2>2. adapter' = adapter /\ adapter.run # "none" /\ helper.action = "repair" => adapter.at \in Before
    BY <1>5, Over DEF HelperFails, Fails, CallInv, Waits, Before, Calling
  <2>3. UNCHANGED <<cache, consumers>> /\ helper'.action = "none" /\ helper.action # "none"
    BY <1>5, Off DEF HelperFails
  <2> QED BY <2>1, <2>2, <2>3
<1>6. CASE Answers
  <2>1. \A i \in Image : helper.action = "repair" => helper.at # [image |-> i, step |-> "pull"]
    BY <1>6, AtReplacement DEF Answers, Replaces
  <2>2. \/ adapter'.run = adapter.run /\ adapter.at \in Calling
        \/ adapter' = adapter \/ adapter'.run = "none"
    BY <1>6, Answered, Over DEF Waits, EndsWith, Fails, Calling
  <2> QED BY <1>6, <2>1, <2>2 DEF Answers, Calling, Before
<1>7. ASSUME NEW i \in Image, Check(i) \/ Confirm(i) \/ Skip(i) PROVE MissingInv'
  BY <1>7, Done DEF Check, Confirm, Skip, Turn, durable
<1>8. ASSUME NEW i \in Image, Attempt(i) PROVE MissingInv'
  <2>1. \A j \in Image : [image |-> j, step |-> "pull"] \in Replacement
    BY DEF Replacement
  <2>2. \A j \in Image : helper.at # [image |-> j, step |-> "pull"]
    BY <1>8, <2>1, NoReplacementAssumption DEF Attempt, Turn
  <2> QED BY <1>8, <2>2 DEF Attempt
<1>9. ASSUME NEW i \in Image, Remove(i) PROVE MissingInv'
  <2>1. HelperAt([image |-> i, step |-> "pull"])
    BY <1>9, Replacing
  <2>2. helper.action = "repair" /\ consumers[i] = "none" /\ helper.at = [image |-> i, step |-> "remove"]
    BY <1>9, AtReplacement DEF Remove
  <2>3. \A j \in Image : cache'[j] = "absent" => j = i \/ cache[j] = "absent"
    BY <1>9 DEF Remove, RecoveryTypes
  <2> QED BY <1>9, <2>1, <2>2, <2>3 DEF Remove, HelperAt
<1>10. ASSUME NEW i \in Image, Pull(i) PROVE MissingInv'
  <2>1. helper.action = "repair" /\ helper.at = [image |-> i, step |-> "pull"]
    BY <1>10, AtReplacement DEF Pull
  <2>2. \A j \in Image : cache'[j] = "absent" => j # i /\ cache[j] = "absent"
    BY <1>10 DEF Pull, RecoveryTypes
  <2> QED BY <1>10, <2>1, <2>2 DEF Pull
<1>11. ASSUME NEW i \in Image, Verify(i) PROVE MissingInv'
  <2>1. helper.action = "repair" /\ helper.at = [image |-> i, step |-> "verify"]
    BY <1>11, AtReplacement DEF Verify
  <2>2. helper.at.step = "verify" /\ \A j \in Image : [image |-> j, step |-> "pull"].step = "pull"
    BY <2>1
  <2>3. \A j \in Image : helper.at # [image |-> j, step |-> "pull"]
    BY <2>2
  <2> QED BY <1>11, <2>1, <2>3 DEF Verify
<1>12. CASE \E i \in Image : Corrupt(i) \/ Probed(i)
  BY <1>12 DEF Corrupt, Probed, durable, RecoveryTypes
<1>13. CASE Queue \/ StartWork \/ EndWork \/ AdapterKilled \/ Restart
  BY <1>13, Over, Off DEF Queue, StartWork, EndWork, AdapterKilled, Restart, durable
<1> QED BY <1>1, <1>2, <1>3, <1>4, <1>5, <1>6, <1>7, <1>8, <1>9, <1>10, <1>11, <1>12, <1>13
    DEF RecoveryNext, AdapterStep, HelperStep, Calling

\* Only the run that called the helper sees it at work.
LEMMA CallStep ==
  ASSUME RecoveryTypes, CallInv, RecoveryNext
  PROVE  CallInv'
<1> USE DEF CallInv, Calling, Before
<1>1. CASE Activate \/ Maintenance
  BY <1>1, Begins DEF Activate, Maintenance
<1>2. CASE Startup \/ Intact \/ Postponed \/ Refused \/ Quiescing
  BY <1>2, GoesOn, PlansTo, Over
  DEF Startup, Intact, Postponed, Refused, Quiescing, EndsWith, At, Step
<1>3. CASE Quiesce \/ Repairing \/ Restored \/ Resume \/ Up
  BY <1>3, GoesOn, Over DEF Quiesce, Repairing, Restored, Resume, Up, EndsWith, At, Step
<1>4. ASSUME NEW action \in Calling, Call(action) PROVE CallInv'
  BY <1>4, Called, Over DEF Fails
<1>5. CASE HelperFails
  BY <1>5, Over DEF HelperFails, Fails, Waits
<1>6. CASE Answers
  BY <1>6, Answered, Off, Over DEF Waits, EndsWith, Fails
<1>7. ASSUME NEW i \in Image, Check(i) \/ Confirm(i) \/ Skip(i) PROVE CallInv'
  BY <1>7, Done DEF Check, Confirm, Skip
<1>8. ASSUME NEW i \in Image, Attempt(i) \/ Remove(i) \/ Pull(i) \/ Verify(i)
      PROVE  CallInv'
  BY <1>8, Replacing, Verified DEF HelperAt, Attempt, Remove, Pull, Verify
<1>9. CASE Queue \/ StartWork \/ EndWork \/ AdapterKilled \/ Restart
  BY <1>9, Over DEF Queue, StartWork, EndWork, AdapterKilled, Restart
<1>10. CASE \E i \in Image : Corrupt(i) \/ Probed(i)
  BY <1>10 DEF Corrupt, Probed
<1> QED BY <1>1, <1>2, <1>3, <1>4, <1>5, <1>6, <1>7, <1>8, <1>9, <1>10
    DEF RecoveryNext, AdapterStep, HelperStep

\* The guard keeps owner work from a repair, and the journal after its run.
LEMMA OwnerStep ==
  ASSUME RecoveryTypes, OwnerInv, CallInv, RecoveryNext
  PROVE  OwnerInv'
<1> USE DEF OwnerInv, GuardHeld
<1>1. CASE Activate \/ Maintenance
  <2>1. UNCHANGED <<helper, owner>>
    BY <1>1 DEF Activate, Maintenance
  <2>2. helper.action = "repair" => recovery' \in {"repairing", "operator-required"}
    BY <1>1 DEF Activate, Maintenance, durable
  <2> QED BY <1>1, <2>1, <2>2, Begins DEF Before
<1>2. CASE Startup \/ Intact \/ Postponed \/ Refused
  BY <1>2, GoesOn, Over
  DEF Startup, Intact, Postponed, Refused, EndsWith, At, Step, CallInv, Calling, Before
<1>3. CASE Quiescing \/ Quiesce \/ Repairing
  BY <1>3, GoesOn, PlansTo, Over
  DEF Quiescing, Quiesce, Repairing, EndsWith, Step, GuardIsFree, CallInv, Calling, Before
<1>4. CASE Restored \/ Resume \/ Up
  BY <1>4, GoesOn, Over
  DEF Restored, Resume, Up, EndsWith, At, Step, durable, CallInv, Calling, Before
<1>5. ASSUME NEW action \in Calling, Call(action) PROVE OwnerInv'
  <2>1. adapter.run # "none" /\ adapter.at = CallOf[action] /\ UNCHANGED owner
    BY <1>5 DEF Call
  <2>2. action = "repair" => adapter.at = "call repair"
    <3>1. CallOf["repair"] = "call repair"
      BY DEF CallOf
    <3> QED BY <2>1, <3>1
  <2>3. CASE UNCHANGED helper /\ Fails
    <3>1. recovery' = recovery \/ recovery' = "operator-required"
      BY <2>3 DEF Fails
    <3> QED BY <2>1, <2>3, <3>1, Over DEF Fails
  <2>4. CASE ~(UNCHANGED helper /\ Fails)
    <3>1. /\ UNCHANGED recovery /\ helper'.action = action
          /\ adapter'.run = adapter.run /\ adapter'.at = action
      BY <1>5, <2>4, Called
    <3> QED BY <2>1, <2>2, <3>1 DEF Calling
  <2> QED BY <2>3, <2>4
<1>6. CASE HelperFails
  <2>1. UNCHANGED <<adapter, recovery>> \/ Ends
    BY <1>6 DEF HelperFails, Fails
  <2> QED BY <1>6, <2>1, Off, Over DEF HelperFails
<1>7. CASE Answers
  <2>1. \/ UNCHANGED <<adapter, recovery>> \/ Ends
        \/ /\ adapter.run # "none" /\ adapter'.run = adapter.run /\ UNCHANGED recovery
           /\ \/ adapter.at = "check" /\ adapter'.at = "checked"
              \/ adapter.at = "repair" /\ adapter'.at = "repaired"
    <3>1. EndsWith("healthy") \/ Fails => Ends
      BY DEF EndsWith, Fails
    <3>2. Waits => adapter.run # "none"
      BY DEF Waits
    <3> QED BY <1>7, <3>1, <3>2, Answered
  <2> QED BY <1>7, <2>1, Off, Over DEF Answers
<1>8. ASSUME NEW i \in Image, Check(i) \/ Confirm(i) \/ Skip(i) PROVE OwnerInv'
  BY <1>8, Done DEF Check, Confirm, Skip, durable
<1>9. ASSUME NEW i \in Image, Attempt(i) \/ Remove(i) \/ Pull(i) \/ Verify(i)
      PROVE  OwnerInv'
  BY <1>9, Replacing, Verified DEF HelperAt, Attempt, Remove, Pull, Verify
<1>10. CASE Queue \/ StartWork \/ EndWork
  BY <1>10 DEF Queue, StartWork, EndWork, durable, JournalBlocks, Blocking, Latched
<1>11. CASE AdapterKilled \/ Restart
  BY <1>11, Over, Off DEF AdapterKilled, Restart, durable
<1>12. CASE \E i \in Image : Corrupt(i) \/ Probed(i)
  BY <1>12 DEF Corrupt, Probed, durable
<1> QED BY <1>1, <1>2, <1>3, <1>4, <1>5, <1>6, <1>7, <1>8, <1>9, <1>10, <1>11, <1>12
    DEF RecoveryNext, AdapterStep, HelperStep, Calling

\* A helper at work leaves its caller where it waits, or an earlier run's helper the
\* run before its first call.
LEMMA AtWork ==
  ASSUME CallInv, helper.action = "repair", adapter.run # "none"
  PROVE  adapter.at \in {"begin", "call check", "repair"}
BY DEF CallInv, Calling, Before

\* An attempt that is open was left so by its helper and by its run.
LEMMA OpenStep ==
  ASSUME RecoveryTypes, OpenInv, IncidentInv, ReplacementInv, MissingInv, CallInv, RecoveryNext
  PROVE  OpenInv'
<1> DEFINE Open(i) == incident[i] = "attempted"
           Adapted == \A i \in Image : Open(i)' => LeftByRun(i)'
           Helped == \A i \in Image : Open(i)' => LeftByHelper(i)'
<1> USE DEF RecoveryTypes
<1>1. CASE Activate \/ Maintenance
  <2>1. UNCHANGED <<helper, incident, cache>>
    BY <1>1 DEF Activate, Maintenance, durable
  <2>2. adapter'.at \in Before
    BY <1>1, Begins
  <2> QED BY <2>1, <2>2 DEF OpenInv, LeftByHelper, LeftByRun, Before, Trying, Whole
<1>2. CASE Startup \/ Postponed \/ Refused \/ Resume
  <2>1. UNCHANGED <<helper, incident, cache>>
    BY <1>2 DEF Startup, Postponed, Refused, Resume
  <2>2. adapter'.run = "none" \/ adapter'.at = "call check"
    BY <1>2, GoesOn, Over DEF Startup, Postponed, Refused, Resume, EndsWith, Step
  <2> QED BY <2>1, <2>2 DEF OpenInv, LeftByHelper, LeftByRun, Trying, Whole
<1>3. CASE Intact
  <2>1. UNCHANGED <<helper, incident, cache>> /\ adapter.run # "none" /\ adapter.at = "checked"
        /\ adapter.corrupt = {}
    BY <1>3 DEF Intact
  <2>2. \A i \in Image : ~Open(i)'
    BY <2>1 DEF OpenInv, LeftByRun
  <2> QED BY <2>2 DEF OpenInv
<1>4. CASE Quiescing \/ Quiesce \/ Repairing
  <2>1. UNCHANGED <<helper, incident, cache>> /\ adapter.run # "none"
        /\ adapter.at \in {"checked"} \cup Trying
    BY <1>4 DEF Quiescing, Quiesce, Repairing, Trying
  <2>2. adapter'.run = "none" \/ adapter'.at \in Trying
    BY <1>4, GoesOn, PlansTo, Over DEF Quiesce, Repairing, EndsWith, Step, Trying
  <2> QED BY <2>1, <2>2 DEF OpenInv, LeftByHelper, LeftByRun, Trying, Whole
<1>5. CASE Restored \/ Up
  <2>1. UNCHANGED <<helper, incident, cache>> /\ adapter.run # "none" /\ adapter.at \in Whole
    BY <1>5 DEF Restored, Up, At, Whole, durable
  <2>2. \A i \in Image : ~Open(i)'
    BY <2>1 DEF OpenInv, LeftByRun
  <2> QED BY <2>2 DEF OpenInv
<1>6. ASSUME NEW action \in Calling, Call(action) PROVE OpenInv'
  <2>1. UNCHANGED <<incident, cache>> /\ adapter.run # "none" /\ adapter.at = CallOf[action]
    BY <1>6 DEF Call
  <2>2. CASE UNCHANGED helper /\ Fails
    BY <2>1, <2>2, Over DEF Fails, OpenInv, LeftByHelper, LeftByRun
  <2>3. CASE ~(UNCHANGED helper /\ Fails)
    <3>1. /\ helper'.action = action /\ helper'.todo = {i \in Image : cache[i] # "absent"}
          /\ adapter'.at = action /\ Missing = {}
      BY <1>6, <2>3, Called
    <3>2. helper'.todo = Image
      BY <3>1 DEF Missing, IncidentInv
    <3>3. /\ action = "repair" => adapter.at \in Trying
          /\ action = "confirm" => adapter.at \in Whole
      <4>1. CallOf["repair"] = "call repair" /\ CallOf["confirm"] = "call confirm"
        BY DEF CallOf
      <4> QED BY <2>1, <4>1 DEF Trying, Whole
    <3> QED BY <2>1, <3>1, <3>2, <3>3 DEF Calling, OpenInv, LeftByHelper, LeftByRun, Trying, Whole
  <2> QED BY <2>2, <2>3
<1>7. CASE HelperFails
  <2>1. helper'.action = "none" /\ UNCHANGED <<incident, cache>>
    BY <1>7, Off DEF HelperFails
  <2>2. adapter' = adapter \/ adapter'.run = "none"
    BY <1>7, Over DEF HelperFails, Fails
  <2> QED BY <2>1, <2>2 DEF OpenInv, LeftByHelper, LeftByRun
<1>8. CASE Answers
  <2>1. helper'.action = "none" /\ UNCHANGED <<incident, cache>> /\ helper.todo = {}
    BY <1>8, Off DEF Answers
  <2>2. \/ adapter' = adapter \/ adapter'.run = "none"
        \/ /\ helper.action = "check" /\ adapter'.at = "checked"
           /\ adapter'.corrupt = helper.corrupt
        \/ helper.action = "repair"
    BY <1>8, Answered, Over DEF Waits, EndsWith, Fails
  <2> QED BY <2>1, <2>2 DEF OpenInv, LeftByHelper, LeftByRun, Trying, Whole
<1>9. ASSUME NEW i \in Image, Check(i) PROVE OpenInv'
  <2>1. UNCHANGED <<adapter, cache>> /\ helper.action = "check"
    BY <1>9 DEF Check, Turn
  <2>2. \A j \in Image : Open(j)' => Open(j)
    BY <1>9 DEF Check, Resumed
  <2>3. helper'.action = "check" /\ helper'.todo = helper.todo \ {i}
        /\ helper.corrupt \subseteq helper'.corrupt
    BY <1>9, <2>1, Done DEF Check
  <2>4. Open(i)' => i \in helper'.corrupt /\ cache[i] = "corrupt"
    BY <1>9, Done DEF Check, Resumed
  <2> QED BY <2>1, <2>2, <2>3, <2>4 DEF OpenInv, LeftByHelper, LeftByRun
<1>10. ASSUME NEW i \in Image, Confirm(i) PROVE OpenInv'
  <2>1. \A j \in Image : ~Open(j)
    BY <1>10 DEF Confirm, Turn, OpenInv, LeftByHelper
  <2>2. \A j \in Image : ~Open(j)'
    BY <1>10, <2>1 DEF Confirm
  <2> QED BY <2>2 DEF OpenInv
<1>11. ASSUME NEW i \in Image, Skip(i) PROVE OpenInv'
  <2>1. UNCHANGED <<adapter, cache, incident>> /\ helper.action = "repair"
        /\ helper.at = NoReplacement /\ cache[i] = "intact"
    BY <1>11 DEF Skip, Turn, durable
  <2>2. helper'.action = "repair" /\ helper'.todo = helper.todo \ {i}
    BY <1>11, <2>1, Done DEF Skip
  <2>3. ~Open(i)
    BY <2>1 DEF OpenInv, LeftByHelper
  <2> QED BY <2>1, <2>2, <2>3 DEF OpenInv, LeftByHelper, LeftByRun
<1>12. ASSUME NEW i \in Image, Attempt(i) \/ Remove(i) \/ Pull(i) PROVE OpenInv'
  <2>1. helper.action = "repair" /\ UNCHANGED adapter /\ i \in helper.todo
    BY <1>12, AtReplacement DEF Attempt, Remove, Pull, Turn
  <2>2. PICK step \in {"remove", "pull", "verify"} : HelperAt([image |-> i, step |-> step])
    BY <1>12, Replacing
  <2>3. [image |-> i, step |-> step] # NoReplacement
    BY NoReplacementAssumption DEF Replacement
  <2>4. \A j \in Image \ {i} : cache'[j] = cache[j] /\ (Open(j)' => Open(j))
    BY <1>12 DEF Attempt, Remove, Pull
  <2>5. \A j \in Image \ {i} : Open(j) => cache[j] = "corrupt" /\ j \in helper.todo
    <3>1. helper.at = NoReplacement \/ helper.at.image = i
      <4>1. CASE Attempt(i)
        BY <4>1 DEF Attempt, Turn
      <4>2. CASE Remove(i) \/ Pull(i)
        BY <4>2 DEF Remove, Pull, Replaces
      <4> QED BY <1>12, <4>1, <4>2
    <3> QED BY <2>1, <3>1 DEF OpenInv, LeftByHelper
  <2>6. Helped
    BY <2>1, <2>2, <2>3, <2>4, <2>5 DEF HelperAt, LeftByHelper
  <2>7. Adapted
    BY <2>1, AtWork DEF LeftByRun, Trying, Whole
  <2> QED BY <2>6, <2>7 DEF OpenInv
<1>13. ASSUME NEW i \in Image, Verify(i) PROVE OpenInv'
  <2>1. UNCHANGED <<adapter, cache>> /\ helper.action = "repair" /\ helper.at.image = i
        /\ helper.at # NoReplacement
    <3>1. helper.action = "repair" /\ helper.at = [image |-> i, step |-> "verify"]
      BY <1>13, AtReplacement DEF Verify
    <3>2. [image |-> i, step |-> "verify"] # NoReplacement
      BY NoReplacementAssumption DEF Replacement
    <3> QED BY <1>13, <3>1, <3>2 DEF Verify
  <2>2. ~Open(i)' /\ \A j \in Image \ {i} : Open(j)' => Open(j)
    BY <1>13 DEF Verify
  <2>3. helper'.action = "repair" /\ helper'.todo = helper.todo \ {i}
    BY <1>13, <2>1, Verified
  <2> QED BY <2>1, <2>2, <2>3 DEF OpenInv, LeftByHelper, LeftByRun
<1>14. CASE Queue \/ StartWork \/ EndWork \/ AdapterKilled \/ Restart
  <2>1. UNCHANGED <<incident, cache>>
    BY <1>14 DEF Queue, StartWork, EndWork, AdapterKilled, Restart, durable
  <2>2. helper' = helper \/ helper'.action = "none"
    BY <1>14, Off DEF Queue, StartWork, EndWork, AdapterKilled, Restart
  <2>3. adapter' = adapter \/ adapter'.run = "none"
    BY <1>14, Over DEF Queue, StartWork, EndWork, AdapterKilled, Restart
  <2> QED BY <2>1, <2>2, <2>3 DEF OpenInv, LeftByHelper, LeftByRun
<1>15. CASE \E i \in Image : Corrupt(i) \/ Probed(i)
  <2>1. UNCHANGED <<adapter, helper, incident>>
    BY <1>15 DEF Corrupt, Probed, durable
  <2>2. \A j \in Image : cache[j] = "corrupt" => cache'[j] = "corrupt"
    BY <1>15 DEF Corrupt, Probed, durable
  <2> QED BY <2>1, <2>2 DEF OpenInv, LeftByHelper, LeftByRun
<1> QED BY <1>1, <1>2, <1>3, <1>4, <1>5, <1>6, <1>7, <1>8, <1>9, <1>10, <1>11, <1>12, <1>13, <1>14,
           <1>15 DEF RecoveryNext, AdapterStep, HelperStep, Calling

\* Every step preserves the invariant.
LEMMA RecoveryInductive == ASSUME RecoveryInv, [RecoveryNext]_recoveryVars PROVE RecoveryInv'
<1>1. CASE RecoveryNext
  BY <1>1, AdapterTypes, HelperTypes, OtherTypes, IncidentStep, ReplacementStep, MissingStep,
     CallStep, OwnerStep, OpenStep DEF RecoveryInv, RecoveryNext
<1>2. CASE UNCHANGED recoveryVars
  BY <1>2 DEF recoveryVars, durable, bounds, RecoveryInv, RecoveryTypes, IncidentInv, ReplacementInv, MissingInv,
              CallInv, OwnerInv, GuardHeld, OpenInv, LeftByHelper, LeftByRun
<1> QED BY <1>1, <1>2

-----------------------------------------------------------------------------
(* The theorems.                                                           *)

\* Adapter, helper and owner keep the invariant, whatever is killed.
THEOREM RecoveryInvariant == RecoverySpec => []RecoveryInv
<1>1. RecoveryInit => RecoveryInv
  BY RecoveryStarts
<1>2. RecoveryInv /\ [RecoveryNext]_recoveryVars => RecoveryInv'
  BY RecoveryInductive
<1> QED BY <1>1, <1>2, PTL DEF RecoverySpec

\* A repair has its images for itself and removes each once for an incident: the
\* incident files and the owner guard of _recover_images, and the journal that
\* outlives a killed adapter.
THEOREM ExclusiveRepair == RecoverySpec => []RepairIsExclusive
<1>1. RecoveryInv => RepairIsExclusive
  BY DEF RecoveryInv, IncidentInv, OwnerInv, RepairIsExclusive, RemovedOnce, OwnerWorkExcluded
<1> QED BY <1>1, RecoveryInvariant, PTL

\* No consumer runs while one of its images is missing (quiescence, and the
\* refusal of admitted_inventory after an interrupted removal).
THEOREM ImagesForConsumers == RecoverySpec => []ConsumersHaveImages
<1>1. RecoveryInv => ConsumersHaveImages
  BY DEF RecoveryInv, MissingInv, ConsumersHaveImages
<1> QED BY <1>1, RecoveryInvariant, PTL

\* An incident is closed only after the bytes of its image were compared, with every
\* image back and no consumer listed unready (the confirmation of the helper, after
\* the check of the same run).
THEOREM VerifiedCloses == RecoverySpec => ClosedWhenVerified
<1> DEFINE Closing(i) == incident[i] # "closed" /\ incident'[i] = "closed"
           Closed == \A i \in Image : Closing(i) =>
                       /\ incident[i] = "restored-awaiting-readiness"
                       /\ helper.ready
                       /\ \A j \in Image : cache[j] # "absent"
<1>1. ASSUME RecoveryInv, RecoveryNext PROVE Closed
  <2>1. ASSUME NEW i \in Image, Closing(i) PROVE Confirm(i) /\ helper.ready /\ incident[i] # "none"
    <3>1. CASE ImagesStay
      BY <2>1, <3>1 DEF ImagesStay
    <3>2. CASE HelperFails \/ Answers
      BY <2>1, <3>2 DEF HelperFails, Answers
    <3>3. ASSUME NEW j \in Image, Check(j) \/ Skip(j) \/ Attempt(j) \/ Verify(j) PROVE FALSE
      BY <1>1, <2>1, <3>3
      DEF Check, Resumed, Skip, Attempt, Verify, durable, RecoveryInv, RecoveryTypes
    <3>4. ASSUME NEW j \in Image, Remove(j) \/ Pull(j) \/ Corrupt(j) \/ Probed(j) PROVE FALSE
      BY <2>1, <3>4 DEF Remove, Pull, Corrupt, Probed, durable
    <3>5. ASSUME NEW j \in Image, Confirm(j)
          PROVE  Confirm(i) /\ helper.ready /\ incident[i] # "none"
      <4>1. j = i
        BY <1>1, <2>1, <3>5 DEF Confirm, RecoveryInv, RecoveryTypes
      <4>2. incident' # incident
        BY <2>1
      <4>3. helper.ready /\ incident[j] # "none"
        BY <3>5, <4>2 DEF Confirm
      <4> QED BY <3>5, <4>1, <4>3
    <3> QED BY <1>1, <3>1, <3>2, <3>3, <3>4, <3>5, Elsewhere DEF RecoveryNext, HelperStep
  <2>2. ASSUME NEW i \in Image, Closing(i)
        PROVE  incident[i] = "restored-awaiting-readiness" /\ \A j \in Image : cache[j] # "absent"
    <3>1. helper.action = "confirm"
      BY <2>1, <2>2 DEF Confirm, Turn
    <3>2. incident[i] # "attempted"
      BY <1>1, <3>1 DEF RecoveryInv, OpenInv, LeftByHelper
    <3>3. \A j \in Image : cache[j] # "absent"
      BY <1>1, <3>1 DEF RecoveryInv, MissingInv
    <3> QED BY <1>1, <2>1, <2>2, <3>2, <3>3 DEF RecoveryInv, RecoveryTypes, Incident
  <2> QED BY <2>1, <2>2
<1>2. RecoveryInv /\ [RecoveryNext]_recoveryVars => [Closed]_recoveryVars
  BY <1>1
<1> QED BY <1>2, RecoveryInvariant, PTL DEF RecoverySpec, ClosedWhenVerified
=============================================================================
