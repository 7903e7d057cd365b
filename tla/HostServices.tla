----------------------------- MODULE HostServices -----------------------------
(***************************************************************************)
(* The host-side process a development profile declares, with the record   *)
(* the shared runner keeps of it (dev_integration_host_services.py).  The  *)
(* steps are taken by the commands of module DevSession; this module says  *)
(* what a step reads from the record and what it does to it.  A start is   *)
(* one spawned process: its leader, whose identity the record holds, and   *)
(* its group.                                                              *)
(***************************************************************************)
EXTENDS Naturals, FiniteSets

CONSTANTS Profiles,  \* profiles of the composition
          Hosted     \* profiles that declare a service at first

VARIABLES
  record,    \* service.yaml of each profile
  leaders,   \* starts whose leader lives
  groups,    \* starts of which a process lives
  reused,    \* the recorded process id belongs to another process
  lost,      \* starts whose record was never written: their starter was killed
  lock       \* holder of the profile's lock, 0 for none

services == <<record, leaders, groups, reused, lost, lock>>

\* Starts are numbered, 0 is none.
Start == Nat \ {0}
Absent == [status |-> "absent", start |-> 0, digest |-> 0, current |-> FALSE]

ServicesTypeOK ==
  /\ record \in [Profiles -> [status : {"absent", "starting", "running", "stopped", "failed"},
                              start : Nat, digest : 0 .. 2, current : BOOLEAN]]
  /\ leaders \in [Profiles -> SUBSET Start] /\ groups \in [Profiles -> SUBSET Start]
  /\ \A p \in Profiles : leaders[p] \subseteq groups[p] /\ lost[p] \subseteq groups[p]

ServicesInit(running) ==
  /\ record = [p \in Profiles |->
       IF running /\ p \in Hosted
         THEN [status |-> "running", start |-> 1, digest |-> 1, current |-> TRUE] ELSE Absent]
  /\ groups = [p \in Profiles |-> IF running /\ p \in Hosted THEN {1} ELSE {}]
  /\ leaders = groups
  /\ reused = [p \in Profiles |-> FALSE]
  /\ lost = [p \in Profiles |-> {}]
  /\ lock = [p \in Profiles |-> 0]

\* The process id, its start time and the boot must all be the recorded ones.
Identity(p) ==
  IF record[p].start = 0 \/ ~record[p].current THEN "not-running"
  ELSE IF record[p].start \in leaders[p] THEN "running"
  ELSE IF reused[p] THEN "identity-mismatch"
  ELSE "not-running"

\* A record that does not say stopped is reconciled although nothing declares it.
Unreconciled(p) == record[p].status \notin {"absent", "stopped"} \/ record[p].start # 0

\* The service runs with the digest of the present declaration.
Configured(p, digest) == Identity(p) = "running" /\ record[p].digest = digest

Gone(p, n) ==
  /\ groups' = [groups EXCEPT ![p] = @ \ {n}]
  /\ leaders' = [leaders EXCEPT ![p] = @ \ {n}]

Recorded(p, status, n, digest) ==
  /\ record' = [record EXCEPT ![p] = [status |-> status, start |-> n, digest |-> digest,
                                      current |-> TRUE]]
  /\ reused' = [reused EXCEPT ![p] = FALSE]

\* The recorded group ends, its leader alive or not.
Stopped(p) ==
  /\ IF record[p].current THEN Gone(p, record[p].start) ELSE UNCHANGED <<groups, leaders>>
  /\ Recorded(p, "stopped", 0, record[p].digest)

\* Before a start only a service whose identity holds is stopped.
Cleared(p) ==
  IF Identity(p) = "running" THEN Stopped(p) ELSE UNCHANGED <<record, leaders, groups, reused>>

\* A number that stands for no process and is not recorded.
Unused(p) ==
  CHOOSE n \in 1 .. Cardinality(groups[p]) + 2 : n \notin groups[p] \cup {record[p].start}

Spawned(p, n) ==
  /\ groups' = [groups EXCEPT ![p] = @ \cup {n}]
  /\ leaders' = [leaders EXCEPT ![p] = @ \cup {n}]

\* Anyone may start or stop the service.
Unguarded(p) == TRUE

\* Nobody but the holder of the lock starts or stops the service.
Free(p) == lock[p] = 0
Take(p, s) == lock' = [lock EXCEPT ![p] = s]
Yield(p) == lock' = [lock EXCEPT ![p] = 0]
Freed(s) == lock' = [p \in Profiles |-> IF lock[p] = s THEN 0 ELSE lock[p]]

\* A leader ends, its group with it or not.
LeaderDies(p) ==
  \E n \in leaders[p] :
    /\ leaders' = [leaders EXCEPT ![p] = @ \ {n}]
    /\ groups' \in {groups, [groups EXCEPT ![p] = @ \ {n}]}
    /\ lost' = [lost EXCEPT ![p] = @ \cap groups'[p]]
    /\ UNCHANGED <<record, reused, lock>>

\* The kernel gives the recorded process id to another process.
Reuse(p) ==
  /\ record[p].start # 0 /\ record[p].current /\ record[p].start \notin groups[p]
  /\ ~reused[p]
  /\ reused' = [reused EXCEPT ![p] = TRUE]
  /\ UNCHANGED <<record, leaders, groups, lost, lock>>

StrangerLeaves(p) ==
  /\ reused[p]
  /\ reused' = [reused EXCEPT ![p] = FALSE]
  /\ UNCHANGED <<record, leaders, groups, lost, lock>>

\* The host comes up again: no process is left, and the boot is another one.
ServicesReboot ==
  /\ leaders' = [p \in Profiles |-> {}]
  /\ groups' = [p \in Profiles |-> {}]
  /\ lost' = [p \in Profiles |-> {}]
  /\ reused' = [p \in Profiles |-> FALSE]
  /\ lock' = [p \in Profiles |-> 0]
  /\ record' = [p \in Profiles |-> [record[p] EXCEPT !.current = FALSE]]
=============================================================================
