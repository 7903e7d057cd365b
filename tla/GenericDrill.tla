---------------------------- MODULE GenericDrill ----------------------------
(***************************************************************************)
(* A runtime drill that an operator records by hand (platform_drill.py):   *)
(* snapshot opens a run directory, attest-baseline, activate, verify,      *)
(* record and restore fill it.  Each command reads the five files of the   *)
(* run, changes what it read, and writes run.yaml and then the others back *)
(* in place, one after another; it may be killed between two writes or in  *)
(* one, which leaves that file without its content.  Commands of one run   *)
(* follow each other.                                                      *)
(***************************************************************************)
EXTENDS Naturals, Sequences

CONSTANTS Units,       \* the surfaces a profile may name
          Checks,      \* its verification checks
          MaxRecords,  \* bound: supplemental records
          MaxKills     \* bound: killed commands

ASSUME DrillAssumption == MaxRecords \in Nat /\ MaxKills \in Nat

VARIABLES
  contract,  \* the profile the snapshot copied: its scope and its restore scope
  file,      \* for each file of the run directory: absent, whole, or lost
  disk,      \* their contents
  work,      \* the command that runs: item, files still to write, new contents
  open,      \* items with a killed command that no later one has repaired
  kills

drillVars == <<contract, file, disk, work, open, kills>>

File == {"run", "baseline", "verification", "restore", "evidence"}
Phase == {"baseline", "activation", "verification", "restore"}
Items == (({"surface", "target"} \X Units) \cup ({"check"} \X Checks))
          \cup {<<"activation", "all">>, <<"record", "all">>, <<"snapshot", "all">>}
NoItem == <<"none", "none">>
Status == {"pending", "accepted", "exception"}

\* A profile names surfaces, and restores at least the surfaces of its scope.
ValidContract(c) == c.scope # {} /\ c.scope \subseteq c.targets

Contracts == {c \in [scope : SUBSET Units, targets : SUBSET Units] : ValidContract(c)}

\* The evidence template begins with everything pending.
NewEvidence(c) ==
  [attested |-> {}, capture |-> "pending", active |-> FALSE,
   check |-> [k \in Checks |-> "pending"], target |-> [t \in c.targets |-> "pending"],
   exceptions |-> {}, records |-> 0]

NewContents(c) ==
  [run |-> [phase |-> [p \in Phase |-> "pending"], records |-> 0],
   baseline |-> {},
   verification |-> [k \in Checks |-> "pending"],
   restore |-> [t \in c.targets |-> "pending"],
   evidence |-> NewEvidence(c)]

\* What the files of a run of this contract can hold.
Contents(c) ==
  [run : [phase : [Phase -> {"pending", "in-progress", "captured", "recorded"}],
          records : 0 .. MaxRecords],
   baseline : SUBSET c.scope,
   verification : [Checks -> Status],
   restore : [c.targets -> Status],
   evidence :
     [attested : SUBSET c.scope, capture : {"pending", "in-progress", "captured"},
      active : BOOLEAN, check : [Checks -> Status], target : [c.targets -> Status],
      exceptions : SUBSET Items, records : 0 .. MaxRecords]]

Resting == [item |-> NoItem, todo |-> << >>, new |-> << >>]
AtRest == work = Resting

DrillInit ==
  /\ contract \in Contracts
  /\ file = [f \in File |-> "absent"] /\ disk = NewContents(contract)
  /\ work = Resting /\ open = {} /\ kills = 0

(***************************************************************************)
(* Commands: what they require of the files they read, and what they       *)
(* will write.                                                             *)
(***************************************************************************)
Written == \A f \in File : file[f] # "absent"
Readable(files) == Written /\ \A f \in files : file[f] = "whole"

Begin(item, todo, new) ==
  /\ AtRest
  /\ work' = [item |-> item, todo |-> todo, new |-> new]
  /\ UNCHANGED <<contract, file, disk, open, kills>>

\* An interrupted snapshot leaves its directory behind; the next has another.
OpenRun ==
  /\ AtRest /\ file["run"] = "absent"
  /\ file' = [f \in File |-> "absent"] /\ disk' = NewContents(contract)
  /\ work' = [item |-> <<"snapshot", "all">>, new |-> NewContents(contract),
              todo |-> <<"baseline", "verification", "restore", "evidence", "run">>]
  /\ UNCHANGED <<contract, open, kills>>

\* Only what baseline.yaml says counts.
Attested(baseline, evidence) == baseline = contract.scope

\* Every surface is attested in both files.
AttestedInBoth(baseline, evidence) ==
  baseline = contract.scope /\ evidence.attested = contract.scope

AttestBaseline(s) ==
  LET baseline == disk.baseline \cup {s}
      recorded == [disk.evidence EXCEPT !.attested = @ \cup {s}]
      capture == IF AttestedInBoth(baseline, recorded) THEN "captured" ELSE "in-progress"
  IN /\ Readable({"run", "baseline", "evidence"})
     /\ s \in contract.scope /\ disk.run.phase["activation"] = "pending"
     /\ Begin(<<"surface", s>>, <<"run", "baseline", "evidence">>,
              [disk EXCEPT !.run.phase["baseline"] = capture, !.baseline = baseline,
                           !.evidence = [recorded EXCEPT !.capture = capture]])

ActivateRun ==
  /\ Readable({"run", "baseline", "evidence"})
  /\ disk.run.phase["baseline"] = "captured" /\ disk.evidence.capture = "captured"
  /\ AttestedInBoth(disk.baseline, disk.evidence)
  /\ Begin(<<"activation", "all">>, <<"run", "evidence">>,
           [disk EXCEPT !.run.phase["activation"] = "recorded", !.evidence.active = TRUE])

\* A phase is recorded once nothing of it is pending.
Progress(status) ==
  IF \A x \in DOMAIN status : status[x] # "pending" THEN "recorded" ELSE "in-progress"

\* An item that gets a status that needs no exception keeps the one it had.
Excepted(exceptions, item, status) ==
  IF status = "exception" THEN exceptions \cup {item} ELSE exceptions

\* The exception of an item is registered, or removed with its reason.
ExceptedOrNot(exceptions, item, status) ==
  IF status = "exception" THEN exceptions \cup {item} ELSE exceptions \ {item}

VerifyCheck(k, status) ==
  LET verification == [disk.verification EXCEPT ![k] = status]
      exceptions == ExceptedOrNot(disk.evidence.exceptions, <<"check", k>>, status)
      pack == [disk.evidence EXCEPT !.check[k] = status, !.exceptions = exceptions]
  IN
  /\ Readable({"run", "verification", "evidence"})
  /\ Begin(<<"check", k>>, <<"run", "verification", "evidence">>,
           [disk EXCEPT !.run.phase["verification"] = Progress(verification),
                        !.verification = verification,
                        !.evidence = pack])

RestoreSurface(t, status) ==
  LET restore == [disk.restore EXCEPT ![t] = status]
      exceptions == ExceptedOrNot(disk.evidence.exceptions, <<"target", t>>, status)
      pack == [disk.evidence EXCEPT !.target[t] = status, !.exceptions = exceptions]
  IN
  /\ t \in contract.targets
  /\ Readable({"run", "restore", "evidence"})
  /\ Begin(<<"target", t>>, <<"run", "restore", "evidence">>,
           [disk EXCEPT !.run.phase["restore"] = Progress(restore),
                        !.restore = restore,
                        !.evidence = pack])

\* A record needs nothing of what is in the files.
RecordEvidence ==
  /\ Written /\ disk.run.records < MaxRecords /\ disk.evidence.records < MaxRecords
  /\ Begin(<<"record", "all">>, <<"run", "evidence">>,
           [disk EXCEPT !.run.records = @ + 1, !.evidence.records = @ + 1])

DrillCommand ==
  \/ OpenRun \/ ActivateRun \/ RecordEvidence
  \/ \E s \in Units : AttestBaseline(s)
  \/ \E k \in Checks, status \in {"accepted", "exception"} : VerifyCheck(k, status)
  \/ \E t \in Units, status \in {"accepted", "exception"} : RestoreSurface(t, status)

(***************************************************************************)
(* Writes and kills.                                                       *)
(***************************************************************************)
\* A command that is repeated gives both files the status of its item.  A
\* record is appended to what they hold: nothing evens out a killed one.
Repaired == {work.item} \ {<<"record", "all">>}

\* What was lost stays lost: a command writes back what it read.
WriteFile ==
  LET f == Head(work.todo)
      rest == Tail(work.todo)
  IN /\ ~AtRest
     /\ disk' = [disk EXCEPT ![f] = work.new[f]]
     /\ file' = [file EXCEPT ![f] = IF @ = "lost" THEN @ ELSE "whole"]
     /\ work' = IF rest = << >> THEN Resting ELSE [work EXCEPT !.todo = rest]
     /\ open' = IF rest = << >> THEN open \ Repaired ELSE open
     /\ UNCHANGED <<contract, kills>>

\* run.yaml of a snapshot appears whole; every other file is rewritten in place.
InPlace(f) == ~(f = "run" /\ work.item[1] = "snapshot")

KillCommand ==
  LET f == Head(work.todo) IN
  /\ ~AtRest /\ kills < MaxKills
  /\ kills' = kills + 1
  /\ work' = Resting
  /\ open' = open \cup ({work.item} \ {<<"snapshot", "all">>})
  /\ \/ UNCHANGED <<file, disk>>
     \/ /\ InPlace(f)
        /\ file' = [file EXCEPT ![f] = "lost"]
        /\ disk' = [disk EXCEPT ![f] = NewContents(contract)[f]]
  /\ UNCHANGED contract

DrillNext == DrillCommand \/ WriteFile \/ KillCommand

(***************************************************************************)
(* What a run directory guarantees.                                        *)
(***************************************************************************)
DrillTypeOK ==
  /\ contract \in Contracts /\ kills \in 0 .. MaxKills /\ open \subseteq Items
  /\ file \in [File -> {"absent", "whole", "lost"}]
  /\ disk \in Contents(contract)
  /\ AtRest \/ work \in [item : Items, todo : Seq(File) \ {<< >>}, new : Contents(contract)]

Whole(files) == \A f \in files : file[f] = "whole"

\* Once an activation is recorded, every surface of the scope is attested with
\* evidence, in baseline.yaml and in evidence.yaml, whichever attestations were
\* killed half way before.
ActivatedOnBaseline ==
  Whole({"run"}) /\ disk.run.phase["activation"] = "recorded" =>
    /\ Whole({"baseline"}) => disk.baseline = contract.scope
    /\ Whole({"evidence"}) => disk.evidence.attested = contract.scope

\* Between commands the evidence pack and the ledgers agree, item by item, and
\* the exceptions are those of the items that have one: a killed command leaves
\* only its own item behind, until it is repeated.  A killed record stays
\* behind for good, and run.yaml is the file that has it.
LedgersAgree ==
  AtRest /\ Whole(File) =>
    /\ \A s \in contract.scope : <<"surface", s>> \notin open =>
         (s \in disk.baseline <=> s \in disk.evidence.attested)
    /\ \A k \in Checks : <<"check", k>> \notin open =>
         /\ disk.verification[k] = disk.evidence.check[k]
         /\ disk.verification[k] = "exception" <=> <<"check", k>> \in disk.evidence.exceptions
    /\ \A t \in contract.targets : <<"target", t>> \notin open =>
         /\ disk.restore[t] = disk.evidence.target[t]
         /\ disk.restore[t] = "exception" <=> <<"target", t>> \in disk.evidence.exceptions
    /\ <<"activation", "all">> \notin open =>
         (disk.run.phase["activation"] = "recorded" <=> disk.evidence.active)
    /\ disk.run.records >= disk.evidence.records
    /\ <<"record", "all">> \notin open => disk.run.records = disk.evidence.records

\* A run whose restore is recorded, with no restore command left killed, has
\* restored, or excepted, every surface it could have activated.
RestoreCoversScope ==
  AtRest /\ Whole(File) /\ disk.run.phase["restore"] = "recorded"
    /\ (\A t \in contract.targets : <<"target", t>> \notin open) =>
      \A s \in contract.scope : s \in contract.targets /\ disk.restore[s] # "pending"
=============================================================================
