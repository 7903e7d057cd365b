------------------------------- MODULE Drills -------------------------------
(***************************************************************************)
(* A run directory of platform_drill.py belongs either to a controlled     *)
(* proof, which only its executor and the closing commands may change      *)
(* (module ProofSession), or to a drill recorded by hand (GenericDrill).   *)
(* The snapshot decides, and every command asks which of them it is.       *)
(***************************************************************************)
EXTENDS ProofSession, GenericDrill

VARIABLE kind  \* "controlled" when run.yaml has the entry controlledProof

drillsVars == <<vars, drillVars, kind>>

\* A controlled proof has the one profile of the commissioning.
DrillsInit ==
  /\ Init /\ DrillInit
  /\ kind \in {"controlled", "generic"}
  /\ kind = "controlled" => contract = [scope |-> Units, targets |-> Units]

\* What a command of a controlled proof requires.
ControlledProof == kind = "controlled"

Apart == UNCHANGED <<drillVars, kind>>

ControlledStep == ControlledProof /\ Next /\ Apart

GenericStep == ~ControlledProof /\ DrillNext /\ UNCHANGED <<vars, kind>>

DrillsNext == ControlledStep \/ GenericStep

\* The fairness of the controlled proof, as long as it is one.
DrillsFairness ==
  /\ WF_drillsVars(ControlledProof /\ ExecuteStep /\ Apart)
  /\ \A c \in Command : WF_drillsVars(ControlledProof /\ CommandStepOf(c) /\ Apart)
  /\ WF_drillsVars(ControlledProof /\ Load("exception") /\ Apart)
  /\ WF_drillsVars(ControlledProof /\ Load("finalize") /\ Apart)

DrillsSpec == DrillsInit /\ [][DrillsNext]_drillsVars /\ DrillsFairness

-----------------------------------------------------------------------------
(* What a run directory guarantees, of whichever kind it is.               *)

\* A controlled proof accounts for its scope and its end: what is released is
\* empty and verified, and no execution ends without evidence.
SessionIsAccounted ==
  TypeOK /\ ReleasedScopeIsEmpty /\ ClosureIsVerified /\ EndsWithEvidence

\* The files of one run directory never say more than each other.
RunFilesAgree == RunIsBacked /\ LedgersAgree

\* A drill was attested before it was activated, and is restored as a whole.
DrillIsWhole == DrillTypeOK /\ ActivatedOnBaseline /\ RestoreCoversScope

\* A result is written once, and passes only about a whole proof.
ResultIsFinal == PassesOnlyWhole /\ ResultIsImmutable
=============================================================================
