---------------------------- MODULE MCCaptureFiles --------------------------
(***************************************************************************)
(* Two parts of a capture that write files somebody else reads while they  *)
(* are written: the temporary runpack and a detached job's output.  They   *)
(* share no variable, so a behaviour here is a behaviour of one of them,   *)
(* named by `subject`, and the other stays as it began.                    *)
(***************************************************************************)
EXTENDS CaptureRecovery, DetachedOutput

VARIABLE subject

filesVars == <<subject, vars, outputVars>>

\* Whether the capture was profiled is all the same to its output.
FilesInit ==
  /\ subject \in {"recovery", "output"}
  /\ Init /\ OutputInit
  /\ subject = "output" => ~dir.there

FilesNext ==
  \/ subject = "recovery" /\ Next /\ UNCHANGED <<subject, outputVars>>
  \/ subject = "output" /\ OutputNext /\ UNCHANGED <<subject, vars>>

\* The fairness of each part, as FairSpec and OutputFairSpec state it.
FilesSpec ==
  /\ FilesInit /\ [][FilesNext]_filesVars
  /\ WF_vars(subject = "recovery" /\ ControllerStep)
  /\ \A p \in Procs : WF_vars(subject = "recovery" /\ ProcStep(p))
  /\ \A r \in Recoverers : WF_vars(subject = "recovery" /\ BeginRecovery(r))
  /\ WF_outputVars(subject = "output" /\ MainStep)
  /\ WF_outputVars(subject = "output" /\ FollowStep)

=============================================================================
