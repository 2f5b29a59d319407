------------------------------- MODULE Experiment -------------------------------
(***************************************************************************)
(* A Proofline experiment: both commits are tried in a worktree, then each *)
(* is captured in a worktree of its own, and the two captures are          *)
(* compared.  Every step may fail, or be interrupted when it has been done *)
(* and before that was noted; then what was noted is taken back, by steps  *)
(* that may fail as well.                                                  *)
(***************************************************************************)
EXTENDS Integers, Sequences, SequencesExt, FiniteSets

VARIABLES
  at,          \* the step of the plan
  roots,       \* temporary directories that exist
  noted,       \* temporary_roots
  registered,  \* worktrees that Git knows
  added,       \* added
  descriptor,  \* the reserved annotation descriptor: none, open, noted or closed
  output,      \* the output directory: none, ours or somebody else's
  packs,       \* runpacks in it
  escaping,    \* the error on its way out of the try statement
  cleanup,     \* cleanup_error
  unnoted,     \* what a failed step did without its being noted
  ending

experimentVars == <<at, roots, noted, registered, added, descriptor, output, packs, escaping, cleanup, unnoted, ending>>

Arms == {"baseline", "candidate"}

\* The steps in the try statement, each on a worktree, a root or nothing.
Plan ==
  <<<<"reserve", "">>, <<"root", "annotations">>, <<"annotations", "">>, <<"root", "preflight">>,
    <<"add", "preflight">>, <<"workload", "preflight">>, <<"remove", "preflight">>,  \* the baseline
    <<"add", "preflight">>, <<"workload", "preflight">>, <<"remove", "preflight">>,  \* the candidate
    <<"discard", "preflight">>, <<"output", "">>,
    <<"root", "baseline">>, <<"add", "baseline">>, <<"workload", "baseline">>,
    <<"capture", "baseline">>, <<"clean", "baseline">>, <<"remove", "baseline">>,
    <<"root", "candidate">>, <<"add", "candidate">>, <<"workload", "candidate">>,
    <<"capture", "candidate">>, <<"clean", "candidate">>, <<"remove", "candidate">>,
    <<"verify", "">>>>

InCleanup == Len(Plan) + 1
PlannedStep == Plan[at]

NoOutcome == [raised |-> "nothing", note |-> FALSE]

ExperimentInit ==
  /\ at = 1 /\ roots = {} /\ noted = <<>> /\ registered = {} /\ added = <<>>
  /\ descriptor = "none" /\ output = "none" /\ packs = {}
  /\ escaping = "none" /\ cleanup = "none" /\ unnoted = {} /\ ending = NoOutcome

-----------------------------------------------------------------------------
(* What a step does, and what the program notes of it.                     *)

Op(op) == at <= Len(Plan) /\ PlannedStep[1] = op

Succeed == at' = at + 1 /\ UNCHANGED <<escaping, unnoted>>

\* The step is left by an error, or by an interrupt.
FailStep(done) ==
  /\ at' = InCleanup
  /\ escaping' \in {"failed", "interrupted"}
  /\ unnoted' = IF done THEN unnoted \union {PlannedStep} ELSE unnoted

Rest == UNCHANGED <<cleanup, ending>>

ReserveDescriptor ==
  /\ Op("reserve")
  /\ \/ Succeed /\ descriptor' = "noted"
     \/ \E done \in BOOLEAN : FailStep(done) /\ descriptor' = IF done THEN "open" ELSE "none"
  /\ UNCHANGED <<roots, noted, registered, added, output, packs>> /\ Rest

\* _temporary_worktree_root and allocate_worktree.
MakeRoot ==
  /\ Op("root")
  /\ \/ Succeed /\ roots' = roots \union {PlannedStep[2]} /\ noted' = Append(noted, PlannedStep[2])
     \/ \E done \in BOOLEAN :
          FailStep(done) /\ roots' = (IF done THEN roots \union {PlannedStep[2]} ELSE roots) /\ UNCHANGED noted
  /\ UNCHANGED <<registered, added, descriptor, output, packs>> /\ Rest

AddWorktree ==
  /\ Op("add")
  /\ \/ Succeed /\ registered' = registered \union {PlannedStep[2]} /\ added' = Append(added, PlannedStep[2])
     \/ \E done \in BOOLEAN :
          /\ FailStep(done) /\ UNCHANGED added
          /\ registered' = IF done THEN registered \union {PlannedStep[2]} ELSE registered
  /\ UNCHANGED <<roots, noted, descriptor, output, packs>> /\ Rest

RemoveWorktree ==
  /\ Op("remove")
  /\ \/ /\ Succeed /\ registered' = registered \ {PlannedStep[2]}
        /\ \E i \in DOMAIN added : /\ added[i] = PlannedStep[2] /\ \A j \in 1..i - 1 : added[j] # PlannedStep[2]
                                  /\ added' = RemoveAt(added, i)
     \/ /\ FailStep(FALSE) /\ UNCHANGED added
        /\ registered' \in {registered, registered \ {PlannedStep[2]}}
  /\ UNCHANGED <<roots, noted, descriptor, output, packs>> /\ Rest

\* The private annotation directory, a workload that must be in the worktree
\* and leave it clean, and the comparison: they change nothing that is kept here.
LookOver ==
  /\ at <= Len(Plan) /\ PlannedStep[1] \in {"annotations", "workload", "clean", "verify"}
  /\ Succeed \/ FailStep(FALSE)
  /\ UNCHANGED <<roots, noted, registered, added, descriptor, output, packs>> /\ Rest

\* rmtree, errors ignored.
DiscardPreflight ==
  /\ Op("discard")
  /\ Succeed \/ FailStep(FALSE)
  /\ roots' \in {roots, roots \ {PlannedStep[2]}}
  /\ UNCHANGED <<noted, registered, added, descriptor, output, packs>> /\ Rest

CreateOutputDirectory ==
  /\ Op("output")
  /\ \/ output = "none" /\ Succeed /\ output' = "ours"
     \/ \E done \in BOOLEAN :
          FailStep(FALSE) /\ output' = IF done /\ output = "none" THEN "ours" ELSE output
  /\ UNCHANGED <<roots, noted, registered, added, descriptor, packs>> /\ Rest

\* record_process: CaptureRecovery has the steps of it.
Capture ==
  /\ Op("capture")
  /\ \/ Succeed /\ packs' = packs \union {PlannedStep[2]}
     \/ FailStep(FALSE) /\ packs' \in {packs, packs \union {PlannedStep[2]}}
  /\ UNCHANGED <<roots, noted, registered, added, descriptor, output>> /\ Rest

OtherMakesOutput ==
  /\ at <= Len(Plan) /\ output = "none" /\ output' = "others"
  /\ UNCHANGED <<at, roots, noted, registered, added, descriptor, packs, escaping, unnoted>> /\ Rest

-----------------------------------------------------------------------------
(* The finally clause.                                                     *)

Cleaning == at = InCleanup /\ ending = NoOutcome

CleanWorktree ==
  /\ Cleaning /\ added # <<>>
  /\ added' = Front(added)
  /\ \/ Last(added) \in registered /\ registered' = registered \ {Last(added)} /\ UNCHANGED cleanup
     \/ UNCHANGED registered /\ cleanup' = "cleanup"
  /\ UNCHANGED <<at, roots, noted, descriptor, output, packs, escaping, unnoted, ending>>

CloseDescriptor ==
  /\ Cleaning /\ added = <<>> /\ descriptor = "noted"
  /\ descriptor' = "closed" /\ cleanup' \in {cleanup, "cleanup"}
  /\ UNCHANGED <<at, roots, noted, registered, added, output, packs, escaping, unnoted, ending>>

DiscardRoot ==
  /\ Cleaning /\ added = <<>> /\ descriptor # "noted" /\ noted # <<>>
  /\ noted' = Tail(noted) /\ roots' \in {roots, roots \ {Head(noted)}}
  /\ UNCHANGED <<at, registered, added, descriptor, output, packs, escaping, cleanup, unnoted, ending>>

\* Seeded fault: an error of the cleanup takes the place of the first one.
ReportedCleanupFirst ==
  /\ Cleaning /\ added = <<>> /\ descriptor # "noted" /\ noted = <<>>
  /\ ending' = [raised |-> IF cleanup = "none" THEN escaping ELSE cleanup, note |-> FALSE]
  /\ UNCHANGED <<at, roots, noted, registered, added, descriptor, output, packs, escaping, cleanup, unnoted>>

Reported ==
  /\ Cleaning /\ added = <<>> /\ descriptor # "noted" /\ noted = <<>>
  /\ ending' = IF escaping = "none" THEN [raised |-> cleanup, note |-> FALSE]
                ELSE [raised |-> escaping, note |-> cleanup # "none"]
  /\ UNCHANGED <<at, roots, noted, registered, added, descriptor, output, packs, escaping, cleanup, unnoted>>

\* Only ExperimentError is caught here.
CleanupInterrupted ==
  /\ Cleaning /\ ending' = [raised |-> "interruptedCleanup", note |-> FALSE]
  /\ UNCHANGED <<at, roots, noted, registered, added, descriptor, output, packs, escaping, cleanup, unnoted>>

ExperimentNext ==
  \/ ReserveDescriptor \/ MakeRoot \/ AddWorktree \/ RemoveWorktree \/ LookOver \/ DiscardPreflight
  \/ CreateOutputDirectory \/ Capture \/ OtherMakesOutput
  \/ CleanWorktree \/ CloseDescriptor \/ DiscardRoot \/ Reported \/ CleanupInterrupted

ExperimentSpec == ExperimentInit /\ [][ExperimentNext]_experimentVars

-----------------------------------------------------------------------------

(* However an experiment ends: a result stands for two captures in a       *)
(* directory of its own and nothing left behind in Git; a worktree that is *)
(* left was added by a call that failed, or the failure to remove it is    *)
(* reported, beside the first error and not in its place; and a directory  *)
(* of somebody else's is not written to.                                   *)
ExperimentCleansUp ==
  /\ output # "ours" => packs = {}
  /\ ending.raised \notin {"nothing", "interruptedCleanup"} =>
       /\ ending.raised = "none" =>
            registered = {} /\ descriptor = "closed" /\ packs = Arms /\ output = "ours"
       /\ \A w \in registered : <<"add", w>> \in unnoted \/ ending.raised = "cleanup" \/ ending.note
       /\ escaping # "none" => ending.raised = escaping
       /\ descriptor # "open" \/ <<"reserve", "">> \in unnoted
=================================================================================
