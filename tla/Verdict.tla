--------------------------------- MODULE Verdict ---------------------------------
(***************************************************************************)
(* What Proofline and RunDiff conclude from two captures that may be       *)
(* incomplete.  Of each run there is what happened, which only the         *)
(* property looks at, and the evidence: what was recorded, and what the    *)
(* capture says about its completeness.  Evidence is honest, which is what *)
(* ProfileEvidence and CaptureExecution are about; a conclusion is passed, *)
(* failed or left open.                                                    *)
(*                                                                         *)
(* What was not recorded is -1.  A number of dropped records that is not 0 *)
(* counts like one that is unknown.                                        *)
(***************************************************************************)
EXTENDS Integers

CONSTANTS
  ExitCodes,    \* the statuses that a command can exit with
  Outputs,      \* what it can write
  Measurements, \* the times and sizes that can be measured
  MaxCount,     \* bound: operations of one run
  Percent,      \* of max_regression: how much more than the baseline
  Factor        \* of max_operation_count: how many times the baseline

ASSUME VerdictAssumption ==
  /\ -1 \notin ExitCodes /\ -1 \notin Outputs /\ Measurements \subseteq Nat
  /\ MaxCount \in Nat /\ Percent \in Nat /\ Factor \in Nat

VARIABLES
  question,   \* the assertion, or the comparison
  family,     \* where the records of the operation come from
  runs,       \* the two runs
  answer

verdictVars == <<question, family, runs, answer>>

Unrecorded == -1
Sides == {"baseline", "candidate"}
\* "http" stands for subprocesses, connections and connection setup too: they are treated alike.
OperationFamilies == {"http", "logical", "annotation"}

-----------------------------------------------------------------------------
(* Runs, as captures may leave them, with what each question is about.     *)

\* A stream whose bytes were not all seen is not complete.
Streams == {[seen |-> s, complete |-> c, happened |-> h] :
              s \in {Unrecorded} \union Outputs, c \in {Unrecorded, 0, 1}, h \in Outputs}
HonestStreams == {s \in Streams : s.complete = 1 => s.seen = s.happened}

\* Counts, for an operation that one family records.
FamilyStatuses(f) == IF f = "annotation" THEN {"none"}
  ELSE {"none", "complete", "truncated"} \union IF f = "logical" THEN {"unavailable"} ELSE {}

Counts(f) ==
  {[status |-> s, seen |-> n, happened |-> h, errors |-> e, failed |-> x, annotationError |-> a, dropped |-> d] :
     s \in FamilyStatuses(f), n \in 0..MaxCount, h \in 0..MaxCount, e \in 0..MaxCount, x \in 0..MaxCount,
     a \in BOOLEAN, d \in {Unrecorded, 0}}

Lossless(f, c) ==
  IF f = "annotation" THEN ~c.annotationError ELSE c.status = "complete" /\ ~c.annotationError

HonestCounts(f) == {c \in Counts(f) :
  /\ c.seen <= c.happened /\ c.errors <= c.seen /\ c.errors <= c.failed /\ c.failed <= c.happened
  /\ c.status \in {"none", "unavailable"} /\ f # "annotation" => c.seen = 0
  /\ Lossless(f, c) => c.seen = c.happened
  /\ Lossless(f, c) /\ c.dropped = 0 => c.errors = c.failed}

\* Events of the profile's families all belong to the captured process: no
\* dependency between two entities rests on them.
HonestDependencies ==
  {d \in [seen : 0..MaxCount, happened : 0..MaxCount, annotationError : BOOLEAN,
           missing : {Unrecorded, 0, 1}, dropped : {Unrecorded, 0, 1}] :
     /\ d.seen <= d.happened
     /\ ~d.annotationError /\ d.missing = 0 /\ d.dropped = 0 => d.seen = d.happened}

Measured == [value : {Unrecorded} \union Measurements, mode : {"passive", "deep"}]

Wholes == [exit : {Unrecorded} \union ExitCodes,
           stdout : {s \in HonestStreams : s.complete # Unrecorded /\ s.seen # Unrecorded},
           errors : {c \in HonestCounts("http") : c.happened > 0 /\ ~c.annotationError /\ c.status # "none"}]

Questions == {"candidate_exit_success", "exit_code_equivalent", "output_equivalent", "max_regression",
              "forbid_new_dependency", "max_operation_count", "max_operation_error_count", "outcome"}

Runs(q, f) ==
  CASE q \in {"candidate_exit_success", "exit_code_equivalent"} -> {Unrecorded} \union ExitCodes
    [] q = "output_equivalent" -> HonestStreams
    [] q = "max_regression" -> Measured
    [] q = "forbid_new_dependency" -> HonestDependencies
    [] q = "outcome" -> Wholes
    [] OTHER -> HonestCounts(f)

Base == runs.baseline
Cand == runs.candidate
Either(P(_)) == P(Base) \/ P(Cand)

VerdictInit ==
  question = "none" /\ family = "none" /\ runs = [a \in Sides |-> Unrecorded] /\ answer = "none"

Ask ==
  /\ question = "none"
  /\ question' \in Questions
  /\ family' \in IF question' \in {"max_operation_count", "max_operation_error_count"} THEN OperationFamilies ELSE {"http"}
  /\ UNCHANGED <<runs, answer>>

Captured ==
  /\ question # "none" /\ answer = "none"
  /\ \E b, c \in Runs(question, family) : runs' = [baseline |-> b, candidate |-> c]
  /\ answer' = "asked"
  /\ UNCHANGED <<question, family>>

-----------------------------------------------------------------------------
(* RunDiff.                                                                *)

KnownEquivalence(a, b) == IF a = Unrecorded \/ b = Unrecorded THEN "unknown" ELSE IF a = b THEN "yes" ELSE "no"

OutputEquivalence(a, b) ==
  IF a.seen = Unrecorded \/ b.seen = Unrecorded \/ a.complete # 1 \/ b.complete # 1 THEN "unknown"
  ELSE IF a.seen = b.seen THEN "yes" ELSE "no"

\* Of a family that neither run captured there is nothing to miss.
SemanticObservationComplete(a, b) == (a.status = "none" /\ b.status = "none") \/ (a.status = "complete" /\ b.status = "complete")

OptionalObservationComplete(a, b) ==
  ({a.status, b.status} \subseteq {"none", "unavailable"}) \/ (a.status = "complete" /\ b.status = "complete")

ErrorEquivalence(a, b) ==
  IF a.annotationError \/ b.annotationError \/ a.dropped # 0 \/ b.dropped # 0 \/ ~SemanticObservationComplete(a, b)
  THEN "unknown" ELSE IF a.errors = b.errors THEN "yes" ELSE "no"

Outcome(parts) ==
  IF "no" \in parts THEN "different" ELSE IF parts = {"yes"} THEN "equivalent" ELSE "unknown"

-----------------------------------------------------------------------------
(* _evaluate, one definition for each kind of assertion.                   *)

Verdict(known, holds) == IF ~known THEN "unverifiable" ELSE IF holds THEN "pass" ELSE "fail"

CandidateExitSuccess == Verdict(Cand # Unrecorded, Cand = 0)

ThreeValued(equivalence) == Verdict(equivalence # "unknown", equivalence = "yes")

MaxRegression ==
  Verdict(Base.mode = Cand.mode /\ Base.value # Unrecorded /\ Cand.value # Unrecorded,
          100 * Cand.value <= (100 + Percent) * Base.value)

SemanticIncomplete == Either(LAMBDA r : r.dropped # 0)
CausalIncomplete == Either(LAMBDA r : r.missing # 0)

\* Seeded fault: unknown completeness is taken for completeness.
KnownCausalIncomplete ==
  Verdict(~(Either(LAMBDA r : r.annotationError) \/ SemanticIncomplete \/ Either(LAMBDA r : r.missing > 0)),
          ~(Base.seen = 0 /\ Cand.seen > 0))

ForbidNewDependency ==
  Verdict(~(Either(LAMBDA r : r.annotationError) \/ SemanticIncomplete \/ CausalIncomplete),
          ~(Base.seen = 0 /\ Cand.seen > 0))

\* The status of the other families is not the question here.
FamilyIncomplete ==
  CASE family = "annotation" -> FALSE
    [] family = "logical" -> ~OptionalObservationComplete(Base, Cand)
    [] OTHER -> ~SemanticObservationComplete(Base, Cand)

MaxOperationCount(errorsOnly) ==
  LET Amount(r) == IF errorsOnly THEN r.errors ELSE r.seen
      incomplete == Either(LAMBDA r : r.annotationError) \/ FamilyIncomplete \/ (errorsOnly /\ SemanticIncomplete)
  IN Verdict(~incomplete /\ ~(Base.seen = 0 /\ Cand.seen = 0), Amount(Cand) <= Factor * Amount(Base))

Evaluate ==
  CASE question = "candidate_exit_success" -> CandidateExitSuccess
    [] question = "exit_code_equivalent" -> ThreeValued(KnownEquivalence(Base, Cand))
    [] question = "output_equivalent" -> ThreeValued(OutputEquivalence(Base, Cand))
    [] question = "max_regression" -> MaxRegression
    [] question = "forbid_new_dependency" -> ForbidNewDependency
    [] question = "max_operation_count" -> MaxOperationCount(FALSE)
    [] question = "max_operation_error_count" -> MaxOperationCount(TRUE)
    [] OTHER -> Outcome({KnownEquivalence(Base.exit, Cand.exit), OutputEquivalence(Base.stdout, Cand.stdout),
                         ErrorEquivalence(Base.errors, Cand.errors)})

Answer ==
  /\ answer = "asked" /\ answer' = Evaluate
  /\ UNCHANGED <<question, family, runs>>

VerdictNext == Ask \/ Captured \/ Answer

VerdictSpec == VerdictInit /\ [][VerdictNext]_verdictVars

-----------------------------------------------------------------------------

\* What somebody who saw the runs themselves would say.
Truth ==
  CASE question = "candidate_exit_success" -> Cand = 0
    [] question = "exit_code_equivalent" -> Base = Cand
    [] question = "output_equivalent" -> Base.happened = Cand.happened
    [] question = "max_regression" -> 100 * Cand.value <= (100 + Percent) * Base.value
    [] question = "forbid_new_dependency" -> ~(Base.happened = 0 /\ Cand.happened > 0)
    [] question = "max_operation_count" -> Cand.happened <= Factor * Base.happened
    [] question = "max_operation_error_count" -> Cand.failed <= Factor * Base.failed
    [] OTHER -> /\ Base.exit = Cand.exit /\ Base.stdout.happened = Cand.stdout.happened
                /\ SemanticObservationComplete(Base.errors, Cand.errors) /\ Base.errors.status = "complete" =>
                     Base.errors.failed = Cand.errors.failed

(* A conclusion that is drawn from incomplete evidence would be drawn from *)
(* the runs themselves: what passes or is equivalent is so, and what fails *)
(* or is different is not.                                                 *)
ConclusionsAreTrue ==
  /\ answer \in {"pass", "equivalent"} => Truth
  /\ answer \in {"fail", "different"} => ~Truth
=================================================================================
