-------------------------- MODULE CounterexampleSearch --------------------------
(***************************************************************************)
(* The search for parameters that violate a contract, and the shrinking of *)
(* those it finds: every question is an experiment, its answer is kept,    *)
(* and there is a budget of them.  A last experiment, which is preserved,  *)
(* has to violate the contract again.                                      *)
(***************************************************************************)
EXTENDS Integers, Sequences, SequencesExt, FiniteSets, FiniteSetsExt

CONSTANTS
  Ranges,   \* the choices of a minimum and a maximum for each parameter, in order
  Budgets   \* the choices of max_examples

\* load_parameters refuses any other ranges, search_counterexample any other budget.
RangesAndBudgets ==
  /\ Budgets \subseteq Nat \ {0}
  /\ \A r \in Ranges : /\ r \in Seq(Int \X Int) /\ r # <<>>
                        /\ \A p \in DOMAIN r : r[p][1] <= r[p][2]

ASSUME SearchAssumption == RangesAndBudgets

VARIABLES
  range,       \* minimum and maximum of each parameter
  budget,      \* max_examples
  searcher,    \* where the search is
  tried,       \* the candidates that were tried
  verdicts,    \* cache: the answers
  exhausted,   \* shrink_budget_exhausted
  found,       \* the values that are shrunk
  parameter,   \* the parameter that is shrunk
  nonviolating, violating,  \* the interval that is bisected
  preserved    \* what the last experiment said

searchVars == <<range, budget, searcher, tried, verdicts, exhausted, found, parameter, nonviolating, violating, preserved>>

NoValues == <<>>

SearchInit ==
  /\ range = NoValues /\ budget = 0 /\ searcher = "parameters" /\ tried = {} /\ verdicts = [v \in {} |-> FALSE]
  /\ exhausted = FALSE /\ found = NoValues /\ parameter = 1
  /\ nonviolating = 0 /\ violating = 0 /\ preserved = "none"

Parameters == DOMAIN range
Values == {v \in [Parameters -> UNION {range[p][1]..range[p][2] : p \in Parameters}] :
             \A p \in Parameters : v[p] \in range[p][1]..range[p][2]}

\* The value of a parameter that is nearest to zero.
Target(p) == Min({range[p][2], Max({range[p][1], 0})})
Abs(n) == IF n < 0 THEN -n ELSE n

\* load_parameters
LoadParameters ==
  /\ searcher = "parameters"
  /\ range' \in Ranges /\ budget' \in Budgets
  /\ searcher' = "search"
  /\ UNCHANGED <<tried, verdicts, exhausted, found, parameter, nonviolating, violating, preserved>>

\* violates: an answer that is known, no answer, or an experiment.
Violates(values, answer) ==
  IF values \in DOMAIN verdicts THEN answer = verdicts[values] /\ UNCHANGED <<verdicts, exhausted>>
  ELSE IF Cardinality(DOMAIN verdicts) >= budget
  THEN answer = FALSE /\ exhausted' = TRUE /\ UNCHANGED verdicts
  ELSE /\ verdicts' = [v \in DOMAIN verdicts \union {values} |-> IF v = values THEN answer ELSE verdicts[v]]
       /\ UNCHANGED exhausted

\* _candidate_values: the simple ones in order, then random ones.
Fixed ==
  LET simple == [p \in Parameters |-> Target(p)]
      ends == [i \in 1..2 * Len(range) |->
                 [simple EXCEPT ![(i + 1) \div 2] = range[(i + 1) \div 2][IF i % 2 = 1 THEN 1 ELSE 2]]]
  IN <<simple, [p \in Parameters |-> range[p][2]], [p \in Parameters |-> range[p][1]]>> \o ends

Candidates ==
  IF ToSet(Fixed) \subseteq tried THEN Values \ tried
  ELSE {Fixed[i] : i \in {j \in DOMAIN Fixed : Fixed[j] \notin tried /\ \A k \in 1..j - 1 : Fixed[k] \in tried}}

\* Only budget candidates are made, and random ones need not be new.
Try ==
  /\ searcher = "search" /\ Cardinality(tried) < budget
  /\ \E values \in Candidates, answer \in BOOLEAN :
       /\ Violates(values, answer)
       /\ tried' = tried \union {values}
       /\ IF answer THEN found' = values /\ searcher' = "target" ELSE UNCHANGED <<found, searcher>>
  /\ UNCHANGED <<range, budget, parameter, nonviolating, violating, preserved>>

NothingFound ==
  /\ searcher = "search"
  /\ ToSet(Fixed) \subseteq tried \/ Cardinality(tried) = budget
  /\ searcher' = "nothing"
  /\ UNCHANGED <<range, budget, tried, verdicts, exhausted, found, parameter, nonviolating, violating, preserved>>

-----------------------------------------------------------------------------
(* _shrink_values                                                          *)

NextParameter == IF parameter = Len(range) THEN searcher' = "again" /\ UNCHANGED parameter
                 ELSE searcher' = "target" /\ parameter' = parameter + 1

TryTarget ==
  /\ searcher = "target"
  /\ LET candidate == [found EXCEPT ![parameter] = Target(parameter)] IN
     \E answer \in BOOLEAN :
       /\ Violates(candidate, answer)
       /\ IF answer THEN found' = candidate /\ NextParameter /\ UNCHANGED <<nonviolating, violating>>
          ELSE /\ nonviolating' = Target(parameter) /\ violating' = found[parameter]
               /\ searcher' = "bisect" /\ UNCHANGED <<found, parameter>>
  /\ UNCHANGED <<range, budget, tried, preserved>>

Adjacent == Abs(violating - nonviolating) <= 1

Bisect ==
  /\ searcher = "bisect" /\ ~Adjacent
  /\ LET midpoint == nonviolating + (violating - nonviolating) \div 2
         candidate == [found EXCEPT ![parameter] = midpoint] IN
     \E answer \in BOOLEAN :
       /\ Violates(candidate, answer)
       /\ IF answer THEN found' = candidate /\ violating' = midpoint /\ UNCHANGED nonviolating
          ELSE nonviolating' = midpoint /\ UNCHANGED <<found, violating>>
  /\ UNCHANGED <<range, budget, searcher, tried, parameter, preserved>>

Shrunk ==
  /\ searcher = "bisect" /\ Adjacent
  /\ NextParameter
  /\ UNCHANGED <<range, budget, tried, verdicts, exhausted, found, nonviolating, violating, preserved>>

\* The experiment that is kept; a workload need not behave as before.
Preserve ==
  /\ searcher = "again"
  /\ preserved' \in {"violated", "notReproduced"} /\ searcher' = "found"
  /\ UNCHANGED <<range, budget, tried, verdicts, exhausted, found, parameter, nonviolating, violating>>

SearchNext == LoadParameters \/ Try \/ NothingFound \/ TryTarget \/ Bisect \/ Shrunk \/ Preserve

SearchSpec == SearchInit /\ [][SearchNext]_searchVars

-----------------------------------------------------------------------------

\* One step nearer to the target.
Nearer(p, v) == IF v > Target(p) THEN v - 1 ELSE v + 1

(* Within the budget, and whatever the workload answers: what is shrunk    *)
(* has violated the contract and is in range; and unless the budget is     *)
(* said to be exhausted, no parameter that has been shrunk could have been *)
(* one nearer to zero, with the others as they were then: the last one     *)
(* with all the others as they are reported.                               *)
CounterexampleIsMinimal ==
  /\ Cardinality(DOMAIN verdicts) <= budget
  /\ found # NoValues => found \in Values /\ found \in DOMAIN verdicts /\ verdicts[found]
  /\ searcher \in {"again", "found"} /\ ~exhausted =>
       \A p \in Parameters :
         \/ found[p] = Target(p)
         \/ \E v \in DOMAIN verdicts :
              /\ v[p] = Nearer(p, found[p]) /\ ~verdicts[v]
              /\ \A q \in Parameters : q <= p \/ p = Len(range) => (q = p \/ v[q] = found[q])
=================================================================================
