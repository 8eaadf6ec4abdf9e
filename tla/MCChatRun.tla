----------------------------- MODULE MCChatRun -----------------------------
(***************************************************************************)
(* Plans for model checking ChatRun: those of the rule-based planner, two  *)
(* independent steps, a dependent pair beside one, a cycle, and a repeated *)
(* index.                                                                  *)
(***************************************************************************)
EXTENDS ChatRun, PlanRules

PlanStepOf(index, deps) ==
  [step_index |-> index, depends_on |-> deps, callable |-> TRUE]

MCRulePlans == PlansOfRules

MCPlans ==
  MCRulePlans \cup
  { <<>>,
    <<PlanStepOf(1, {}), PlanStepOf(2, {})>>,
    <<PlanStepOf(1, {}), PlanStepOf(2, {1}), PlanStepOf(3, {})>>,
    <<PlanStepOf(1, {2}), PlanStepOf(2, {1})>>,
    <<PlanStepOf(1, {}), PlanStepOf(1, {})>>,
    <<PlanStepOf(1, {4})>>,
    <<PlanStepOf(1, {}), [PlanStepOf(2, {}) EXCEPT !.callable = FALSE],
      PlanStepOf(3, {3})>>,
    <<PlanStepOf(1, {}), [PlanStepOf(2, {}) EXCEPT !.callable = FALSE]>>,
    <<PlanStepOf(1, {}), PlanStepOf(2, {3}), PlanStepOf(3, {2})>> }

\* The plan of the rules that every fallback relies on can always be executed.
RulePlansRun == plan \in RulePlans => Runs(plan)
=============================================================================
