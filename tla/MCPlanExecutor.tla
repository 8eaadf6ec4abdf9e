--------------------------- MODULE MCPlanExecutor ---------------------------
(***************************************************************************)
(* Plans for model checking PlanExecutor: every dependency relation on     *)
(* three steps (cycles and self-dependencies included), and single plans   *)
(* for the refusals, for a tool that is not registered and for the chain   *)
(* and diamond shapes of agent/tests/test_executor_dag.py.                 *)
(***************************************************************************)
EXTENDS PlanExecutor

PlanStepOf(index, deps) ==
  [step_index |-> index, depends_on |-> deps, callable |-> TRUE]

Unregistered(index, deps) == [PlanStepOf(index, deps) EXCEPT !.callable = FALSE]

ThreeStepPlans ==
  {<<PlanStepOf(1, d1), PlanStepOf(2, d2), PlanStepOf(3, d3)>> :
     d1, d2, d3 \in SUBSET (1..3)}

SpecialPlans ==
  { <<>>,
    <<PlanStepOf(1, {}), PlanStepOf(1, {})>>,
    <<PlanStepOf(1, {}), PlanStepOf(2, {7})>>,
    <<PlanStepOf(1, {}), Unregistered(2, {})>>,
    \* diamond
    <<PlanStepOf(1, {}), PlanStepOf(2, {1}), PlanStepOf(3, {1}),
      PlanStepOf(4, {2, 3})>>,
    \* a chain beside a cycle
    <<PlanStepOf(1, {}), PlanStepOf(2, {1}), PlanStepOf(3, {4}),
      PlanStepOf(4, {3})>> }

MCPlans == ThreeStepPlans \cup SpecialPlans
=============================================================================
