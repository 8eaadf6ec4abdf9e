----------------------------- MODULE PlanGraph -----------------------------
(***************************************************************************)
(* The plans the agent executes (agent/app/models.py, Plan and PlanStep)   *)
(* and the checks and graph operators agent/app/executor.py computes from  *)
(* one.  A plan is a sequence of steps.  Of a step's tool_name and params  *)
(* only one bit matters to the executor: whether the whitelist, the tool   *)
(* registry and the parameter model accept them ("callable").              *)
(***************************************************************************)
EXTENDS Naturals, Sequences

CONSTANT Plans      \* the plans a planner may hand to the executor

Step == [step_index : Nat, depends_on : SUBSET Nat, callable : BOOLEAN]

ASSUME PlansAssumption == Plans \subseteq Seq(Step)

Indexes(p) == {p[i].step_index : i \in DOMAIN p}

\* executor.py _index_steps: a step_index that occurs twice is refused.
HasDuplicate(p) ==
  \E i, j \in DOMAIN p : i # j /\ p[i].step_index = p[j].step_index

\* step_map[s]; unique once duplicates are refused.
StepOf(p, s) == p[CHOOSE i \in DOMAIN p : p[i].step_index = s]

Deps(p, s) == StepOf(p, s).depends_on

\* executor.py _build_dependency_graph: a step may not depend on itself nor
\* on an index no step has.
HasBadDependency(p) ==
  \E s \in Indexes(p) : s \in Deps(p, s) \/ ~(Deps(p, s) \subseteq Indexes(p))

WellFormed(p) == ~HasDuplicate(p) /\ ~HasBadDependency(p)

(***************************************************************************)
(* The reference definition of a circular plan: a cyclic core is a         *)
(* non-empty set of steps each of which waits for a member of the set.  A  *)
(* finite plan has one exactly when its dependency graph has a cycle.      *)
(***************************************************************************)
IsCore(p, core) ==
  core # {} /\ \A s \in core : Deps(p, s) \cap core # {}

Cyclic(p) == \E core \in SUBSET Indexes(p) : IsCore(p, core)
=============================================================================
