----------------------------- MODULE PlanRules ------------------------------
(***************************************************************************)
(* The plans of the rule-based planner (agent/app/planner_rule.py,         *)
(* `build_rule_based_plan`).  A query is what its keywords ask for.        *)
(***************************************************************************)
EXTENDS Naturals, Sequences

Intents == {"trend", "indicators", "qlib", "pick"}

\* The tools register_builtin_tools registers.
Tools == {"query_kline", "query_kline_bulk", "technical_indicators",
          "reco_query", "strategy_ensemble_v1"}

Rule(applies, tool) == IF applies THEN <<tool>> ELSE <<>>

\* The tools in the order of the rules; a query that asks for nothing gets quotes.
RuleTools(asked) ==
  LET steps == Rule("trend" \in asked, "query_kline")
                 \o Rule("indicators" \in asked, "technical_indicators")
                 \o Rule("qlib" \in asked, "reco_query")
                 \o Rule("pick" \in asked /\ "qlib" \notin asked, "strategy_ensemble_v1")
  IN  IF steps = <<>> THEN <<"query_kline">> ELSE steps

\* Mutant: the dependency is taken after step_index has been counted up.
DependsOnItself(i) == IF i > 1 THEN {i} ELSE {}

\* Mutant: the first two steps are both taken for the first.
DependsLater(i) == IF i > 2 THEN {i - 1} ELSE {}

DependsOn(i) == IF i > 1 THEN {i - 1} ELSE {}

Chain(tools) ==
  [i \in DOMAIN tools |->
     [step_index |-> i, depends_on |-> DependsOn(i), callable |-> tools[i] \in Tools]]

RulePlan(asked) == Chain(RuleTools(asked))

\* Every plan of the rules.
PlansOfRules == {RulePlan(asked) : asked \in SUBSET Intents}

Graph == INSTANCE PlanGraph WITH Plans <- PlansOfRules

-----------------------------------------------------------------------------
(* Properties.                                                             *)

\* The executor refuses neither the indexes nor the dependencies of the plan, finds
\* no cycle and no tool it may not call, and never has two steps in flight at a time.
Runs(p) ==
  /\ p # <<>>
  /\ Graph!WellFormed(p) /\ ~Graph!Cyclic(p)
  /\ \A i \in DOMAIN p : p[i].callable
  /\ \A i \in 2..Len(p) : p[i - 1].step_index \in p[i].depends_on
=============================================================================
