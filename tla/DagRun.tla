------------------------------- MODULE DagRun -------------------------------
(***************************************************************************)
(* What executing a plan promises, whatever batches, tasks and log rows    *)
(* the implementation uses: a step begins at most once and only when all   *)
(* its dependencies have succeeded and no step has failed; the run         *)
(* succeeds only when every step has; it gives up only when no step is in  *)
(* flight and there is a reason (a failed step, a malformed plan, or a     *)
(* cycle among the steps that are left).                                   *)
(***************************************************************************)
EXTENDS PlanGraph

VARIABLES
  plan,       \* the plan being run
  begun,      \* the steps begun so far
  ok,         \* those that have succeeded
  err,        \* those that have failed
  outcome     \* "running", "success", "error" or "crashed"

vars == <<plan, begun, ok, err, outcome>>

Init ==
  /\ plan \in Plans
  /\ begun = {} /\ ok = {} /\ err = {}
  /\ outcome = "running"

Begin(S) ==
  /\ outcome = "running"
  /\ WellFormed(plan)
  /\ S # {} /\ err = {}
  /\ \A s \in S : s \notin begun /\ Deps(plan, s) \subseteq ok
  /\ begun' = begun \cup S
  /\ UNCHANGED <<plan, ok, err, outcome>>

Settle(s) ==
  /\ outcome = "running"
  /\ s \in begun \ (ok \cup err)
  /\ \/ ok' = ok \cup {s} /\ err' = err
     \/ err' = err \cup {s} /\ ok' = ok
  /\ UNCHANGED <<plan, begun, outcome>>

Succeed ==
  /\ outcome = "running"
  /\ ~HasDuplicate(plan)
  /\ ok = Indexes(plan) /\ err = {}
  /\ outcome' = "success"
  /\ UNCHANGED <<plan, begun, ok, err>>

GiveUp ==
  /\ outcome = "running"
  /\ begun = ok \cup err
  /\ err # {} \/ ~WellFormed(plan) \/ IsCore(plan, Indexes(plan) \ ok)
  /\ outcome' = "error"
  /\ UNCHANGED <<plan, begun, ok, err>>

Crash ==
  /\ outcome = "running"
  /\ outcome' = "crashed"
  /\ UNCHANGED <<plan, begun, ok, err>>

Progress ==
  \/ \E S \in SUBSET Indexes(plan) : Begin(S)
  \/ \E s \in Indexes(plan) : Settle(s)
  \/ Succeed
  \/ GiveUp

Next == Progress \/ Crash

SafeSpec == Init /\ [][Next]_vars

Spec == SafeSpec /\ WF_vars(Progress)

\* A run that is not killed ends (as the detailed model must show).
Ends == <>(outcome # "running")
=============================================================================
