------------------------- MODULE MCScenarioEngine -------------------------
(* Two scenario shapes on two workloads: a readiness fault on every pod, or  *)
(* one pod, beside an action; and two actions that scale one workload.      *)
EXTENDS ScenarioEngine

MCBaseline == [w \in Workload |-> 2]

Scale(w, n, after) == [action |-> "scale", workload |-> w, replicas |-> n, restoreAfter |-> after]
Other(action, w) == [action |-> action, workload |-> w, replicas |-> -1, restoreAfter |-> FALSE]
Fault(w, operation, mode, pods, scoped, given) ==
    [service |-> w, operation |-> operation, mode |-> mode, replicas |-> pods, phase |-> "none", scoped |-> scoped, given |-> given]
Failing(w, operation) == Fault(w, operation, "http-error", "one", TRUE, {"statusCode"})

Shapes ==
    {[faults |-> <<Fault("payment", "readiness", "readiness-loss", "all", FALSE, {})>>,
      actions |-> <<Other("rollout-restart", "payment")>>],
     [faults |-> <<Failing("payment", "payment.authorize")>>, actions |-> <<Other("delete-pod", "payment")>>],
     [faults |-> <<Failing("shipping", "shipping.create")>>, actions |-> <<Scale("shipping", 0, TRUE), Scale("shipping", 1, FALSE)>>]}

\* Files the schema refuses.
Mistaken ==
    {[faults |-> <<Fault("payment", "readiness", "readiness-loss", "all", TRUE, {})>>, actions |-> <<>>],
     [faults |-> <<Failing("shipping", "payment.void")>>, actions |-> <<>>],
     [faults |-> <<>>, actions |-> <<Scale("shipping", -1, TRUE)>>]}

MCIssued == {{"r1", "r2", "v"}, {"r1", "r2", "x"}}

MCScenarios == [c \in Run |-> IF c = "r1" THEN Shapes \cup Mistaken ELSE {[faults |-> <<>>, actions |-> <<>>]}]
=============================================================================
