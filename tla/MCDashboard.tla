---------------------------- MODULE MCDashboard ----------------------------
(***************************************************************************)
(* Dashboard for TLC: one query of each kind of use, one pod of the        *)
(* service and one of the same name prefix that is not.  The answers hold  *)
(* a repeated pod, a value that is no number, a strange pod, an unexpected *)
(* type and a failure.                                                     *)
(***************************************************************************)
EXTENDS Dashboard

MCKind == [q \in Queries |-> CASE q = "cpu" -> "number" [] q = "ready" -> "ready"
                              [] q = "phase" -> "label" [] q = "oom" -> "mark"]

Vector(rs) == [kind |-> "vector", results |-> rs]
Result(p, v) == [pod |-> p, value |-> v]

MCResponses ==
    {[kind |-> "failed"], [kind |-> "matrix"],
     Vector(<<Result("p1", "one"), Result("p1", "two")>>),
     Vector(<<Result("p1", "two"), Result("p1", "bad")>>),
     Vector(<<Result("stranger", "one"), Result("p2", "one")>>)}

MCPodAnswers ==
    {[kind |-> "failed"], [kind |-> "matrix"],
     [kind |-> "pods", pods |-> {}], [kind |-> "pods", pods |-> {"p1", "p2"}]}

MCAlertAnswers ==
    {[kind |-> "failed"], [kind |-> "alerts", alerts |-> {}],
     [kind |-> "alerts", alerts |-> {[job |-> "web", namespace |-> "default"],
                                     [job |-> "web", namespace |-> "other"],
                                     [job |-> "web-db", namespace |-> "default"]}]}
=============================================================================
