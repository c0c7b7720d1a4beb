----------------------------- MODULE Dashboard -----------------------------
(***************************************************************************)
(* /status: StatusHandler (internal/bot/handlers/metrics_handlers.go)      *)
(* calls GetStatusDashboard (internal/monitoring/dashboard.go), which asks *)
(* for the pods of a job, then for the alerts, then starts one goroutine   *)
(* per query that writes its answer into a map all of them share, under a  *)
(* mutex, and waits for them with a WaitGroup.  Prometheus and             *)
(* Alertmanager (external) answer, answer something else, or fail; after   *)
(* the handler's deadline every request fails.                             *)
(***************************************************************************)
EXTENDS Integers, Sequences, FiniteSets

CONSTANTS
    Queries, Kind, Responses, PodAnswers, AlertAnswers,
    Job, Namespace       \* the arguments of /status

ASSUME KindAssumption == Kind \in [Queries -> {"number", "ready", "label", "mark"}]
ASSUME QueriesAssumption == IsFiniteSet(Queries)
ASSUME AnswersAssumption ==
    /\ \A a \in Responses \cup PodAnswers \cup AlertAnswers : a.kind # "pending"
    /\ \A a \in Responses : a.kind = "vector" => Len(a.results) \in Nat

VARIABLES
    pc,          \* where GetStatusDashboard is
    gpc,         \* where the goroutine of a query is
    wg,          \* the WaitGroup's counter
    applied,     \* how many results of its answer a goroutine has applied
    podMetrics,  \* the shared map: per pod, one field per query
    alerts,      \* dashboard.Alerts
    podAnswer, alertAnswer, answers,  \* what the services answered
    expired,     \* whether the handler's deadline has passed
    report,      \* what GetStatusDashboard returns
    message      \* what the handler sends

vars == <<pc, gpc, wg, applied, podMetrics, alerts, podAnswer, alertAnswer, answers,
          expired, report, message>>

\* An alert is kept if it has exactly this job, and this namespace if one
\* was given.
Matches(a) == a.job = Job /\ (Namespace = "" \/ a.namespace = Namespace)

Abstract == INSTANCE StatusReport

Pending == Abstract!Pending
Failed == Abstract!Failed
Zero(q) == Abstract!Zero(q)

Init ==
    /\ pc = "pods"
    /\ gpc = [q \in Queries |-> "none"]
    /\ wg = 0
    /\ applied = [q \in Queries |-> 0]
    /\ podMetrics = <<>>
    /\ alerts = {}
    /\ expired = FALSE
    /\ message = "none"
    /\ Abstract!ReportInit

services == <<podAnswer, alertAnswer, answers>>

-----------------------------------------------------------------------------
\* GetStatusDashboard returns.
Return(r) ==
    /\ report' = r
    /\ pc' = "returned"

\* getPodNamesForJob gets its answer.
GetPodNames ==
    /\ pc = "pods"
    /\ \E a \in PodAnswers :
         /\ expired => a.kind = "failed"
         /\ podAnswer' = a
    /\ pc' = "named"
    /\ UNCHANGED <<gpc, wg, applied, podMetrics, alerts, alertAnswer, answers, expired, report, message>>

\* An error is passed on; without pods the report ends before the alerts
\* are asked for; else every pod gets an entry with zero fields.
UsePodNames ==
    /\ pc = "named"
    /\ \/ /\ podAnswer.kind # "pods"
          /\ Return(Failed)
          /\ UNCHANGED podMetrics
       \/ /\ podAnswer.kind = "pods" /\ podAnswer.pods = {}
          /\ Return([kind |-> "dashboard", alerts |-> {}, pods |-> <<>>])
          /\ UNCHANGED podMetrics
       \/ /\ podAnswer.kind = "pods" /\ podAnswer.pods # {}
          /\ podMetrics' = [p \in podAnswer.pods |-> [q \in Queries |-> Zero(q)]]
          /\ pc' = "alerts"
          /\ UNCHANGED report
    /\ UNCHANGED <<gpc, wg, applied, alerts, services, expired, message>>

\* GetActiveAlerts: an error is only logged.
GetAlerts ==
    /\ pc = "alerts"
    /\ \E a \in AlertAnswers :
         /\ expired => a.kind = "failed"
         /\ alertAnswer' = a
         /\ alerts' = IF a.kind = "alerts" THEN {x \in a.alerts : Matches(x)} ELSE {}
    /\ pc' = "spawn"
    /\ UNCHANGED <<gpc, wg, applied, podMetrics, podAnswer, answers, expired, report, message>>

\* Mutant: a query is started without wg.Add.
SpawnWithoutAdd(q) ==
    /\ pc = "spawn"
    /\ gpc[q] = "none"
    /\ gpc' = [gpc EXCEPT ![q] = "running"]
    /\ UNCHANGED <<pc, wg, applied, podMetrics, alerts, services, expired, report, message>>

\* wg.Add(1); go ...  The queries stand in a map, which Go ranges over in any
\* order.
Spawn(q) ==
    /\ pc = "spawn"
    /\ gpc[q] = "none"
    /\ wg' = wg + 1
    /\ gpc' = [gpc EXCEPT ![q] = "running"]
    /\ UNCHANGED <<pc, applied, podMetrics, alerts, services, expired, report, message>>

\* wg.Wait() is reached.
SpawnedAll ==
    /\ pc = "spawn"
    /\ \A q \in Queries : gpc[q] # "none"
    /\ pc' = "wait"
    /\ UNCHANGED <<gpc, wg, applied, podMetrics, alerts, services, expired, report, message>>

\* Mutant: wg.Done is missed on the early returns.
QueryWithoutDone(q) ==
    /\ gpc[q] = "running"
    /\ \E a \in Responses :
         /\ expired => a.kind = "failed"
         /\ answers' = [answers EXCEPT ![q] = a]
         /\ gpc' = [gpc EXCEPT ![q] = IF a.kind = "vector" THEN "answered" ELSE "done"]
    /\ UNCHANGED <<pc, wg, applied, podMetrics, alerts, podAnswer, alertAnswer, expired, report, message>>

\* The answer to a query comes; the goroutine ends unless it is a vector.
Query(q) ==
    /\ gpc[q] = "running"
    /\ \E a \in Responses :
         /\ expired => a.kind = "failed"
         /\ answers' = [answers EXCEPT ![q] = a]
         /\ \/ /\ a.kind = "vector"
               /\ gpc' = [gpc EXCEPT ![q] = "answered"]
               /\ UNCHANGED wg
            \/ /\ a.kind # "vector"
               /\ gpc' = [gpc EXCEPT ![q] = "done"]
               /\ wg' = wg - 1
    /\ UNCHANGED <<pc, applied, podMetrics, alerts, podAnswer, alertAnswer, expired, report, message>>

\* Mutant: a result that is not 1 makes a pod not ready again.
FieldFromLast(q, old, v) ==
    CASE Kind[q] = "ready" -> v = "one"
      [] Kind[q] = "mark" -> TRUE
      [] OTHER -> IF v = "bad" THEN old ELSE v

\* The parsers: a number or label replaces the field unless it cannot be
\* read, readiness is set by a 1 and never cleared, a mark is set.
Field(q, old, v) ==
    CASE Kind[q] = "ready" -> old \/ v = "one"
      [] Kind[q] = "mark" -> TRUE
      [] OTHER -> IF v = "bad" THEN old ELSE v

\* One result: skipped if its pod is not one of those listed.
Apply(q, metrics, r) ==
    IF r.pod \notin DOMAIN metrics THEN metrics
    ELSE [metrics EXCEPT ![r.pod][q] = Field(q, @, r.value)]

\* mu.Lock(): a goroutine is in its loop only while it holds the mutex.
Lock(q) ==
    /\ gpc[q] = "answered"
    /\ \A r \in Queries : gpc[r] # "locked"
    /\ gpc' = [gpc EXCEPT ![q] = "locked"]
    /\ UNCHANGED <<pc, wg, applied, podMetrics, alerts, services, expired, report, message>>

\* One iteration of the loop over the results.
Record(q) ==
    /\ gpc[q] = "locked"
    /\ applied[q] < Len(answers[q].results)
    /\ applied' = [applied EXCEPT ![q] = @ + 1]
    /\ podMetrics' = Apply(q, podMetrics, answers[q].results[applied[q] + 1])
    /\ UNCHANGED <<pc, gpc, wg, alerts, services, expired, report, message>>

\* The loop is over: the deferred Unlock and Done.
Unlock(q) ==
    /\ gpc[q] = "locked"
    /\ applied[q] = Len(answers[q].results)
    /\ gpc' = [gpc EXCEPT ![q] = "done"]
    /\ wg' = wg - 1
    /\ UNCHANGED <<pc, applied, podMetrics, alerts, services, expired, report, message>>

\* All goroutines are done: the map's entries become the report.
Collect ==
    /\ pc = "wait"
    /\ wg = 0
    /\ Return([kind |-> "dashboard", alerts |-> alerts, pods |-> podMetrics])
    /\ UNCHANGED <<gpc, wg, applied, podMetrics, alerts, services, expired, message>>

\* The handler answers the user.
Reply ==
    /\ pc = "returned"
    /\ pc' = "replied"
    /\ message' = CASE report.kind = "failed" /\ expired -> "timeout"
                    [] report.kind = "failed" /\ ~expired -> "error"
                    [] report.kind = "dashboard" /\ report.alerts = {} -> "noAlerts"
                    [] OTHER -> "alerts"
    /\ UNCHANGED <<gpc, wg, applied, podMetrics, alerts, services, expired, report>>

\* The deadline of the handler's context passes.
Expire ==
    /\ ~expired
    /\ pc # "replied"
    /\ expired' = TRUE
    /\ UNCHANGED <<pc, gpc, wg, applied, podMetrics, alerts, services, report, message>>

Terminated == pc = "replied" /\ UNCHANGED vars

Goroutine(q) == Query(q) \/ Lock(q) \/ Record(q) \/ Unlock(q)
Main == GetPodNames \/ UsePodNames \/ GetAlerts \/ SpawnedAll \/ Collect \/ Reply

Next ==
    \/ Main
    \/ \E q \in Queries : Spawn(q) \/ Goroutine(q)
    \/ Expire
    \/ Terminated

\* Requests end, if only by the client's timeout, and goroutines run.
Fairness ==
    /\ WF_vars(Main)
    /\ \A q \in Queries : WF_vars(Spawn(q)) /\ WF_vars(Goroutine(q))

Spec == Init /\ [][Next]_vars /\ Fairness

-----------------------------------------------------------------------------
\* Type invariant: the counter is not negative, which would panic.
TypeOK ==
    /\ pc \in {"pods", "named", "alerts", "spawn", "wait", "returned", "replied"}
    /\ gpc \in [Queries -> {"none", "running", "answered", "locked", "done"}]
    /\ wg \in Nat
    /\ applied \in [Queries -> Nat]
    /\ answers \in [Queries -> Responses \cup {Pending}]
    /\ podAnswer \in PodAnswers \cup {Pending}
    /\ alertAnswer \in AlertAnswers \cup {Pending}
    /\ expired \in BOOLEAN
    /\ message \in {"none", "timeout", "error", "noAlerts", "alerts"}

\* The goroutines that were started and have not called wg.Done.
Live == {q \in Queries : gpc[q] \in {"running", "answered", "locked"}}

\* The WaitGroup counts them (dashboard.go:142-178), on every path through a
\* goroutine: wg.Wait neither returns early nor waits for nobody.
Counted == wg = Cardinality(Live)

\* The report does not depend on the order in which goroutines get their
\* answers and the mutex (dashboard.go:62-178), waits for all of them
\* (dashboard.go:180), and is what the answers say.
Implements == Abstract!ReportSpec

\* When the report is returned (dashboard.go:180-186), which holds copies of
\* the entries of podMetrics, no goroutine writes to the map or its entries
\* any more: nothing that was answered comes too late for the copies.
NoWriteAfterReturn ==
    [][(pc \in {"returned", "replied"}) => UNCHANGED <<podMetrics, answers>>]_vars

\* The user gets an answer whatever the services do.
Replied == <>(pc = "replied")

\* What the message "Нет активных алертов" says (metrics_handlers.go:155):
\* Alertmanager was asked and has no alert about the service.
NoAlertsIsTrue ==
    message = "noAlerts" =>
      alertAnswer.kind = "alerts" /\ ~\E a \in alertAnswer.alerts : Matches(a)
=============================================================================
