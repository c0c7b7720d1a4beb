---------------------------- MODULE StatusReport ----------------------------
(***************************************************************************)
(* What /status promises: the answers of the monitoring services arrive in *)
(* some order, and when the last one is in, the report is a function of    *)
(* the answers alone, not of the order they came in.                       *)
(***************************************************************************)
EXTENDS Naturals, Sequences

CONSTANTS
    Queries,     \* the queries made for the pods of a service
    Kind,        \* how a query's values are used: a function from Queries
    Responses,   \* answers a query may get
    PodAnswers,  \* answers to the question which pods there are
    AlertAnswers,\* answers of Alertmanager
    Matches(_)   \* whether an alert is about the service

VARIABLES
    podAnswer,    \* the answer that names the pods
    alertAnswer,  \* the answer of Alertmanager
    answers,      \* the answers to the queries so far
    report        \* what the caller gets

reportVars == <<podAnswer, alertAnswer, answers, report>>

Pending == [kind |-> "pending"]
Failed == [kind |-> "failed"]
NoReport == [kind |-> "none"]

Zero(q) == IF Kind[q] \in {"ready", "mark"} THEN FALSE ELSE "zero"

\* The places among the first n results of an answer that are about a pod,
\* and those of them that can be read.
Mentions(a, n, p) == {i \in 1..n : a.results[i].pod = p}
Readable(a, n, p) == {i \in Mentions(a, n, p) : a.results[i].value # "bad"}

\* What the first n results say about a pod: the last number or label,
\* whether it is ready according to any result, whether it is mentioned.
SaysSoFar(q, a, n, p) ==
    LET rs == Readable(a, n, p)
    IN  CASE Kind[q] = "ready" -> \E i \in rs : a.results[i].value = "one"
          [] Kind[q] = "mark" -> Mentions(a, n, p) # {}
          [] OTHER -> IF rs = {} THEN Zero(q)
                      ELSE a.results[CHOOSE i \in rs : \A j \in rs : j <= i].value

\* What an answer says: nothing, unless it is a vector of results.
Says(q, a, p) ==
    IF a.kind = "vector" THEN SaysSoFar(q, a, Len(a.results), p) ELSE Zero(q)

\* The finished report.
Summary ==
    [kind |-> "dashboard",
     alerts |-> IF alertAnswer.kind = "alerts"
                THEN {a \in alertAnswer.alerts : Matches(a)} ELSE {},
     pods |-> [p \in podAnswer.pods |-> [q \in Queries |-> Says(q, answers[q], p)]]]

ReportInit ==
    /\ podAnswer = Pending
    /\ alertAnswer = Pending
    /\ answers = [q \in Queries |-> Pending]
    /\ report = NoReport

AnswerPods ==
    /\ podAnswer = Pending
    /\ podAnswer' \in PodAnswers
    /\ UNCHANGED <<alertAnswer, answers, report>>

AnswerAlerts ==
    /\ podAnswer # Pending
    /\ alertAnswer = Pending
    /\ alertAnswer' \in AlertAnswers
    /\ UNCHANGED <<podAnswer, answers, report>>

AnswerQuery(q) ==
    /\ alertAnswer # Pending
    /\ answers[q] = Pending
    /\ \E a \in Responses : answers' = [answers EXCEPT ![q] = a]
    /\ UNCHANGED <<podAnswer, alertAnswer, report>>

\* No report without the pods; an empty one if there are none; else one that
\* waits for every query.
Deliver ==
    /\ report = NoReport
    /\ podAnswer # Pending
    /\ \/ /\ podAnswer.kind # "pods"
          /\ report' = Failed
       \/ /\ podAnswer.kind = "pods" /\ podAnswer.pods = {}
          /\ report' = [kind |-> "dashboard", alerts |-> {}, pods |-> <<>>]
       \/ /\ podAnswer.kind = "pods" /\ podAnswer.pods # {}
          /\ \A q \in Queries : answers[q] # Pending
          /\ report' = Summary
    /\ UNCHANGED <<podAnswer, alertAnswer, answers>>

ReportNext ==
    \/ AnswerPods \/ AnswerAlerts
    \/ \E q \in Queries : AnswerQuery(q)
    \/ Deliver

ReportSpec == ReportInit /\ [][ReportNext]_reportVars
=============================================================================
