-------------------------- MODULE DashboardProofs --------------------------
(***************************************************************************)
(* The report of /status is what the services answered, for any number of  *)
(* queries, any answers and any order of the goroutines.  The invariant    *)
(* says what the shared map holds while goroutines write to it: in every   *)
(* pod's entry, the field of a query is what the results applied so far    *)
(* say.  Queries write different fields, so the argument needs no more of  *)
(* the mutex than that one iteration of a loop is not interrupted.         *)
(***************************************************************************)
EXTENDS Dashboard, FiniteSetTheorems, TLAPS

Over == pc \in {"returned", "replied"}
Working == pc \in {"alerts", "spawn", "wait"}

\* What GetStatusDashboard knows at each of its places.
MainInv ==
    /\ pc = "pods" <=> podAnswer = Pending
    /\ pc \in {"pods", "named", "alerts"} => alertAnswer = Pending
    /\ Working => podAnswer.kind = "pods" /\ podAnswer.pods # {}
    /\ pc \in {"spawn", "wait"} =>
         /\ alertAnswer # Pending
         /\ alerts = IF alertAnswer.kind = "alerts"
                     THEN {a \in alertAnswer.alerts : Matches(a)} ELSE {}
    /\ ~Over <=> report = Abstract!NoReport

\* Where the goroutine of a query is agrees with its answer and with where
\* the function that started it is.
QueryInv(q) ==
    /\ pc \in {"pods", "named", "alerts"} => gpc[q] = "none"
    /\ gpc[q] # "none" => alertAnswer # Pending
    /\ pc = "wait" => gpc[q] # "none"
    /\ Over => gpc[q] \in {"none", "done"}
    /\ gpc[q] \in {"none", "running"} <=> answers[q] = Pending
    /\ gpc[q] \in {"answered", "locked"} => answers[q].kind = "vector"
    /\ gpc[q] # "locked" /\ gpc[q] # "done" => applied[q] = 0
    /\ answers[q].kind = "vector" =>
         /\ gpc[q] = "locked" => applied[q] <= Len(answers[q].results)
         /\ gpc[q] = "done" => applied[q] = Len(answers[q].results)

\* What a query has said about a pod so far.
Written(q, p) ==
    IF answers[q].kind = "vector"
    THEN Abstract!SaysSoFar(q, answers[q], applied[q], p) ELSE Zero(q)

MapInv ==
    Working => podMetrics = [p \in podAnswer.pods |-> [q \in Queries |-> Written(q, p)]]

IInv == TypeOK /\ Counted /\ MainInv /\ (\A q \in Queries : QueryInv(q)) /\ MapInv

-----------------------------------------------------------------------------
\* Before the first result, every field is zero.
LEMMA SaysNothingAtFirst ==
    ASSUME NEW q \in Queries, NEW a, NEW p
    PROVE  Abstract!SaysSoFar(q, a, 0, p) = Zero(q)
<1>1. Abstract!Mentions(a, 0, p) = {} /\ Abstract!Readable(a, 0, p) = {}
  BY DEF Abstract!Mentions, Abstract!Readable
<1> QED BY <1>1 DEF Abstract!SaysSoFar, Zero, Abstract!Zero

\* What the next result adds to the places that are about a pod.
LEMMA NextPlace ==
    ASSUME NEW a, NEW n \in Nat, NEW p
    PROVE  /\ a.results[n + 1].pod # p =>
                /\ Abstract!Mentions(a, n + 1, p) = Abstract!Mentions(a, n, p)
                /\ Abstract!Readable(a, n + 1, p) = Abstract!Readable(a, n, p)
           /\ a.results[n + 1].pod = p =>
                /\ Abstract!Mentions(a, n + 1, p) = Abstract!Mentions(a, n, p) \cup {n + 1}
                /\ Abstract!Readable(a, n + 1, p) =
                     IF a.results[n + 1].value = "bad" THEN Abstract!Readable(a, n, p)
                     ELSE Abstract!Readable(a, n, p) \cup {n + 1}
<1>1. \A i : i \in 1..(n + 1) <=> i \in 1..n \/ i = n + 1
  OBVIOUS
<1> QED BY <1>1 DEF Abstract!Mentions, Abstract!Readable

\* The parsers are right: applying the next result to what the first n say
\* gives what the first n + 1 say.
LEMMA NextResult ==
    ASSUME NEW q \in Queries, NEW a, NEW n \in Nat, NEW p
    PROVE  Abstract!SaysSoFar(q, a, n + 1, p) =
             IF a.results[n + 1].pod = p
             THEN Field(q, Abstract!SaysSoFar(q, a, n, p), a.results[n + 1].value)
             ELSE Abstract!SaysSoFar(q, a, n, p)
<1> DEFINE v == a.results[n + 1].value
           old == Abstract!Readable(a, n, p)
           new == Abstract!Readable(a, n + 1, p)
<1>1. CASE a.results[n + 1].pod # p
  <2>1. /\ Abstract!Mentions(a, n + 1, p) = Abstract!Mentions(a, n, p)
        /\ new = old
    BY <1>1, NextPlace
  <2>2. Abstract!SaysSoFar(q, a, n + 1, p) = Abstract!SaysSoFar(q, a, n, p)
    <3> HIDE DEF old, new
    <3> DEFINE said(rs) ==
                 CASE Kind[q] = "ready" -> \E i \in rs : a.results[i].value = "one"
                   [] Kind[q] = "mark" -> Abstract!Mentions(a, n, p) # {}
                   [] OTHER -> IF rs = {} THEN Abstract!Zero(q)
                               ELSE a.results[CHOOSE i \in rs : \A j \in rs : j <= i].value
    <3>1. Abstract!SaysSoFar(q, a, n, p) = said(old)
      BY DEF Abstract!SaysSoFar, old
    <3>2. Abstract!SaysSoFar(q, a, n + 1, p) = said(new)
      BY <2>1 DEF Abstract!SaysSoFar, new
    <3> HIDE DEF said
    <3> QED BY <2>1, <3>1, <3>2
  <2> QED BY <1>1, <2>2
<1>2. CASE a.results[n + 1].pod = p
  <2>1. new = IF v = "bad" THEN old ELSE old \cup {n + 1}
    BY <1>2, NextPlace
  <2>2. n + 1 \in Abstract!Mentions(a, n + 1, p)
    BY <1>2 DEF Abstract!Mentions
  <2>3. CASE Kind[q] = "ready"
    <3>1. (\E i \in new : a.results[i].value = "one")
          <=> (\E i \in old : a.results[i].value = "one") \/ v = "one"
      BY <2>1
    <3>2. Abstract!SaysSoFar(q, a, n + 1, p) = (\E i \in new : a.results[i].value = "one")
      BY <2>3 DEF Abstract!SaysSoFar
    <3>3. Abstract!SaysSoFar(q, a, n, p) = (\E i \in old : a.results[i].value = "one")
      BY <2>3 DEF Abstract!SaysSoFar
    <3>4. Field(q, Abstract!SaysSoFar(q, a, n, p), v)
          = (Abstract!SaysSoFar(q, a, n, p) \/ v = "one")
      BY <2>3 DEF Field
    <3> QED BY <1>2, <3>1, <3>2, <3>3, <3>4
  <2>4. CASE Kind[q] = "mark"
    <3>1. Abstract!SaysSoFar(q, a, n + 1, p) = TRUE
      BY <2>2, <2>4 DEF Abstract!SaysSoFar
    <3>2. Field(q, Abstract!SaysSoFar(q, a, n, p), v) = TRUE
      BY <2>4 DEF Field
    <3> QED BY <1>2, <3>1, <3>2
  <2>5. CASE Kind[q] \notin {"ready", "mark"}
    <3> DEFINE last(rs) == CHOOSE i \in rs : \A j \in rs : j <= i
               said(rs) == IF rs = {} THEN Abstract!Zero(q) ELSE a.results[last(rs)].value
    <3>1. Abstract!SaysSoFar(q, a, n + 1, p) = said(new)
      BY <2>5 DEF Abstract!SaysSoFar
    <3>2. Abstract!SaysSoFar(q, a, n, p) = said(old)
      BY <2>5 DEF Abstract!SaysSoFar
    <3>3. Field(q, said(old), v) = IF v = "bad" THEN said(old) ELSE v
      BY <2>5 DEF Field
    <3>4. ASSUME v # "bad" PROVE last(new) = n + 1
      <4>1. n + 1 \in new /\ \A j \in new : j \in 1..(n + 1)
        BY <2>1, <3>4 DEF Abstract!Readable, Abstract!Mentions
      <4>2. \A i \in new : (\A j \in new : j <= i) => i = n + 1
        BY <4>1
      <4>3. \A j \in new : j <= n + 1
        BY <4>1
      <4> QED BY <4>1, <4>2, <4>3
    <3>5. CASE v = "bad"
      <4>1. new = old
        BY <2>1, <3>5
      <4> QED BY <1>2, <3>1, <3>2, <3>3, <3>5, <4>1
    <3>6. CASE v # "bad"
      <4>1. new # {} /\ last(new) = n + 1
        BY <2>1, <3>4, <3>6
      <4>2. said(new) = v
        BY <4>1
      <4> QED BY <1>2, <3>1, <3>2, <3>3, <3>6, <4>2
    <3> QED BY <3>5, <3>6
  <2> QED BY <2>3, <2>4, <2>5
<1> QED BY <1>1, <1>2

-----------------------------------------------------------------------------
LEMMA LiveFacts ==
    IsFiniteSet(Live) /\ Cardinality(Live) \in Nat
<1>1. Live \subseteq Queries
  BY DEF Live
<1>2. IsFiniteSet(Live)
  BY <1>1, QueriesAssumption, FS_Subset
<1> QED BY <1>2, FS_CardinalityType

\* A goroutine that starts adds one to those that are counted, one that ends
\* takes one away.
LEMMA LiveSteps ==
    ASSUME TypeOK, NEW q \in Queries,
           NEW s \in {"none", "running", "answered", "locked", "done"},
           gpc' = [gpc EXCEPT ![q] = s]
    PROVE  /\ q \notin Live /\ s = "running" => Cardinality(Live') = Cardinality(Live) + 1
           /\ q \in Live /\ s = "done" => Cardinality(Live') = Cardinality(Live) - 1
           /\ q \in Live /\ s \in {"answered", "locked"} => Live' = Live
<1>1. \A r \in Queries : gpc'[r] = IF r = q THEN s ELSE gpc[r]
  BY DEF TypeOK
<1>2. ASSUME q \notin Live, s = "running"
      PROVE  Cardinality(Live') = Cardinality(Live) + 1
  <2>1. Live' = Live \cup {q}
    BY <1>1, <1>2 DEF Live
  <2> QED BY <2>1, <1>2, LiveFacts, FS_AddElement
<1>3. ASSUME q \in Live, s = "done"
      PROVE  Cardinality(Live') = Cardinality(Live) - 1
  <2>1. Live' = Live \ {q}
    BY <1>1, <1>3 DEF Live
  <2> QED BY <2>1, <1>3, LiveFacts, FS_RemoveElement
<1>4. ASSUME q \in Live, s \in {"answered", "locked"}
      PROVE  Live' = Live
  BY <1>1, <1>4 DEF Live
<1> QED BY <1>2, <1>3, <1>4

LEMMA CountedStep == TypeOK /\ Counted /\ [Next]_vars => Counted'
<1> SUFFICES ASSUME TypeOK, Counted, [Next]_vars PROVE Counted'
  OBVIOUS
<1> USE LiveFacts
<1>1. ASSUME UNCHANGED <<gpc, wg>> PROVE Counted'
  BY <1>1 DEF Counted, Live
<1>2. CASE Main
  BY <1>1, <1>2 DEF Main, GetPodNames, UsePodNames, GetAlerts, SpawnedAll, Collect, Reply
<1>3. ASSUME NEW q \in Queries, Spawn(q) PROVE Counted'
  <2>1. q \notin Live /\ gpc' = [gpc EXCEPT ![q] = "running"] /\ wg' = wg + 1
    BY <1>3 DEF Spawn, Live
  <2> QED BY <2>1, LiveSteps DEF Counted
<1>4. ASSUME NEW q \in Queries, Query(q) PROVE Counted'
  <2>1. q \in Live
    BY <1>4 DEF Query, Live
  <2>2. \/ gpc' = [gpc EXCEPT ![q] = "answered"] /\ wg' = wg
        \/ gpc' = [gpc EXCEPT ![q] = "done"] /\ wg' = wg - 1
    BY <1>4 DEF Query
  <2> QED BY <2>1, <2>2, LiveSteps DEF Counted
<1>5. ASSUME NEW q \in Queries, Lock(q) PROVE Counted'
  <2>1. q \in Live /\ gpc' = [gpc EXCEPT ![q] = "locked"] /\ wg' = wg
    BY <1>5 DEF Lock, Live
  <2> QED BY <2>1, LiveSteps DEF Counted
<1>6. ASSUME NEW q \in Queries, Record(q) PROVE Counted'
  BY <1>1, <1>6 DEF Record
<1>7. ASSUME NEW q \in Queries, Unlock(q) PROVE Counted'
  <2>1. q \in Live /\ gpc' = [gpc EXCEPT ![q] = "done"] /\ wg' = wg - 1
    BY <1>7 DEF Unlock, Live
  <2> QED BY <2>1, LiveSteps DEF Counted
<1>8. CASE Expire
  BY <1>1, <1>8 DEF Expire
<1>9. CASE UNCHANGED vars
  BY <1>1, <1>9 DEF vars
<1> QED
  BY <1>2, <1>3, <1>4, <1>5, <1>6, <1>7, <1>8, <1>9 DEF Next, Goroutine, Terminated

LEMMA TypeStep == TypeOK /\ Counted /\ [Next]_vars => TypeOK'
<1> SUFFICES ASSUME TypeOK, Counted, [Next]_vars PROVE TypeOK'
  OBVIOUS
<1>1. wg' \in Nat
  <2>1. wg' = Cardinality(Live')
    BY CountedStep DEF Counted
  <2>2. IsFiniteSet(Live')
    BY QueriesAssumption, FS_Subset DEF Live
  <2> QED BY <2>1, <2>2, FS_CardinalityType
<1>2. CASE GetPodNames
  BY <1>1, <1>2 DEF TypeOK, GetPodNames
<1>3. CASE UsePodNames
  BY <1>1, <1>3 DEF TypeOK, UsePodNames, Return, services
<1>4. CASE GetAlerts
  BY <1>1, <1>4 DEF TypeOK, GetAlerts
<1>5. CASE SpawnedAll
  BY <1>1, <1>5 DEF TypeOK, SpawnedAll, services
<1>6. CASE Collect
  BY <1>1, <1>6 DEF TypeOK, Collect, Return, services
<1>7. CASE Reply
  BY <1>1, <1>7 DEF TypeOK, Reply, services
<1>8. ASSUME NEW q \in Queries, Spawn(q) PROVE TypeOK'
  BY <1>1, <1>8 DEF TypeOK, Spawn, services
<1>9. ASSUME NEW q \in Queries, Query(q) PROVE TypeOK'
  BY <1>1, <1>9 DEF TypeOK, Query
<1>10. ASSUME NEW q \in Queries, Lock(q) PROVE TypeOK'
  BY <1>1, <1>10 DEF TypeOK, Lock, services
<1>11. ASSUME NEW q \in Queries, Record(q) PROVE TypeOK'
  BY <1>1, <1>11 DEF TypeOK, Record, services
<1>12. ASSUME NEW q \in Queries, Unlock(q) PROVE TypeOK'
  BY <1>1, <1>12 DEF TypeOK, Unlock, services
<1>13. CASE Expire
  BY <1>1, <1>13 DEF TypeOK, Expire, services
<1>14. CASE UNCHANGED vars
  BY <1>14 DEF TypeOK, vars
<1> QED
  BY <1>2, <1>3, <1>4, <1>5, <1>6, <1>7, <1>8, <1>9, <1>10, <1>11, <1>12, <1>13, <1>14
  DEF Next, Main, Goroutine, Terminated

-----------------------------------------------------------------------------
\* No answer is taken for a request still under way, no report for none.
LEMMA Distinct ==
    /\ \A a \in Responses \cup PodAnswers \cup AlertAnswers : a # Pending
    /\ Pending.kind = "pending"
    /\ Failed # Abstract!NoReport
    /\ \A x, y : [kind |-> "dashboard", alerts |-> x, pods |-> y] # Abstract!NoReport
<1>1. Pending.kind = "pending" /\ Failed.kind = "failed" /\ Abstract!NoReport.kind = "none"
  BY DEF Pending, Abstract!Pending, Failed, Abstract!Failed, Abstract!NoReport
<1>2. \A x, y : [kind |-> "dashboard", alerts |-> x, pods |-> y].kind = "dashboard"
  OBVIOUS
<1>3. \A x, y : [kind |-> "dashboard", alerts |-> x, pods |-> y] # Abstract!NoReport
  BY <1>1, <1>2
<1> QED BY <1>1, <1>3, AnswersAssumption

LEMMA MainStep == TypeOK /\ MainInv /\ [Next]_vars => MainInv'
<1> SUFFICES ASSUME TypeOK, MainInv, [Next]_vars PROVE MainInv'
  OBVIOUS
<1> USE Distinct DEF MainInv, Over, Working
<1>1. CASE GetPodNames
  BY <1>1 DEF GetPodNames
<1>2. CASE UsePodNames
  BY <1>2 DEF UsePodNames, Return, services
<1>3. CASE GetAlerts
  BY <1>3 DEF GetAlerts
<1>4. CASE SpawnedAll
  BY <1>4 DEF SpawnedAll, services
<1>5. CASE Collect
  BY <1>5 DEF Collect, Return, services
<1>6. CASE Reply
  BY <1>6 DEF Reply, services
<1>7. ASSUME NEW q \in Queries, Spawn(q) \/ Goroutine(q) PROVE MainInv'
  BY <1>7 DEF Spawn, Goroutine, Query, Lock, Record, Unlock, services
<1>8. CASE Expire
  BY <1>8 DEF Expire, services
<1>9. CASE UNCHANGED vars
  BY <1>9 DEF vars
<1> QED
  BY <1>1, <1>2, <1>3, <1>4, <1>5, <1>6, <1>7, <1>8, <1>9 DEF Next, Main, Terminated

\* wg.Wait() returns only when no goroutine is left.
LEMMA NobodyLive ==
    ASSUME Counted, wg = 0
    PROVE  \A q \in Queries : gpc[q] \notin {"running", "answered", "locked"}
<1>1. Live = {}
  BY LiveFacts, FS_EmptySet DEF Counted
<1> QED BY <1>1 DEF Live

LEMMA QueryStep ==
    ASSUME TypeOK, Counted, MainInv, \A q \in Queries : QueryInv(q), [Next]_vars
    PROVE  \A q \in Queries : QueryInv(q)'
<1> SUFFICES ASSUME NEW r \in Queries PROVE QueryInv(r)'
  OBVIOUS
<1> USE Distinct DEF QueryInv, Over
<1>1. CASE GetPodNames
  BY <1>1 DEF GetPodNames, MainInv
<1>2. CASE UsePodNames
  BY <1>2 DEF UsePodNames, Return, services
<1>3. CASE GetAlerts
  BY <1>3 DEF GetAlerts
<1>4. CASE SpawnedAll
  BY <1>4 DEF SpawnedAll, services
<1>5. CASE Collect
  BY <1>5, NobodyLive DEF Collect, Return, services, TypeOK
<1>6. CASE Reply
  BY <1>6 DEF Reply, services
<1>7. ASSUME NEW q \in Queries, Spawn(q) PROVE QueryInv(r)'
  BY <1>7 DEF Spawn, services, TypeOK, MainInv
<1>8. ASSUME NEW q \in Queries, Query(q) PROVE QueryInv(r)'
  BY <1>8 DEF Query, TypeOK
<1>9. ASSUME NEW q \in Queries, Lock(q) PROVE QueryInv(r)'
  BY <1>9, AnswersAssumption DEF Lock, services, TypeOK
<1>10. ASSUME NEW q \in Queries, Record(q) PROVE QueryInv(r)'
  BY <1>10, AnswersAssumption DEF Record, services, TypeOK
<1>11. ASSUME NEW q \in Queries, Unlock(q) PROVE QueryInv(r)'
  BY <1>11 DEF Unlock, services, TypeOK
<1>12. CASE Expire
  BY <1>12 DEF Expire, services
<1>13. CASE UNCHANGED vars
  BY <1>13 DEF vars
<1> QED
  BY <1>1, <1>2, <1>3, <1>4, <1>5, <1>6, <1>7, <1>8, <1>9, <1>10, <1>11, <1>12, <1>13
  DEF Next, Main, Goroutine, Terminated

-----------------------------------------------------------------------------
\* What a query has said changes only when it records a result, or gets an
\* answer that says nothing yet.
LEMMA WrittenFrame ==
    ASSUME UNCHANGED <<answers, applied>>
    PROVE  \A q, p : Written(q, p)' = Written(q, p)
BY DEF Written

LEMMA WrittenStart ==
    ASSUME TypeOK, NEW q \in Queries, QueryInv(q), gpc[q] \in {"none", "running", "answered"}
    PROVE  \A p : Written(q, p) = Zero(q)
BY SaysNothingAtFirst DEF Written, QueryInv

\* One iteration changes one field of one pod.
LEMMA MapRecord ==
    ASSUME TypeOK, \A q \in Queries : QueryInv(q), MapInv, Working,
           NEW q \in Queries, Record(q)
    PROVE  podMetrics' = [p \in podAnswer.pods |-> [r \in Queries |-> Written(r, p)']]
<1> DEFINE a == answers[q]
           n == applied[q]
           res == a.results[n + 1]
<1>1. /\ n \in Nat
      /\ a.kind = "vector"
      /\ answers' = answers
      /\ applied' = [applied EXCEPT ![q] = n + 1]
      /\ podMetrics' = Apply(q, podMetrics, res)
  BY DEF Record, QueryInv, TypeOK, services
<1>2. podMetrics = [p \in podAnswer.pods |-> [r \in Queries |-> Written(r, p)]]
  BY DEF MapInv
<1>3. ASSUME NEW r \in Queries, r # q, NEW p PROVE Written(r, p)' = Written(r, p)
  BY <1>1, <1>3 DEF Written, TypeOK
<1>4. ASSUME NEW p
      PROVE  Written(q, p)' = IF res.pod = p THEN Field(q, Written(q, p), res.value)
                              ELSE Written(q, p)
  <2>1. /\ Written(q, p) = Abstract!SaysSoFar(q, a, n, p)
        /\ Written(q, p)' = Abstract!SaysSoFar(q, a, n + 1, p)
    BY <1>1 DEF Written, TypeOK
  <2>2. Abstract!SaysSoFar(q, a, n + 1, p) =
          IF res.pod = p THEN Field(q, Abstract!SaysSoFar(q, a, n, p), res.value)
          ELSE Abstract!SaysSoFar(q, a, n, p)
    BY <1>1, NextResult
  <2> QED BY <2>1, <2>2
<1> HIDE DEF a, n, res
<1>5. CASE res.pod \notin podAnswer.pods
  BY <1>1, <1>2, <1>3, <1>4, <1>5 DEF Apply
<1>6. CASE res.pod \in podAnswer.pods
  <2>1. podMetrics' = [podMetrics EXCEPT ![res.pod][q] =
                         Field(q, podMetrics[res.pod][q], res.value)]
    BY <1>1, <1>2, <1>6 DEF Apply
  <2>2. podMetrics' = [p \in podAnswer.pods |->
                         IF p = res.pod
                         THEN [podMetrics[p] EXCEPT ![q] = Field(q, Written(q, p), res.value)]
                         ELSE podMetrics[p]]
    BY <1>2, <1>6, <2>1
  <2>3. ASSUME NEW p \in podAnswer.pods
        PROVE  podMetrics'[p] = [r \in Queries |-> Written(r, p)']
    BY <1>2, <1>3, <1>4, <2>2
  <2> QED BY <2>2, <2>3
<1> QED BY <1>5, <1>6

LEMMA MapStep ==
    ASSUME TypeOK, MainInv, \A q \in Queries : QueryInv(q), MapInv, [Next]_vars
    PROVE  MapInv'
<1> DEFINE Full == [p \in podAnswer.pods |-> [q \in Queries |-> Written(q, p)]]
<1>1. ASSUME UNCHANGED <<podMetrics, podAnswer, answers, applied>>, Working' => Working
      PROVE  MapInv'
  BY <1>1, WrittenFrame DEF MapInv
<1>2. CASE GetPodNames
  BY <1>2 DEF MapInv, GetPodNames, Working
<1>3. CASE UsePodNames
  <2> SUFFICES ASSUME Working' PROVE MapInv'
    BY DEF MapInv
  <2>1. /\ podMetrics' = [p \in podAnswer.pods |-> [q \in Queries |-> Zero(q)]]
        /\ UNCHANGED <<podAnswer, answers, applied>>
        /\ pc = "named"
    BY <1>3 DEF UsePodNames, Return, Working, services
  <2>2. \A q \in Queries : \A p : Written(q, p) = Zero(q)
    BY <2>1, WrittenStart DEF QueryInv
  <2>3. podMetrics' = Full
    BY <2>1, <2>2
  <2>4. Full' = Full
    BY <2>1, WrittenFrame
  <2> QED BY <2>3, <2>4 DEF MapInv
<1>4. CASE GetAlerts
  BY <1>1, <1>4 DEF GetAlerts, Working
<1>5. CASE SpawnedAll
  BY <1>1, <1>5 DEF SpawnedAll, services, Working
<1>6. CASE Collect
  BY <1>1, <1>6 DEF Collect, Return, services, Working
<1>7. CASE Reply
  BY <1>1, <1>7 DEF Reply, services, Working
<1>8. ASSUME NEW q \in Queries, Spawn(q) \/ Lock(q) \/ Unlock(q) PROVE MapInv'
  BY <1>1, <1>8 DEF Spawn, Lock, Unlock, services, Working
<1>9. ASSUME NEW q \in Queries, Query(q) PROVE MapInv'
  <2> SUFFICES ASSUME Working PROVE MapInv'
    BY <1>9 DEF MapInv, Query, Working
  <2>1. /\ gpc[q] = "running"
        /\ \E a : answers' = [answers EXCEPT ![q] = a]
        /\ UNCHANGED <<pc, applied, podMetrics, podAnswer>>
    BY <1>9 DEF Query
  <2>2. ASSUME NEW r \in Queries, r # q, NEW p PROVE Written(r, p)' = Written(r, p)
    BY <2>1, <2>2 DEF Written, TypeOK
  <2>3. ASSUME NEW p PROVE Written(q, p)' = Written(q, p)
    <3>1. Written(q, p) = Zero(q)
      BY <2>1, WrittenStart
    <3>2. applied'[q] = 0
      BY <2>1 DEF QueryInv
    <3> QED BY <3>1, <3>2, SaysNothingAtFirst DEF Written
  <2>4. Full' = Full
    BY <2>1, <2>2, <2>3
  <2> QED BY <2>1, <2>4 DEF MapInv
<1>10. ASSUME NEW q \in Queries, Record(q) PROVE MapInv'
  <2> SUFFICES ASSUME Working PROVE MapInv'
    BY <1>10 DEF MapInv, Record, Working
  <2>1. podAnswer' = podAnswer
    BY <1>10 DEF Record, services
  <2> QED BY <1>10, <2>1, MapRecord DEF MapInv
<1>11. CASE Expire
  BY <1>1, <1>11 DEF Expire, services, Working
<1>12. CASE UNCHANGED vars
  BY <1>1, <1>12 DEF vars, Working
<1> QED
  BY <1>2, <1>3, <1>4, <1>5, <1>6, <1>7, <1>8, <1>9, <1>10, <1>11, <1>12
  DEF Next, Main, Goroutine, Terminated

-----------------------------------------------------------------------------
LEMMA InitIInv == Init => IInv
<1> SUFFICES ASSUME Init PROVE IInv
  OBVIOUS
<1> USE DEF Init, Abstract!ReportInit
<1>1. Pending = Abstract!Pending
  BY DEF Pending
<1>2. Live = {} /\ Cardinality({}) = 0
  BY FS_EmptySet DEF Live
<1>3. TypeOK
  BY <1>1 DEF TypeOK
<1>4. Counted
  BY <1>2 DEF Counted
<1>5. MainInv
  BY <1>1 DEF MainInv, Over, Working
<1>6. \A q \in Queries : QueryInv(q)
  BY <1>1, Distinct DEF QueryInv, Over
<1>7. MapInv
  BY DEF MapInv, Working
<1> QED BY <1>3, <1>4, <1>5, <1>6, <1>7 DEF IInv

\* Every step keeps the inductive invariant.
THEOREM Invariance == Spec => []IInv
<1>1. IInv /\ [Next]_vars => IInv'
  <2> SUFFICES ASSUME IInv, [Next]_vars PROVE IInv'
    OBVIOUS
  <2> USE DEF IInv
  <2>1. TypeOK' /\ Counted'
    BY TypeStep, CountedStep
  <2>2. MainInv'
    BY MainStep
  <2>3. \A q \in Queries : QueryInv(q)'
    BY QueryStep
  <2>4. MapInv'
    BY MapStep
  <2> QED BY <2>1, <2>2, <2>3, <2>4
<1> QED BY InitIInv, <1>1, PTL DEF Spec

\* Type correctness, and with it that the WaitGroup's counter is never
\* negative, for any number of queries and any answers.
THEOREM TypeCorrect == Spec => []TypeOK
<1>1. IInv => TypeOK
  BY DEF IInv
<1> QED BY <1>1, Invariance, PTL

\* The WaitGroup counts the goroutines that have not ended
\* (dashboard.go:142-178).
THEOREM CountedAlways == Spec => []Counted
<1>1. IInv => Counted
  BY DEF IInv
<1> QED BY <1>1, Invariance, PTL

\* Once GetStatusDashboard has returned, no goroutine writes to the map its
\* report was copied from (dashboard.go:180-186).
THEOREM ReturnedIsFinal == Spec => NoWriteAfterReturn
<1>1. ASSUME IInv, [Next]_vars
      PROVE  [(pc \in {"returned", "replied"}) => UNCHANGED <<podMetrics, answers>>]_vars
  <2> SUFFICES ASSUME Over PROVE UNCHANGED <<podMetrics, answers>>
    BY DEF Over
  <2>1. \A q \in Queries : gpc[q] \in {"none", "done"}
    BY <1>1 DEF IInv, QueryInv
  <2>2. ~\E q \in Queries : Spawn(q) \/ Goroutine(q)
    BY <2>1 DEF Spawn, Goroutine, Query, Lock, Record, Unlock, Over
  <2>3. ~GetPodNames /\ ~UsePodNames /\ ~GetAlerts /\ ~SpawnedAll /\ ~Collect
    BY DEF GetPodNames, UsePodNames, GetAlerts, SpawnedAll, Collect, Over
  <2>4. Reply \/ Expire \/ UNCHANGED vars
    BY <1>1, <2>2, <2>3 DEF Next, Main, Terminated
  <2> QED BY <2>4 DEF Reply, Expire, services, vars
<1> QED BY <1>1, Invariance, PTL DEF Spec, NoWriteAfterReturn

\* What the map holds when the last goroutine is done is the summary of the
\* answers.
LEMMA CollectsSummary ==
    ASSUME IInv, Collect
    PROVE  /\ \A q \in Queries : answers[q] # Pending
           /\ report' = Abstract!Summary
<1>1. \A q \in Queries : gpc[q] = "done"
  BY NobodyLive DEF IInv, QueryInv, Collect, TypeOK
<1>2. \A q \in Queries : answers[q] # Pending
  BY <1>1 DEF IInv, QueryInv
<1>3. ASSUME NEW q \in Queries, NEW p
      PROVE  Written(q, p) = Abstract!Says(q, answers[q], p)
  <2>1. answers[q].kind = "vector" => applied[q] = Len(answers[q].results)
    BY <1>1 DEF IInv, QueryInv
  <2> QED BY <2>1 DEF Written, Abstract!Says, Zero
<1>4. podMetrics = [p \in podAnswer.pods |->
                      [q \in Queries |-> Abstract!Says(q, answers[q], p)]]
  BY <1>3 DEF IInv, MapInv, Working, Collect
<1>5. alerts = IF alertAnswer.kind = "alerts"
               THEN {a \in alertAnswer.alerts : Matches(a)} ELSE {}
  BY DEF IInv, MainInv, Collect
<1> QED BY <1>2, <1>4, <1>5 DEF Collect, Return, Abstract!Summary

\* GetStatusDashboard implements the abstract specification of /status: the
\* report is a function of the answers, whatever order the goroutines ran in
\* (dashboard.go:62-191).
THEOREM Refinement == Spec => Implements
<1>1. Init => Abstract!ReportInit
  BY DEF Init
<1>2. ASSUME IInv, [Next]_vars
      PROVE  [Abstract!ReportNext]_(Abstract!reportVars)
  <2> USE <1>2 DEF IInv, Abstract!reportVars
  <2>1. Pending = Abstract!Pending /\ Failed = Abstract!Failed
    BY DEF Pending, Failed
  <2>2. CASE GetPodNames
    <3>1. Abstract!AnswerPods
      BY <2>1, <2>2 DEF GetPodNames, MainInv, Abstract!AnswerPods
    <3> QED BY <3>1 DEF Abstract!ReportNext
  <2>3. CASE UsePodNames
    <3>1. podAnswer # Pending /\ report = Abstract!NoReport /\ UNCHANGED services
      BY <2>3 DEF UsePodNames, MainInv, Over
    <3>2. CASE pc' = "returned"
      <4>1. Abstract!Deliver
        BY <2>1, <2>3, <3>1, <3>2 DEF UsePodNames, Return, Abstract!Deliver, services
      <4> QED BY <4>1 DEF Abstract!ReportNext
    <3>3. CASE pc' # "returned"
      BY <2>3, <3>1, <3>3 DEF UsePodNames, Return, services
    <3> QED BY <3>2, <3>3
  <2>4. CASE GetAlerts
    <3>1. podAnswer # Pending /\ alertAnswer = Pending
      BY <2>4 DEF GetAlerts, MainInv
    <3>2. Abstract!AnswerAlerts
      BY <2>1, <2>4, <3>1 DEF GetAlerts, Abstract!AnswerAlerts
    <3> QED BY <3>2 DEF Abstract!ReportNext
  <2>5. CASE Collect
    <3>1. /\ podAnswer # Pending /\ report = Abstract!NoReport
          /\ podAnswer.kind = "pods" /\ podAnswer.pods # {}
      BY <2>5 DEF Collect, MainInv, Over, Working
    <3>2. Abstract!Deliver
      BY <2>1, <2>5, <3>1, CollectsSummary DEF Collect, Abstract!Deliver, services
    <3> QED BY <3>2 DEF Abstract!ReportNext
  <2>6. ASSUME NEW q \in Queries, Query(q)
        PROVE  [Abstract!ReportNext]_(Abstract!reportVars)
    <3>1. alertAnswer # Pending /\ answers[q] = Pending
      BY <2>6 DEF Query, QueryInv
    <3>2. Abstract!AnswerQuery(q)
      BY <2>1, <2>6, <3>1 DEF Query, Abstract!AnswerQuery
    <3> QED BY <3>2 DEF Abstract!ReportNext
  <2>7. ASSUME NEW q \in Queries, Spawn(q) \/ Lock(q) \/ Record(q) \/ Unlock(q)
        PROVE  UNCHANGED Abstract!reportVars
    BY <2>7 DEF Spawn, Lock, Record, Unlock, services
  <2>8. CASE SpawnedAll \/ Reply \/ Expire \/ UNCHANGED vars
    BY <2>8 DEF SpawnedAll, Reply, Expire, vars, services
  <2> QED
    BY <1>2, <2>2, <2>3, <2>4, <2>5, <2>6, <2>7, <2>8
    DEF Next, Main, Goroutine, Terminated
<1> QED BY <1>1, <1>2, Invariance, PTL DEF Spec, Implements, Abstract!ReportSpec
=============================================================================
