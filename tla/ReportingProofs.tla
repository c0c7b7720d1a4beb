-------------------------- MODULE ReportingProofs --------------------------
(***************************************************************************)
(* The chat is not left with a wrong impression, for any number of retries *)
(* and revisions.  The invariant follows the latest message of a command   *)
(* from the handler over the channel to Telegram (Said), and says what it  *)
(* must be once the handler has nothing left to do but return.  That needs *)
(* the shape the handlers have in common: what stands before "end".        *)
(***************************************************************************)
EXTENDS Reporting, TLAPS

\* What every rest of a handler looks like, at each of its steps.
ShapeAt(k, s, i) ==
    /\ i = Len(s) <=> s[i] \in {"end", "fail"}
    /\ s[i] = "success" => s[i + 1] = "end"
    /\ i < Len(s) /\ s[i + 1] = "end" =>
         s[i] \in {"success", "tell"} \/ (k = "revisions" /\ s[i] = "lines")
    /\ i < Len(s) /\ s[i + 1] = "fail" => s[i] = "report"
    /\ s[i] = "lines" /\ k = "revisions" => s[i + 1] = "end"
    /\ s[i] = "poll" => k \in Streaming
    /\ s[i] = "retry" => \A j \in 1..Len(s) : s[j] = "retry" => j = i

Shape(k, s) == s \in Seq(Steps) /\ s # <<>> /\ \A i \in 1..Len(s) : ShapeAt(k, s, i)

Started == result # "idle"

HandlerInv ==
    /\ todo \in Seq(Steps)
    /\ Started <=> kind # Nothing
    /\ Started => Shape(kind, todo)
    /\ result = "ok" => Head(todo) = "end"
    /\ result = "error" => Head(todo) = "fail"
    /\ result = "running" /\ (\E i \in 1..Len(todo) : todo[i] = "retry") => tries < MaxTries

ReaderInv ==
    /\ closed \/ reader = "done" => result \in {"ok", "error"}
    /\ offer # Nothing => reader = "run"
    /\ reader # "none" => kind \in Streaming

\* The latest message, on its way or in the chat, is one of these.
Said(M) ==
    IF offer # Nothing THEN offer \in M
    ELSE IF hand # Nothing THEN hand \in M
    ELSE lost \/ shown \in M

\* A handler that is about to return has said how it went.
OutcomeInv ==
    Started =>
      /\ Head(todo) = "end" =>
           Said({"success", "answer", "empty"}) \/ (kind = "revisions" /\ lines = 0)
      /\ Head(todo) = "fail" =>
           \/ Said({"failure"})
           \/ kind \in Quiet
           \/ kind \in {"scale", "restart"} /\ polled /\ expired
      /\ kind = "revisions" /\ lines > 0 =>
           Said({"answer"}) /\ Head(todo) \in {"lines", "end"}

\* Nobody has heard of success before the work is done.
SuccessInv ==
    "success" \in {offer, hand, shown} => Started /\ Head(todo) = "end"

IInv == TypeOK /\ HandlerInv /\ ReaderInv /\ OutcomeInv /\ SuccessInv

-----------------------------------------------------------------------------
\* A handler keeps its shape as its steps are done.
LEMMA ShapeTail ==
    ASSUME NEW k, NEW s, Shape(k, s), Head(s) \notin {"end", "fail"}
    PROVE  /\ Shape(k, Tail(s))
           /\ Len(s) > 1
           /\ s[1] = Head(s) /\ s[2] = Head(Tail(s))
           /\ \A i \in 1..Len(Tail(s)) : Tail(s)[i] = s[i + 1]
<1>1. /\ s \in Seq(Steps) /\ s # <<>> /\ s[1] = Head(s) /\ Len(s) \in Nat /\ Len(s) > 0
  BY DEF Shape
<1>2. Len(s) > 1
  BY <1>1 DEF Shape, ShapeAt
<1>3. /\ Tail(s) \in Seq(Steps) /\ Len(Tail(s)) = Len(s) - 1 /\ Tail(s) # <<>>
      /\ \A i \in 1..Len(Tail(s)) : Tail(s)[i] = s[i + 1]
      /\ Head(Tail(s)) = s[2]
  BY <1>1, <1>2
<1>4. Shape(k, Tail(s))
  <2> DEFINE t == Tail(s)
  <2> SUFFICES ASSUME NEW i \in 1..Len(t) PROVE ShapeAt(k, t, i)
    BY <1>3 DEF Shape
  <2>1. i \in Nat /\ Len(t) \in Nat /\ Len(s) = Len(t) + 1
    BY <1>1, <1>3
  <2>2. ShapeAt(k, s, i + 1)
    BY <2>1 DEF Shape
  <2>3. \A j \in 1..Len(t) : j + 1 \in 1..Len(s) /\ t[j] = s[j + 1]
    BY <1>3, <2>1
  <2>4. t[i] = s[i + 1] /\ (i < Len(t) => t[i + 1] = s[(i + 1) + 1])
    BY <2>1, <2>3
  <2>5. i < Len(t) <=> i + 1 < Len(s)
    BY <2>1
  <2>6. i = Len(t) <=> i + 1 = Len(s)
    BY <2>1
  <2>7. t[i] \notin {"end", "fail"} => i < Len(t)
    BY <2>1, <2>2, <2>4 DEF ShapeAt
  <2>8. t[i] = "retry" => \A j \in 1..Len(t) : t[j] = "retry" => j = i
    BY <2>1, <2>2, <2>3, <2>4 DEF ShapeAt
  <2> HIDE DEF t
  <2> QED BY <2>2, <2>4, <2>5, <2>6, <2>7, <2>8 DEF ShapeAt
<1> QED BY <1>1, <1>2, <1>3, <1>4

\* The two ways a handler is cut short.
LEMMA ShapeQuit ==
    ASSUME NEW k
    PROVE  Shape(k, <<"fail">>) /\ Shape(k, <<"report", "fail">>)
BY DEF Shape, ShapeAt, Steps

\* Every handler has the shape.
LEMMA ShapeScript ==
    /\ DOMAIN Script \subseteq
         {"scale", "restart", "rollback", "revisions", "list_pods", "metric", "list_metric",
          "alerts", "history", "operations", "ai_help"}
    /\ \A k \in DOMAIN Script : Shape(k, Script[k]) /\ Head(Script[k]) \in {"args", "call"}
<1> USE DEF Shape, ShapeAt, Steps, Streaming
<1>1. Shape("scale", ScaleScript)
  BY DEF ScaleScript
<1>2. Shape("restart", RestartScript)
  BY DEF RestartScript
<1>3. Shape("rollback", RollbackScript)
  BY DEF RollbackScript
<1>4. Shape("revisions", RevisionsScript)
  BY DEF RevisionsScript
<1>5. Shape("list_pods", ListPodsScript)
  BY DEF ListPodsScript
<1>6. Shape("metric", MetricScript)
  BY DEF MetricScript
<1>7. Shape("list_metric", ListMetricScript)
  BY DEF ListMetricScript
<1>8. Shape("alerts", AlertsScript)
  BY DEF AlertsScript
<1>9. Shape("history", HistoryScript)
  BY DEF HistoryScript
<1>10. Shape("operations", OperationsScript)
  BY DEF OperationsScript
<1>11. Shape("ai_help", AiHelpScript)
  BY DEF AiHelpScript
<1> HIDE DEF Shape, ShapeAt, Steps, Streaming
<1>12. \A s \in {ScaleScript, RestartScript, RollbackScript, RevisionsScript, ListPodsScript,
                 MetricScript, ListMetricScript, AlertsScript, HistoryScript,
                 OperationsScript, AiHelpScript} : Head(s) \in {"args", "call"}
  BY DEF ScaleScript, RestartScript, RollbackScript, RevisionsScript, ListPodsScript,
         MetricScript, ListMetricScript, AlertsScript, HistoryScript, OperationsScript,
         AiHelpScript
<1> QED
  BY <1>1, <1>2, <1>3, <1>4, <1>5, <1>6, <1>7, <1>8, <1>9, <1>10, <1>11, <1>12 DEF Script

-----------------------------------------------------------------------------
\* Where a handler is when it takes a step.
LEMMA AtFacts ==
    ASSUME IInv, NEW s, At(s)
    PROVE  /\ result = "running" /\ Started
           /\ Shape(kind, todo) /\ Head(todo) = s
           /\ offer = Nothing /\ ~closed
           /\ reader \in {"none", "run"}
           /\ reader = "none" => hand = Nothing
BY DEF IInv, At, HandlerInv, ReaderInv, Started, TypeOK

\* What stands next when a step is done, and that an update is not tried
\* again once its loop is left.
LEMMA AdvanceFacts ==
    ASSUME IInv, NEW s, At(s), s \notin {"end", "fail"}, Advance
    PROVE  /\ Shape(kind, todo') /\ todo' \in Seq(Steps)
           /\ Head(todo') = "end" =>
                s \in {"success", "tell"} \/ (kind = "revisions" /\ s = "lines")
           /\ Head(todo') = "fail" => s = "report"
           /\ s = "success" => Head(todo') = "end"
           /\ s = "lines" /\ kind = "revisions" => Head(todo') = "end"
           /\ (\E i \in 1..Len(todo') : todo'[i] = "retry") =>
                s # "retry" /\ \E i \in 1..Len(todo) : todo[i] = "retry"
<1>1. Shape(kind, todo) /\ Head(todo) = s
  BY AtFacts
<1>2. /\ Shape(kind, todo')
      /\ Len(todo) > 1
      /\ todo[1] = s /\ todo[2] = Head(todo')
      /\ \A i \in 1..Len(todo') : todo'[i] = todo[i + 1]
  BY <1>1, ShapeTail DEF Advance
<1>3. Len(todo) \in Nat /\ todo' \in Seq(Steps) /\ todo \in Seq(Steps)
  BY <1>1, <1>2 DEF Shape
<1>4. Len(todo') = Len(todo) - 1
  BY <1>1, <1>2, <1>3 DEF Shape, Advance
<1>5. ShapeAt(kind, todo, 1) /\ todo[1 + 1] = todo[2] /\ 1 < Len(todo)
  BY <1>1, <1>2, <1>3 DEF Shape
<1>6. ASSUME NEW i \in 1..Len(todo'), todo'[i] = "retry"
      PROVE  s # "retry" /\ \E j \in 1..Len(todo) : todo[j] = "retry"
  <2>1. i + 1 \in 1..Len(todo) /\ i + 1 # 1 /\ todo[i + 1] = "retry"
    BY <1>2, <1>3, <1>4, <1>6
  <2> QED BY <1>2, <1>5, <2>1 DEF ShapeAt
<1> QED BY <1>2, <1>3, <1>5, <1>6 DEF ShapeAt

LEMMA QuitFacts ==
    ASSUME NEW k, NEW s \in {<<"fail">>, <<"report", "fail">>}
    PROVE  /\ Shape(k, s) /\ s \in Seq(Steps)
           /\ Head(s) = IF s = <<"fail">> THEN "fail" ELSE "report"
           /\ ~\E i \in 1..Len(s) : s[i] = "retry"
<1>1. CASE s = <<"fail">>
  BY <1>1, ShapeQuit DEF Steps
<1>2. CASE s = <<"report", "fail">>
  <2>1. Shape(k, s) /\ s \in Seq(Steps)
    BY <1>2, ShapeQuit DEF Steps
  <2>2. Head(s) = "report" /\ s # <<"fail">> /\ ~\E i \in 1..Len(s) : s[i] = "retry"
    BY <1>2
  <2> QED BY <2>1, <2>2
<1> QED BY <1>1, <1>2

\* A handler moves on, waits, or is cut short.
LEMMA HandlerMoves ==
    ASSUME IInv, Handler, ~Return
    PROVE  /\ \E s \in Steps \ {"end", "fail"} :
                /\ At(s)
                /\ \/ Advance
                   \/ todo' = todo /\ (s = "retry" => tries' < MaxTries)
                   \/ todo' \in {<<"fail">>, <<"report", "fail">>}
                /\ tries' # tries => s = "retry"
           /\ UNCHANGED <<kind, closed, result, chat>>
<1>1. CASE Args
  BY <1>1 DEF Args, Quit, Steps, fixed, counters
<1>2. CASE Call
  BY <1>2 DEF Call, Fail, Quit, Steps, fixed, counters
<1>3. CASE Check
  BY <1>3 DEF Check, Fail, Quit, Steps, fixed, counters
<1>4. CASE Log
  BY <1>4 DEF Log, Message, Steps, fixed, counters
<1>5. CASE Lines
  BY <1>5 DEF Lines, Steps, fixed
<1>6. CASE Retry
  <2>1. At("retry") /\ UNCHANGED <<kind, closed, result, chat>>
    BY <1>6 DEF Retry, fixed
  <2>2. tries \in Nat /\ tries < MaxTries
    <3>1. 1 \in 1..Len(todo) /\ todo[1] = "retry"
      BY <2>1, AtFacts DEF Shape
    <3> QED BY <2>1, <3>1, AtFacts, ReportingBounds DEF IInv, HandlerInv, TypeOK
  <2>3. \/ Advance
        \/ todo' = todo /\ tries' = tries + 1 /\ tries + 1 # MaxTries
        \/ todo' = <<"fail">>
    BY <1>6 DEF Retry, Fail, Quit, LastTry
  <2>4. tries + 1 # MaxTries => tries + 1 < MaxTries
    BY <2>2, ReportingBounds
  <2> QED BY <2>1, <2>3, <2>4 DEF Steps
<1>7. CASE Poll
  BY <1>7 DEF Poll, GiveUp, Quit, Steps, fixed
<1>8. CASE PollEnds
  BY <1>8 DEF PollEnds, GiveUp, Quit, Steps, fixed, counters
<1>9. CASE Tell
  BY <1>9 DEF Tell, Steps, fixed, counters
<1> QED BY <1>1, <1>2, <1>3, <1>4, <1>5, <1>6, <1>7, <1>8, <1>9 DEF Handler

LEMMA HandlerStep == IInv /\ [Next]_vars => HandlerInv'
<1> SUFFICES ASSUME IInv, [Next]_vars PROVE HandlerInv'
  OBVIOUS
<1>1. ASSUME UNCHANGED <<kind, todo, result, tries>> PROVE HandlerInv'
  BY <1>1 DEF IInv, HandlerInv, Started
<1>2. ASSUME NEW k \in DOMAIN Script, Begin(k) PROVE HandlerInv'
  <2>1. /\ kind' = k /\ todo' = Script[k] /\ tries' = 0 /\ result' = "running"
        /\ k # Nothing /\ Shape(k, Script[k])
    BY <1>2, ShapeScript DEF Begin, Nothing
  <2>2. Script[k] \in Seq(Steps) /\ 0 < MaxTries
    BY <2>1, ReportingBounds DEF Shape
  <2> QED BY <2>1, <2>2 DEF HandlerInv, Started
<1>3. CASE Return
  <2>1. PICK r \in {"ok", "error"} :
          At(IF r = "ok" THEN "end" ELSE "fail") /\ result' = r
    BY <1>3 DEF Return
  <2>2. UNCHANGED <<kind, todo>>
    BY <1>3 DEF Return
  <2>3. Started /\ Head(todo) = IF r = "ok" THEN "end" ELSE "fail"
    BY <2>1, AtFacts
  <2> QED BY <2>1, <2>2, <2>3 DEF IInv, HandlerInv, Started
<1>4. CASE Handler /\ ~Return
  <2>1. PICK s \in Steps \ {"end", "fail"} :
          /\ At(s)
          /\ \/ Advance
             \/ todo' = todo /\ (s = "retry" => tries' < MaxTries)
             \/ todo' \in {<<"fail">>, <<"report", "fail">>}
          /\ tries' # tries => s = "retry"
    BY <1>4, HandlerMoves
  <2>2. /\ UNCHANGED <<kind, result>>
        /\ result = "running" /\ Started /\ Shape(kind, todo) /\ Head(todo) = s
    BY <1>4, <2>1, HandlerMoves, AtFacts
  <2>3. Shape(kind, todo') /\ todo' \in Seq(Steps)
    BY <2>1, <2>2, AdvanceFacts, QuitFacts DEF Shape
  <2>4. (\E i \in 1..Len(todo') : todo'[i] = "retry") => tries' < MaxTries
    <3>1. CASE Advance
      BY <2>1, <2>2, <3>1, AdvanceFacts DEF IInv, HandlerInv
    <3>2. CASE todo' = todo
      BY <2>1, <2>2, <3>2 DEF IInv, HandlerInv, At, Advance
    <3>3. CASE todo' \in {<<"fail">>, <<"report", "fail">>}
      BY <3>3, QuitFacts
    <3> QED BY <2>1, <3>1, <3>2, <3>3
  <2> QED BY <2>2, <2>3, <2>4 DEF IInv, HandlerInv, Started
<1>5. CASE Receive \/ EndReader \/ Deliver \/ Refuse \/ Deadline
  BY <1>1, <1>5 DEF Receive, EndReader, Deliver, Refuse, Deadline, fixed, counters
<1>6. CASE UNCHANGED vars
  BY <1>1, <1>6 DEF vars
<1> QED BY <1>2, <1>3, <1>4, <1>5, <1>6 DEF Next

-----------------------------------------------------------------------------
\* A message of the handler is the latest one.
LEMMA SayFacts ==
    ASSUME IInv, NEW s, At(s), NEW m \in Messages \cup {"empty"}, Say(m),
           UNCHANGED <<reader, chat>>, m = "empty" => reader = "none"
    PROVE  /\ offer' \in Messages \cup {Nothing}
           /\ hand' \in Messages \cup {"empty", Nothing}
           /\ offer' # Nothing => reader' = "run"
           /\ \A M : m \in M => Said(M)'
           /\ "success" \in {offer', hand', shown'} =>
                m = "success" \/ "success" \in {offer, hand, shown}
<1>1. /\ offer = Nothing /\ reader \in {"none", "run"}
      /\ reader = "none" => hand = Nothing
  BY AtFacts
<1>2. m # Nothing
  BY DEF Messages, Nothing
<1>3. hand \in Messages \cup {"empty", Nothing} /\ shown' = shown /\ lost' = lost
  BY DEF IInv, TypeOK, chat
<1>4. CASE reader = "none"
  BY <1>1, <1>2, <1>3, <1>4 DEF Say, Said
<1>5. CASE reader = "run"
  BY <1>1, <1>2, <1>3, <1>5 DEF Say, Said
<1> QED BY <1>1, <1>4, <1>5

\* The reader is only started by a handler that has a channel.
ReaderKept ==
    reader' # reader => reader' = "none" \/ (reader' = "run" /\ kind \in Streaming)

\* What a step of the handler may put under way.
LEMMA HandlerSays ==
    ASSUME IInv, Handler, ~Return
    PROVE  /\ offer' \in Messages \cup {Nothing}
           /\ hand' \in Messages \cup {"empty", Nothing}
           /\ offer' # Nothing => reader' = "run"
           /\ ReaderKept
<1> DEFINE Fine == /\ offer' \in Messages \cup {Nothing}
                   /\ hand' \in Messages \cup {"empty", Nothing}
                   /\ offer' # Nothing => reader' = "run"
<1>1. ASSUME NEW s, At(s), SayNothing PROVE Fine
  BY <1>1, AtFacts DEF SayNothing, IInv, TypeOK
<1>2. ASSUME NEW s, At(s), NEW m \in Messages, Say(m), UNCHANGED <<reader, chat>> PROVE Fine
  <2>1. m # "empty"
    BY DEF Messages
  <2> QED BY <1>2, <2>1, SayFacts
<1>3. {"progress", "failure", "success", "answer"} = Messages
  BY DEF Messages
<1> USE <1>1, <1>2, <1>3
<1> HIDE DEF Fine
<1>4. ASSUME UNCHANGED reader, Fine
      PROVE  Fine /\ ReaderKept
  BY <1>4 DEF ReaderKept
<1>5. ASSUME NEW s, At(s), Fail, UNCHANGED <<reader, chat>> PROVE Fine
  BY <1>5 DEF Fail
<1>6. CASE Args
  <2>1. At("args") /\ UNCHANGED chat
    BY <1>6 DEF Args, fixed
  <2>2. CASE SayNothing /\ reader' = IF kind \in Streaming THEN "run" ELSE "none"
    BY <2>1, <2>2 DEF Fine, ReaderKept
  <2>3. CASE Say("failure") /\ UNCHANGED reader
    BY <1>4, <2>1, <2>3 DEF Fine
  <2> QED BY <1>6, <2>2, <2>3 DEF Args
<1>7. CASE Call
  BY <1>4, <1>5, <1>7 DEF Call, fixed, Fine
<1>8. CASE Check
  BY <1>4, <1>5, <1>8 DEF Check, fixed, Fine
<1>9. CASE Log
  BY <1>4, <1>9 DEF Log, Message, fixed, Fine
<1>10. CASE Lines
  BY <1>4, <1>10 DEF Lines, fixed, Fine
<1>11. CASE Retry
  BY <1>4, <1>5, <1>11 DEF Retry, fixed, Fine
<1>12. CASE Poll
  BY <1>4, <1>12 DEF Poll, fixed, Fine
<1>13. CASE PollEnds
  BY <1>4, <1>13 DEF PollEnds, fixed, Fine
<1>14. CASE Tell
  <2>1. At("tell") /\ UNCHANGED <<reader, chat>>
    BY <1>14 DEF Tell, fixed
  <2>2. kind \in MayBeEmpty => reader = "none"
    BY DEF IInv, ReaderInv, MayBeEmpty, Streaming
  <2>3. Fine
    BY <1>14, <2>1, <2>2, SayFacts DEF Tell, Fine
  <2> QED BY <1>4, <2>1, <2>3 DEF Fine
<1> QED
  BY <1>6, <1>7, <1>8, <1>9, <1>10, <1>11, <1>12, <1>13, <1>14 DEF Handler

LEMMA ReaderStep == IInv /\ [Next]_vars => ReaderInv'
<1> SUFFICES ASSUME IInv, [Next]_vars PROVE ReaderInv'
  OBVIOUS
<1> USE DEF ReaderInv
<1>1. ASSUME NEW k \in DOMAIN Script, Begin(k) PROVE ReaderInv'
  BY <1>1 DEF Begin
<1>2. CASE Return
  BY <1>2, AtFacts DEF Return, IInv
<1>3. CASE Handler /\ ~Return
  <2>1. /\ UNCHANGED <<kind, closed, result>>
        /\ ~closed /\ reader \in {"none", "run"}
    BY <1>3, HandlerMoves, AtFacts
  <2> QED BY <1>3, <2>1, HandlerSays DEF ReaderKept, IInv
<1>4. CASE Receive
  BY <1>4 DEF Receive, IInv, fixed
<1>5. CASE EndReader
  BY <1>5 DEF EndReader, IInv, fixed
<1>6. CASE Deliver
  BY <1>6 DEF Deliver, IInv
<1>7. CASE Refuse
  BY <1>7 DEF Refuse, OnSendError, IInv
<1>8. CASE Deadline
  BY <1>8 DEF Deadline, IInv
<1>9. CASE UNCHANGED vars
  BY <1>9 DEF vars, IInv
<1> QED BY <1>1, <1>2, <1>3, <1>4, <1>5, <1>6, <1>7, <1>8, <1>9 DEF Next

\* The loops stay within their bounds.
LEMMA CountersStep ==
    ASSUME IInv, Handler
    PROVE  tries' \in 0..MaxTries /\ lines' \in 0..MaxLines /\ polled' \in BOOLEAN
<1>1. tries \in 0..MaxTries /\ lines \in 0..MaxLines /\ polled \in BOOLEAN
  BY DEF IInv, TypeOK
<1>2. CASE Retry
  <2>1. 1 \in 1..Len(todo) /\ todo[1] = "retry" /\ result = "running"
    BY <1>2, AtFacts DEF Retry, Shape
  <2>2. tries < MaxTries
    BY <2>1 DEF IInv, HandlerInv
  <2>3. tries' \in {tries, tries + 1} /\ UNCHANGED <<lines, polled>>
    BY <1>2 DEF Retry
  <2> QED BY <1>1, <2>2, <2>3, ReportingBounds
<1>3. CASE Lines
  BY <1>1, <1>3, ReportingBounds DEF Lines
<1>4. CASE Poll
  BY <1>1, <1>4 DEF Poll
<1>5. CASE Args \/ Call \/ Check \/ Log \/ PollEnds \/ Tell \/ Return
  BY <1>1, <1>5 DEF Args, Call, Check, Log, PollEnds, Tell, Return, counters
<1> QED BY <1>2, <1>3, <1>4, <1>5 DEF Handler

LEMMA TypeStep == IInv /\ [Next]_vars => TypeOK'
<1> SUFFICES ASSUME IInv, [Next]_vars PROVE TypeOK'
  OBVIOUS
<1>1. \A i \in DOMAIN todo' : todo'[i] \in Steps
  BY HandlerStep DEF HandlerInv
<1>2. TypeOK
  BY DEF IInv
<1>3. ASSUME NEW k \in DOMAIN Script, Begin(k) PROVE TypeOK'
  <2>1. 0 \in 0..MaxTries /\ 0 \in 0..MaxLines
    BY ReportingBounds
  <2>2. /\ kind' \in DOMAIN Script /\ tries' = 0 /\ lines' = 0 /\ polled' = FALSE
        /\ expired' = FALSE /\ result' = "running" /\ offer' = Nothing /\ closed' = FALSE
        /\ reader' = "none" /\ hand' = Nothing /\ shown' = Nothing /\ lost' = FALSE
    BY <1>3 DEF Begin
  <2> QED BY <1>1, <2>1, <2>2 DEF TypeOK
<1>4. CASE Return
  BY <1>1, <1>2, <1>4 DEF Return, TypeOK, counters, chat
<1>5. CASE Handler /\ ~Return
  <2>1. UNCHANGED <<kind, closed, result, shown, lost>>
    BY <1>5, HandlerMoves DEF chat
  <2>2. expired' = expired
    BY <1>5 DEF Handler, Args, Call, Check, Log, Lines, Retry, Poll, PollEnds, Tell, fixed
  <2>3. reader' \in {"none", "run", "done"}
    BY <1>2, <1>5, HandlerSays DEF ReaderKept, TypeOK
  <2> QED BY <1>1, <1>2, <1>5, <2>1, <2>2, <2>3, CountersStep, HandlerSays DEF TypeOK
<1>6. CASE Receive
  BY <1>1, <1>2, <1>6 DEF Receive, TypeOK, fixed, counters, chat
<1>7. CASE EndReader
  BY <1>1, <1>2, <1>7 DEF EndReader, TypeOK, fixed, counters, chat
<1>8. CASE Deliver
  BY <1>1, <1>2, <1>8 DEF Deliver, TypeOK, counters
<1>9. CASE Refuse
  BY <1>1, <1>2, <1>9 DEF Refuse, OnSendError, TypeOK, counters
<1>10. CASE Deadline
  BY <1>1, <1>2, <1>10 DEF Deadline, TypeOK, counters, chat
<1>11. CASE UNCHANGED vars
  BY <1>2, <1>11 DEF vars, TypeOK
<1> QED
  BY <1>3, <1>4, <1>5, <1>6, <1>7, <1>8, <1>9, <1>10, <1>11 DEF Next

-----------------------------------------------------------------------------
\* The channel and Telegram do not reorder messages: what was the latest one
\* still is, or is known to be lost.
LEMMA SaidKept ==
    ASSUME IInv, NEW M, Said(M),
           Receive \/ EndReader \/ Deliver \/ Refuse \/ Deadline \/ Return \/ UNCHANGED vars
    PROVE  Said(M)'
<1> USE DEF Said
<1>1. CASE Receive
  BY <1>1 DEF Receive, fixed, chat
<1>2. CASE EndReader
  BY <1>2 DEF EndReader, fixed, chat
<1>3. CASE Deliver
  BY <1>3 DEF Deliver
<1>4. CASE Refuse
  BY <1>4 DEF Refuse
<1>5. CASE Deadline
  BY <1>5 DEF Deadline, chat
<1>6. CASE Return
  BY <1>6 DEF Return, chat
<1>7. CASE UNCHANGED vars
  BY <1>7 DEF vars
<1> QED BY <1>1, <1>2, <1>3, <1>4, <1>5, <1>6, <1>7

\* What remains to be shown of a step of the handler: a list of revisions
\* that has begun is only continued or ended.
LEMMA OutcomeOfHandler ==
    ASSUME IInv, NEW s, At(s), s \notin {"lines", "end"}, UNCHANGED <<kind, lines, result>>,
           Head(todo') = "end" => Said({"success", "answer", "empty"})',
           Head(todo') = "fail" =>
             \/ Said({"failure"})'
             \/ kind \in Quiet
             \/ kind \in {"scale", "restart"} /\ polled' /\ expired'
    PROVE  OutcomeInv'
<1>1. Started /\ Head(todo) = s
  BY AtFacts
<1>2. ~(kind = "revisions" /\ lines > 0)
  BY <1>1 DEF IInv, OutcomeInv
<1> QED BY <1>1, <1>2 DEF OutcomeInv, Started

\* A handler that fails says so, or is one of the quiet ones.
LEMMA OutcomeOfFail ==
    ASSUME IInv, NEW s, At(s), s \notin {"lines", "end"}, Fail,
           UNCHANGED <<kind, lines, result, reader, chat>>
    PROVE  OutcomeInv'
<1>1. Head(todo') = "fail"
  BY DEF Fail, Quit
<1>2. kind \in Quiet \/ Said({"failure"})'
  BY SayFacts DEF Fail, Messages
<1> QED BY <1>1, <1>2, OutcomeOfHandler

\* So does one that goes on to a step that is not the last.
LEMMA OutcomeOfAdvance ==
    ASSUME IInv, NEW s, At(s), s \notin {"lines", "end", "fail", "success", "tell", "report"},
           UNCHANGED <<kind, lines, result>>, Advance \/ UNCHANGED todo
    PROVE  OutcomeInv'
<1>1. Head(todo') \notin {"end", "fail"}
  <2>1. CASE Advance
    BY <2>1, AdvanceFacts
  <2>2. CASE UNCHANGED todo
    BY <2>2, AtFacts
  <2> QED BY <2>1, <2>2
<1> QED BY <1>1, OutcomeOfHandler

LEMMA OutcomeStep == IInv /\ [Next]_vars => OutcomeInv'
<1> SUFFICES ASSUME IInv, [Next]_vars PROVE OutcomeInv'
  OBVIOUS
<1> USE DEF fixed, counters
<1>1. ASSUME NEW k \in DOMAIN Script, Begin(k) PROVE OutcomeInv'
  <2>1. Head(todo') \in {"args", "call"} /\ lines' = 0
    BY <1>1, ShapeScript DEF Begin
  <2> QED BY <2>1 DEF OutcomeInv
<1>2. CASE Args
  <2>1. At("args") /\ UNCHANGED <<kind, lines, result, chat>>
    BY <1>2 DEF Args
  <2>2. CASE Advance
    BY <2>1, <2>2, OutcomeOfAdvance
  <2>3. CASE Quit /\ Say("failure") /\ UNCHANGED reader
    <3>1. Head(todo') = "fail" /\ Said({"failure"})'
      BY <2>1, <2>3, SayFacts DEF Quit, Messages
    <3> QED BY <2>1, <3>1, OutcomeOfHandler
  <2> QED BY <1>2, <2>2, <2>3 DEF Args
<1>3. CASE Call
  BY <1>3, OutcomeOfAdvance, OutcomeOfFail DEF Call
<1>4. CASE Check
  BY <1>4, OutcomeOfAdvance, OutcomeOfFail DEF Check
<1>5. CASE Log
  <2>1. PICK s \in DOMAIN Message : At(s) /\ Say(Message[s])
    BY <1>5 DEF Log
  <2>2. Advance /\ UNCHANGED <<kind, lines, result, reader, chat>>
    BY <1>5 DEF Log
  <2>3. /\ s \in {"log", "report", "success"}
        /\ s = "report" => Message[s] = "failure"
        /\ s = "success" => Message[s] = "success"
        /\ Message[s] \in Messages \ {"empty"}
    BY DEF Message, Messages
  <2>4. \A M : Message[s] \in M => Said(M)'
    BY <2>1, <2>2, <2>3, SayFacts
  <2>5. /\ Head(todo') = "end" => s = "success"
        /\ Head(todo') = "fail" => s = "report"
    BY <2>1, <2>2, <2>3, AdvanceFacts
  <2> QED BY <2>1, <2>2, <2>3, <2>4, <2>5, OutcomeOfHandler
<1>6. CASE Lines
  <2>1. /\ At("lines") /\ Started /\ Head(todo) = "lines"
        /\ UNCHANGED <<kind, result, reader, chat>>
        /\ lines \in Nat
    BY <1>6, AtFacts DEF Lines, IInv, TypeOK
  <2>2. CASE UNCHANGED todo /\ Say(IF kind \in Streaming THEN "progress" ELSE "answer")
    <3>1. kind = "revisions" => Said({"answer"})'
      BY <2>1, <2>2, SayFacts DEF Streaming, Messages
    <3> QED BY <2>1, <2>2, <3>1 DEF OutcomeInv, Started
  <2>3. CASE Advance /\ SayNothing /\ UNCHANGED lines
    <3>1. /\ Head(todo') # "fail"
          /\ Head(todo') = "end" => kind = "revisions"
          /\ kind = "revisions" => Head(todo') = "end"
      BY <2>1, <2>3, AdvanceFacts
    <3>2. kind = "revisions" /\ lines > 0 => Said({"answer"})
      BY <2>1 DEF IInv, OutcomeInv
    <3>3. kind = "revisions" /\ lines > 0 =>
            Said({"answer"})' /\ Said({"success", "answer", "empty"})'
      BY <2>1, <2>3, <3>2 DEF Said, SayNothing, chat
    <3> QED BY <2>1, <2>3, <3>1, <3>3 DEF OutcomeInv, Started
  <2> QED BY <1>6, <2>2, <2>3 DEF Lines
<1>7. CASE Retry
  <2>1. At("retry") /\ UNCHANGED <<kind, lines, result, reader, chat>>
    BY <1>7 DEF Retry
  <2>2. Advance \/ UNCHANGED todo \/ Fail
    BY <1>7 DEF Retry
  <2> QED BY <2>1, <2>2, OutcomeOfAdvance, OutcomeOfFail
<1>8. CASE Poll
  <2>1. At("poll") /\ UNCHANGED <<kind, lines, result, reader, chat>>
    BY <1>8 DEF Poll
  <2>2. CASE Advance \/ UNCHANGED todo
    BY <2>1, <2>2, OutcomeOfAdvance
  <2>3. CASE Say("failure") /\ GiveUp
    <3>1. Said({"failure"})'
      BY <2>1, <2>3, SayFacts DEF Messages
    <3>2. Head(todo') \in {"fail", "report"}
      BY <2>3, QuitFacts DEF GiveUp, Quit
    <3> QED BY <2>1, <3>1, <3>2, OutcomeOfHandler
  <2> QED BY <1>8, <2>2, <2>3 DEF Poll
<1>9. CASE PollEnds
  <2>1. /\ At("poll") /\ polled /\ expired /\ GiveUp
        /\ UNCHANGED <<kind, lines, result, polled, expired>>
    BY <1>9 DEF PollEnds
  <2>2. kind \in Streaming
    <3>1. 1 \in 1..Len(todo) /\ todo[1] = "poll" /\ Shape(kind, todo)
      BY <2>1, AtFacts DEF Shape
    <3> QED BY <3>1 DEF Shape, ShapeAt
  <2>3. /\ Head(todo') # "end"
        /\ Head(todo') = "fail" => kind \in {"scale", "restart"}
    BY <2>1, <2>2, QuitFacts DEF GiveUp, Quit, Streaming
  <2> QED BY <2>1, <2>3, OutcomeOfHandler
<1>10. CASE Tell
  <2>1. At("tell") /\ Advance /\ UNCHANGED <<kind, lines, result, reader, chat>>
    BY <1>10 DEF Tell
  <2>2. kind \in MayBeEmpty => reader = "none"
    BY DEF IInv, ReaderInv, MayBeEmpty, Streaming
  <2>3. Said({"success", "answer", "empty"})'
    BY <1>10, <2>1, <2>2, SayFacts DEF Tell, Messages
  <2>4. Head(todo') # "fail"
    BY <2>1, AdvanceFacts
  <2> QED BY <2>1, <2>3, <2>4, OutcomeOfHandler
<1>11. CASE Receive \/ EndReader \/ Deliver \/ Refuse \/ Deadline \/ Return \/ UNCHANGED vars
  <2>1. UNCHANGED <<kind, todo, lines, polled>> /\ (expired => expired')
    BY <1>11 DEF Receive, EndReader, Deliver, Refuse, Deadline, Return, vars
  <2>2. Started' => Started
    BY <1>11, AtFacts
    DEF Receive, EndReader, Deliver, Refuse, Deadline, Return, vars, Started
  <2>3. \A M : Said(M) => Said(M)'
    BY <1>11, SaidKept
  <2> QED BY <2>1, <2>2, <2>3 DEF IInv, OutcomeInv
<1> QED
  BY <1>1, <1>2, <1>3, <1>4, <1>5, <1>6, <1>7, <1>8, <1>9, <1>10, <1>11
  DEF Next, Handler

\* A handler that is not at its end has not spoken of success, and only the
\* step before the end does.
LEMMA NoSuccessYet ==
    ASSUME IInv, NEW s, At(s), s # "end", UNCHANGED chat,
           \/ SayNothing
           \/ \E m \in Messages \cup {"empty"} :
                /\ Say(m) /\ m # "success" /\ UNCHANGED reader
                /\ m = "empty" => reader = "none"
    PROVE  SuccessInv'
<1>1. "success" \notin {offer, hand, shown}
  BY AtFacts DEF IInv, SuccessInv
<1>2. CASE SayNothing
  BY <1>1, <1>2 DEF SayNothing, chat, SuccessInv
<1>3. ASSUME NEW m \in Messages \cup {"empty"}, Say(m), m # "success", UNCHANGED reader,
             m = "empty" => reader = "none"
      PROVE  SuccessInv'
  <2>1. "success" \notin {offer', hand', shown'}
    BY <1>1, <1>3, SayFacts
  <2> QED BY <2>1 DEF SuccessInv
<1> QED BY <1>2, <1>3

LEMMA SuccessStep == IInv /\ [Next]_vars => SuccessInv'
<1> SUFFICES ASSUME IInv, [Next]_vars PROVE SuccessInv'
  OBVIOUS
<1> USE DEF fixed, Messages
<1>1. ASSUME NEW k \in DOMAIN Script, Begin(k) PROVE SuccessInv'
  BY <1>1 DEF Begin, Nothing, SuccessInv
<1>2. CASE Args
  BY <1>2, NoSuccessYet DEF Args
<1>3. CASE Call
  BY <1>3, NoSuccessYet DEF Call, Fail
<1>4. CASE Check
  BY <1>4, NoSuccessYet DEF Check, Fail
<1>5. CASE Log
  <2>1. PICK s \in DOMAIN Message : At(s) /\ Say(Message[s])
    BY <1>5 DEF Log
  <2>2. Advance /\ UNCHANGED <<kind, lines, result, reader, chat>>
    BY <1>5 DEF Log, counters
  <2>3. CASE s = "success"
    <3>1. Head(todo') = "end" /\ Started
      BY <2>1, <2>2, <2>3, AdvanceFacts, AtFacts
    <3> QED BY <2>2, <3>1 DEF SuccessInv, Started
  <2>4. CASE s # "success"
    BY <2>1, <2>2, <2>4, NoSuccessYet DEF Message
  <2> QED BY <2>3, <2>4
<1>6. CASE Lines
  BY <1>6, NoSuccessYet DEF Lines
<1>7. CASE Retry
  BY <1>7, NoSuccessYet DEF Retry, Fail
<1>8. CASE Poll
  BY <1>8, NoSuccessYet DEF Poll
<1>9. CASE PollEnds
  BY <1>9, NoSuccessYet DEF PollEnds
<1>10. CASE Tell
  <2>1. kind \in MayBeEmpty => reader = "none"
    BY DEF IInv, ReaderInv, MayBeEmpty, Streaming
  <2> QED BY <1>10, <2>1, NoSuccessYet DEF Tell
<1>11. CASE Receive \/ EndReader \/ Deliver \/ Refuse \/ Deadline \/ UNCHANGED vars
  <2>1. /\ UNCHANGED <<todo, result>>
        /\ {offer', hand', shown'} \subseteq {offer, hand, shown, Nothing}
    BY <1>11 DEF Receive, EndReader, Deliver, Refuse, Deadline, vars, chat
  <2> QED BY <2>1 DEF IInv, SuccessInv, Started, Nothing
<1>12. CASE Return
  <2>1. UNCHANGED <<todo, offer, hand, shown>> /\ result' # "idle"
    BY <1>12 DEF Return, chat
  <2> QED BY <2>1 DEF IInv, SuccessInv, Started
<1> QED
  BY <1>1, <1>2, <1>3, <1>4, <1>5, <1>6, <1>7, <1>8, <1>9, <1>10, <1>11, <1>12
  DEF Next, Handler

-----------------------------------------------------------------------------
LEMMA InitIInv == Init => IInv
<1> SUFFICES ASSUME Init PROVE IInv
  OBVIOUS
<1> USE DEF Init, Nothing
<1>1. TypeOK
  <2>1. 0 \in 0..MaxTries /\ 0 \in 0..MaxLines
    BY ReportingBounds
  <2>2. \A i \in DOMAIN todo : todo[i] \in Steps
    OBVIOUS
  <2> QED BY <2>1, <2>2 DEF TypeOK
<1>2. HandlerInv /\ ReaderInv
  BY DEF HandlerInv, ReaderInv, Started
<1>3. OutcomeInv /\ SuccessInv
  BY DEF OutcomeInv, SuccessInv, Started
<1> QED BY <1>1, <1>2, <1>3 DEF IInv

\* Every step keeps the inductive invariant.
THEOREM Invariance == Spec => []IInv
<1>1. IInv /\ [Next]_vars => IInv'
  BY TypeStep, HandlerStep, ReaderStep, OutcomeStep, SuccessStep DEF IInv
<1> QED BY InitIInv, <1>1, PTL DEF Spec

\* Type correctness: the rollback's attempts stay within MaxTries
\* (client.go:262), whatever the conflicts.
THEOREM TypeCorrect == Spec => []TypeOK
<1>1. IInv => TypeOK
  BY DEF IInv
<1> QED BY <1>1, Invariance, PTL

\* The last message that got through is the outcome, and success is never
\* announced for work that failed (client.go:113, kube_handlers.go:51-60).
THEOREM LastWordAlways == Spec => []LastWord
<1>1. IInv => LastWord
  <2> SUFFICES ASSUME IInv PROVE LastWord
    OBVIOUS
  <2>1. result = "error" => shown # "success"
    BY DEF IInv, HandlerInv, SuccessInv
  <2>2. ASSUME Settled, kind # Nothing, ~lost, ~Unannounced
        PROVE  shown \in IF result = "ok" THEN {"success", "answer"} ELSE {"failure"}
    <3>1. Started /\ result \in {"ok", "error"} /\ hand = Nothing /\ offer = Nothing
      BY <2>2 DEF IInv, HandlerInv, ReaderInv, TypeOK, Started, Settled
    <3>2. \A M : Said(M) => shown \in M
      BY <2>2, <3>1 DEF Said
    <3>3. CASE result = "ok"
      <4>1. Said({"success", "answer", "empty"})
        <5>1. ~(kind = "revisions" /\ lines = 0)
          BY <2>2, <3>3 DEF Unannounced
        <5> QED BY <3>1, <3>3, <5>1 DEF IInv, HandlerInv, OutcomeInv
      <4>2. shown # "empty"
        BY DEF IInv, TypeOK, Messages, Nothing
      <4> QED BY <3>2, <3>3, <4>1, <4>2
    <3>4. CASE result = "error"
      <4>1. Said({"failure"})
        BY <2>2, <3>1, <3>4 DEF IInv, HandlerInv, OutcomeInv, Unannounced
      <4> QED BY <3>2, <3>4, <4>1
    <3> QED BY <3>1, <3>3, <3>4
  <2> QED BY <2>1, <2>2 DEF LastWord
<1> QED BY <1>1, Invariance, PTL
=============================================================================
