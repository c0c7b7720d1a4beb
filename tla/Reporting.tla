----------------------------- MODULE Reporting -----------------------------
(***************************************************************************)
(* What a command tells the chat about its outcome.                        *)
(*                                                                         *)
(* /scale, /restart and /rollback hand their messages over an unbuffered   *)
(* channel to a goroutine that sends them on with c.Send, and close the    *)
(* channel when they return; what they return goes to standard output.     *)
(* The other commands ask one service and send what it says themselves.    *)
(* Every c.Send is a request to Telegram (external) that takes its time,   *)
(* and may fail before or after the message reached the chat; the handlers *)
(* go on as if it had not.                                                 *)
(*                                                                         *)
(* A handler is the sequence of its steps; /status is in Dashboard.  The   *)
(* executions of different commands share nothing here, so one at a time   *)
(* is enough.                                                              *)
(***************************************************************************)
EXTENDS Naturals, Sequences

CONSTANTS
    MaxTries,  \* attempts of the rollback's update
    MaxLines   \* bound on the ReplicaSets of a Deployment

ASSUME ReportingBounds == MaxTries \in Nat \ {0} /\ MaxLines \in Nat

VARIABLES
    kind,     \* the command
    todo,     \* the steps left of its handler
    tries, lines, polled, \* loop counters, and whether the poll has begun
    expired,  \* the deadline of its context has passed
    result,   \* "running", then what the work ended with
    offer,    \* the message it waits to hand to the reader of its channel
    closed,   \* the channel is closed
    reader,   \* the goroutine that reads the channel
    hand,     \* the message that is being sent to Telegram
    shown,    \* the last message of this command in the chat
    lost      \* history: the last c.Send returned an error

vars == <<kind, todo, tries, lines, polled, expired, result, offer, closed, reader,
          hand, shown, lost>>

Nothing == "nothing"

-----------------------------------------------------------------------------
(***************************************************************************)
(* The handlers.  args: parse, or answer how to use the command; call: a   *)
(* request; check: a condition on its answer; log, report, success: a      *)
(* message; lines: one message per revision; retry: the update that is     *)
(* tried again; poll: wait for the Deployment; tell: the answer.           *)
(***************************************************************************)
ScaleScript == <<"args", "call", "log", "call", "log", "poll", "success", "end">>
RestartScript == <<"args", "call", "call", "log", "poll", "success", "end">>
RollbackScript ==
    <<"args", "log", "call", "log", "check", "log", "log", "call", "log", "lines", "check",
      "log", "log", "retry", "log", "poll", "success", "end">>
RevisionsScript == <<"args", "call", "check", "call", "lines", "end">>
ListPodsScript == <<"args", "call", "tell", "end">>
MetricScript == <<"args", "call", "tell", "end">>
ListMetricScript == <<"args", "call", "tell", "end">>
AlertsScript == <<"call", "tell", "end">>
HistoryScript == <<"call", "tell", "end">>
OperationsScript == <<"call", "tell", "end">>
AiHelpScript == <<"args", "check", "call", "check", "tell", "end">>

Script ==
    [scale |-> ScaleScript, restart |-> RestartScript, rollback |-> RollbackScript,
     revisions |-> RevisionsScript, list_pods |-> ListPodsScript, metric |-> MetricScript,
     list_metric |-> ListMetricScript, alerts |-> AlertsScript, history |-> HistoryScript,
     operations |-> OperationsScript, ai_help |-> AiHelpScript]

Streaming == {"scale", "restart", "rollback"}
\* Their errors go to standard output only.
Quiet == {"revisions", "list_pods"}
\* Their requests have no deadline.
Untimed == {"history", "operations", "ai_help"}
\* Their answer may be an empty text, which Telegram refuses.
MayBeEmpty == {"list_pods", "list_metric"}

Init ==
    /\ kind = Nothing
    /\ todo = <<>>
    /\ tries = 0 /\ lines = 0 /\ polled = FALSE
    /\ expired = FALSE
    /\ result = "idle"
    /\ offer = Nothing /\ closed = FALSE /\ reader = "none"
    /\ hand = Nothing /\ shown = Nothing /\ lost = FALSE

\* The command is over and nothing of it is left to be sent.
Settled == result # "running" /\ hand = Nothing /\ reader # "run"

\* The handler of the next command is called.
Begin(k) ==
    /\ Settled
    /\ kind' = k
    /\ todo' = Script[k]
    /\ tries' = 0 /\ lines' = 0 /\ polled' = FALSE
    /\ expired' = FALSE
    /\ result' = "running"
    /\ offer' = Nothing /\ closed' = FALSE /\ reader' = "none"
    /\ hand' = Nothing /\ shown' = Nothing /\ lost' = FALSE

-----------------------------------------------------------------------------
counters == <<tries, lines, polled>>
chat == <<shown, lost>>
fixed == <<kind, expired, closed, chat>>

\* The handler's goroutine is at a step, not inside log or c.Send.
At(s) ==
    /\ result = "running"
    /\ offer = Nothing
    /\ reader = "none" => hand = Nothing
    /\ Head(todo) = s

Advance == todo' = Tail(todo)
Quit == todo' = <<"fail">>

\* log, or c.Send where there is no channel.
Say(m) ==
    IF reader = "none" THEN hand' = m /\ UNCHANGED offer ELSE offer' = m /\ UNCHANGED hand

SayNothing == UNCHANGED <<offer, hand>>

Fail == Quit /\ IF kind \in Quiet THEN SayNothing ELSE Say("failure")

Args ==
    /\ At("args")
    /\ \/ Advance /\ SayNothing /\ reader' = IF kind \in Streaming THEN "run" ELSE "none"
       \/ Quit /\ Say("failure") /\ UNCHANGED reader
    /\ UNCHANGED <<fixed, counters, result>>

\* A request to Kubernetes, Prometheus, Alertmanager, the database or the
\* language model.  After the deadline it can only fail.
Call ==
    /\ At("call")
    /\ \/ ~expired /\ Advance /\ SayNothing
       \/ Fail
    /\ UNCHANGED <<fixed, counters, result, reader>>

Check ==
    /\ At("check")
    /\ (Advance /\ SayNothing) \/ Fail
    /\ UNCHANGED <<fixed, counters, result, reader>>

Message == [log |-> "progress", report |-> "failure", success |-> "success"]

Log ==
    /\ \E s \in DOMAIN Message : At(s) /\ Say(Message[s])
    /\ Advance
    /\ UNCHANGED <<fixed, counters, result, reader>>

Lines ==
    /\ At("lines")
    /\ \/ /\ lines < MaxLines
          /\ lines' = lines + 1
          /\ Say(IF kind \in Streaming THEN "progress" ELSE "answer")
          /\ UNCHANGED todo
       \/ Advance /\ SayNothing /\ UNCHANGED lines
    /\ UNCHANGED <<fixed, tries, polled, result, reader>>

\* Mutant: the attempts are not counted.
LastTryNever == FALSE

LastTry == tries + 1 = MaxTries

\* Get and Update; a conflict is announced and tried again, and after the
\* last attempt the loop ends as if the update had been stored.
Retry ==
    /\ At("retry")
    /\ \/ ~expired /\ Advance /\ SayNothing /\ UNCHANGED tries
       \/ /\ ~expired
          /\ Say("progress")
          /\ tries' = tries + 1
          /\ IF LastTry THEN Advance ELSE UNCHANGED todo
       \/ Fail /\ UNCHANGED tries
    /\ UNCHANGED <<fixed, lines, polled, result, reader>>

\* Mutant: the rollback does not look at the error of the poll.
GiveUpSilently == Quit

\* The poll returns an error: only the rollback logs it.
GiveUp == IF kind = "rollback" THEN todo' = <<"report", "fail">> ELSE Quit

\* The condition is called, the first time whether or not the deadline has
\* passed.
Poll ==
    /\ At("poll")
    /\ polled' = TRUE
    /\ \/ ~expired /\ Say("progress") /\ UNCHANGED todo
       \/ ~expired /\ Say("progress") /\ Advance
       \/ Say("failure") /\ GiveUp
    /\ UNCHANGED <<fixed, tries, lines, result, reader>>

\* The deadline passes between two calls of the condition.
PollEnds ==
    /\ At("poll")
    /\ polled /\ expired
    /\ SayNothing /\ GiveUp
    /\ UNCHANGED <<fixed, counters, result, reader>>

Tell ==
    /\ At("tell")
    /\ \/ Say("answer")
       \/ kind \in MayBeEmpty /\ Say("empty")
    /\ Advance
    /\ UNCHANGED <<fixed, counters, result, reader>>

\* Mutant: the channel is closed at the end of the function, not deferred.
ClosingOnSuccess(r) == r = "ok"

\* Whatever is returned.
Closing(r) == TRUE

\* The handler returns; the deferred close and cancel are run.
Return ==
    /\ \E r \in {"ok", "error"} :
         /\ At(IF r = "ok" THEN "end" ELSE "fail")
         /\ result' = r
         /\ closed' = (reader = "run" /\ Closing(r))
    /\ UNCHANGED <<kind, todo, counters, expired, offer, reader, hand, chat>>

Handler ==
    \/ Args \/ Call \/ Check \/ Log \/ Lines \/ Retry \/ Poll \/ PollEnds \/ Tell \/ Return

-----------------------------------------------------------------------------
\* for msg := range logCh.
Receive ==
    /\ reader = "run" /\ hand = Nothing /\ offer # Nothing
    /\ hand' = offer
    /\ offer' = Nothing
    /\ UNCHANGED <<fixed, todo, counters, result, reader>>

EndReader ==
    /\ reader = "run" /\ hand = Nothing /\ offer = Nothing /\ closed
    /\ reader' = "done"
    /\ UNCHANGED <<fixed, todo, counters, result, offer, hand>>

Deliver ==
    /\ hand \notin {Nothing, "empty"}
    /\ hand' = Nothing
    /\ shown' = hand
    /\ lost' = FALSE
    /\ UNCHANGED <<kind, todo, counters, expired, result, offer, closed, reader>>

\* Mutant: the goroutine ends when a Send fails.
OnSendErrorStop == reader' = IF reader = "run" THEN "done" ELSE reader

\* The error of c.Send is not looked at.
OnSendError == UNCHANGED reader

\* Telegram does not answer, or refuses the text; the message may have
\* reached the chat all the same, unless it is empty.
Refuse ==
    /\ hand # Nothing
    /\ hand' = Nothing
    /\ lost' = TRUE
    /\ \/ UNCHANGED shown
       \/ hand # "empty" /\ shown' = hand
    /\ OnSendError
    /\ UNCHANGED <<kind, todo, counters, expired, result, offer, closed>>

Deadline ==
    /\ result = "running" /\ ~expired
    /\ kind \notin Untimed
    /\ Head(todo) # "args"
    /\ expired' = TRUE
    /\ UNCHANGED <<kind, todo, counters, result, offer, closed, reader, hand, chat>>

Next ==
    \/ \E k \in DOMAIN Script : Begin(k)
    \/ Handler \/ Receive \/ EndReader \/ Deliver \/ Refuse \/ Deadline

\* A request is sure to return only once its context has expired.
Calling == Head(todo) \in {"call", "retry", "poll"}

Fairness ==
    /\ WF_vars(Handler /\ (Calling => expired))
    /\ WF_vars(Receive \/ EndReader)
    /\ WF_vars(Deliver \/ Refuse)
    /\ WF_vars(Deadline)

Spec == Init /\ [][Next]_vars /\ Fairness

-----------------------------------------------------------------------------
Messages == {"progress", "failure", "success", "answer"}
Steps == {"args", "call", "check", "log", "report", "success", "lines", "retry", "poll",
          "tell", "end", "fail"}

\* Type invariant.
TypeOK ==
    /\ kind \in DOMAIN Script \cup {Nothing}
    /\ \A i \in DOMAIN todo : todo[i] \in Steps
    /\ tries \in 0..MaxTries /\ lines \in 0..MaxLines /\ polled \in BOOLEAN
    /\ expired \in BOOLEAN
    /\ result \in {"idle", "running", "ok", "error"}
    /\ offer \in Messages \cup {Nothing}
    /\ closed \in BOOLEAN
    /\ reader \in {"none", "run", "done"}
    /\ hand \in Messages \cup {"empty", Nothing}
    /\ shown \in Messages \cup {Nothing}
    /\ lost \in BOOLEAN

\* Commands that end without a word on how: a scale or a restart whose
\* deadline passes while it polls (client.go:139, 342), the errors of the
\* two lists (kube_handlers.go:157-161, 187-191), and a Deployment without
\* revisions (kube_handlers.go:162).
Unannounced ==
    \/ result = "error" /\ kind \in {"scale", "restart"} /\ polled /\ expired
    \/ result = "error" /\ kind \in Quiet
    \/ result = "ok" /\ kind = "revisions" /\ lines = 0

\* The chat is not left with a wrong impression (client.go:113,
\* kube_handlers.go:51-60): success is never announced for work that ended
\* with an error, and when the last Send got through, the last message is
\* the outcome, for every command but the unannounced ones.
LastWord ==
    /\ result = "error" => shown # "success"
    /\ Settled /\ kind # Nothing /\ ~lost /\ ~Unannounced =>
         shown \in IF result = "ok" THEN {"success", "answer"} ELSE {"failure"}

\* However slow or faulty Telegram is, the channel does not hold up a
\* command for good (client.go:113-117): every command whose requests have
\* a deadline returns.
NotHeldUp == (result = "running" /\ kind \notin Untimed) ~> (result # "running")

\* The goroutine that reads the channel ends after its command, on every
\* path (kube_handlers.go:51-60): the defer of close is enough.
ReaderEnds == (result \in {"ok", "error"} /\ reader = "run") ~> (reader # "run")
=============================================================================
