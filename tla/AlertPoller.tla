---------------------------- MODULE AlertPoller ----------------------------
(***************************************************************************)
(* The alert poller (internal/app/poller_alert.go) and the goroutine that  *)
(* starts it and stops it on a signal (startPoller in cmd/bot/main.go).    *)
(* Two goroutines share the poller's context, its WaitGroup and, through   *)
(* the runtime, a ticker and a signal channel with one slot each.  The     *)
(* main goroutine serves the bot all the while and takes no part.          *)
(***************************************************************************)
EXTENDS Naturals

CONSTANT MaxSignals  \* bound on the signals the process is sent

ASSUME SignalsAssumption == MaxSignals \in Nat

VARIABLES
    up,       \* whether the process runs
    spc,      \* where startPoller is
    ppc,      \* where the poller's goroutine is
    wg,       \* the counter of the WaitGroup
    done,     \* whether the poller's context is cancelled
    tick,     \* whether ticker.C holds a tick
    sig,      \* whether sigChan holds a signal
    outcome,  \* how the last check ended
    sent,     \* number of signals sent
    caught    \* history: some signal came after signal.Notify

vars == <<up, spc, ppc, wg, done, tick, sig, outcome, sent, caught>>

Init ==
    /\ up = TRUE
    /\ spc = "start"
    /\ ppc = "none"
    /\ wg = 0
    /\ done = FALSE
    /\ tick = FALSE
    /\ sig = FALSE
    /\ outcome = "none"
    /\ sent = 0
    /\ caught = FALSE

-----------------------------------------------------------------------------
(***************************************************************************)
(* startPoller.                                                            *)
(***************************************************************************)

\* NewClient fails and the goroutine ends without a poller, or succeeds and
\* the poller's structure is made.
MakeClient ==
    /\ up /\ spc = "start"
    /\ spc' \in {"made", "gone"}
    /\ UNCHANGED <<up, ppc, wg, done, tick, sig, outcome, sent, caught>>

\* signal.Notify: from here on signals go to sigChan.
Notify ==
    /\ up /\ spc = "made"
    /\ spc' = "notified"
    /\ UNCHANGED <<up, ppc, wg, done, tick, sig, outcome, sent, caught>>

\* Mutant: wg.Add is missing.
StartWithoutAdd ==
    /\ up /\ spc = "notified"
    /\ spc' = "waiting"
    /\ ppc' = "spawned"
    /\ UNCHANGED <<up, wg, done, tick, sig, outcome, sent, caught>>

\* poller.Start().
Start ==
    /\ up /\ spc = "notified"
    /\ wg' = wg + 1
    /\ ppc' = "spawned"
    /\ spc' = "waiting"
    /\ UNCHANGED <<up, done, tick, sig, outcome, sent, caught>>

\* <-sigChan
AwaitSignal ==
    /\ up /\ spc = "waiting"
    /\ sig
    /\ sig' = FALSE
    /\ spc' = "stopping"
    /\ UNCHANGED <<up, ppc, wg, done, tick, outcome, sent, caught>>

\* Stop cancels the context ...
Cancel ==
    /\ up /\ spc = "stopping"
    /\ done' = TRUE
    /\ spc' = "cancelled"
    /\ UNCHANGED <<up, ppc, wg, tick, sig, outcome, sent, caught>>

\* ... and waits for the poller's goroutine.
StopReturns ==
    /\ up /\ spc = "cancelled"
    /\ wg = 0
    /\ spc' = "returned"
    /\ UNCHANGED <<up, ppc, wg, done, tick, sig, outcome, sent, caught>>

-----------------------------------------------------------------------------
(***************************************************************************)
(* The poller's goroutine.                                                 *)
(***************************************************************************)

\* The goroutine makes its ticker and starts the first check.
FirstCheck ==
    /\ up /\ ppc = "spawned"
    /\ ppc' = "check"
    /\ UNCHANGED <<up, spc, wg, done, tick, sig, outcome, sent, caught>>

\* checkAlerts gets an answer in time and logs the alerts, also when the
\* context is cancelled after the answer came.
CheckOk ==
    /\ up /\ ppc = "check"
    /\ outcome' = "alerts"
    /\ ppc' = "select"
    /\ UNCHANGED <<up, spc, wg, done, tick, sig, sent, caught>>

\* Mutant: the HTTP client has no timeout, only the context ends a request.
CheckFailsOnlyCancelled ==
    /\ up /\ ppc = "check"
    /\ done
    /\ outcome' = "error"
    /\ ppc' = "select"
    /\ UNCHANGED <<up, spc, wg, done, tick, sig, sent, caught>>

\* checkAlerts returns an error: a bad answer, the client's timeout of ten
\* seconds, or the cancelled context.
CheckFails ==
    /\ up /\ ppc = "check"
    /\ outcome' = "error"
    /\ ppc' = "select"
    /\ UNCHANGED <<up, spc, wg, done, tick, sig, sent, caught>>

\* select takes the tick, also when the context is cancelled as well.
SelectTick ==
    /\ up /\ ppc = "select"
    /\ tick
    /\ tick' = FALSE
    /\ ppc' = "check"
    /\ UNCHANGED <<up, spc, wg, done, sig, outcome, sent, caught>>

\* select takes ctx.Done(): the goroutine ends, the deferred calls stop the
\* ticker and release the WaitGroup.
SelectDone ==
    /\ up /\ ppc = "select"
    /\ done
    /\ tick' = FALSE
    /\ wg' = wg - 1
    /\ ppc' = "stopped"
    /\ UNCHANGED <<up, spc, done, sig, outcome, sent, caught>>

\* The ticker fires; a tick nobody has taken yet is dropped.
Tick ==
    /\ up /\ ppc \in {"check", "select"}
    /\ ~tick
    /\ tick' = TRUE
    /\ UNCHANGED <<up, spc, ppc, wg, done, sig, outcome, sent, caught>>

-----------------------------------------------------------------------------
Notified == spc \notin {"start", "made", "gone"}

\* Mutant: sigChan has no slot, so a signal is dropped unless it is awaited.
DeliverUnbuffered == sig' = (spc = "waiting")

\* The runtime puts the signal into sigChan if the slot is free.
Deliver == sig' = TRUE

\* SIGINT or SIGTERM: before Notify it ends the process.
Signal ==
    /\ up
    /\ sent < MaxSignals
    /\ sent' = sent + 1
    /\ \/ /\ Notified
          /\ Deliver
          /\ caught' = TRUE
          /\ UNCHANGED up
       \/ /\ ~Notified
          /\ up' = FALSE
          /\ UNCHANGED <<sig, caught>>
    /\ UNCHANGED <<spc, ppc, wg, done, tick, outcome>>

Starter == MakeClient \/ Notify \/ Start \/ AwaitSignal \/ Cancel \/ StopReturns

Poller == FirstCheck \/ CheckOk \/ CheckFails \/ SelectTick \/ SelectDone

Next == Starter \/ Poller \/ Tick \/ Signal

(***************************************************************************)
(* Goroutines run; a request ends by the client's timeout if not before;   *)
(* the ticker ticks; a select that finds several cases ready chooses among *)
(* them at random, so it does not refuse ctx.Done() for ever.              *)
(***************************************************************************)
Fairness ==
    /\ WF_vars(Starter)
    /\ WF_vars(FirstCheck) /\ WF_vars(CheckFails)
    /\ WF_vars(SelectTick) /\ SF_vars(SelectDone)
    /\ WF_vars(Tick)

Spec == Init /\ [][Next]_vars /\ Fairness

-----------------------------------------------------------------------------
\* Type invariant.  The WaitGroup's counter is never negative, which would
\* panic.
TypeOK ==
    /\ up \in BOOLEAN
    /\ spc \in {"start", "made", "notified", "waiting", "stopping", "cancelled",
                "returned", "gone"}
    /\ ppc \in {"none", "spawned", "check", "select", "stopped"}
    /\ wg \in 0..1
    /\ done \in BOOLEAN
    /\ tick \in BOOLEAN
    /\ sig \in BOOLEAN
    /\ outcome \in {"none", "alerts", "error"}
    /\ sent \in 0..MaxSignals
    /\ caught \in BOOLEAN

\* When Stop has returned (poller_alert.go:58-61) the poller's goroutine has
\* ended: no check is running and none will start, even if the signal came
\* before the goroutine first ran.
QuietAfterStop == spc = "returned" => ppc = "stopped"

\* A signal that arrives at any moment after Notify (main.go:80), also
\* before the goroutine waits for it, stops the poller: Stop returns, though
\* select may prefer ticks for a while and a request may be under way.
SignalStopsPoller == caught ~> spc = "returned"

\* Until it is told to stop, the poller goes on checking, whether or not
\* Alertmanager answers (poller_alert.go:44-54, monitoring/client.go:73).
KeepsChecking ==
    /\ ppc = "check" ~> (ppc = "select" \/ ~up)
    /\ ppc = "select" ~> (ppc = "check" \/ done \/ ~up)
=============================================================================
