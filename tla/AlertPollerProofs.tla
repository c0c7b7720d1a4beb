------------------------- MODULE AlertPollerProofs -------------------------
(***************************************************************************)
(* Stop is a barrier, for any number of signals: the WaitGroup counts      *)
(* exactly the poller's goroutine while it lives.                          *)
(***************************************************************************)
EXTENDS AlertPoller, TLAPS

Alive == ppc \in {"spawned", "check", "select"}

\* The counter follows the goroutine, and whoever waits has started it.
BarrierInv ==
    /\ ppc \in {"none", "spawned", "check", "select", "stopped"}
    /\ wg = IF Alive THEN 1 ELSE 0
    /\ spc \in {"waiting", "stopping", "cancelled", "returned"} => ppc # "none"
    /\ spc \in {"start", "made", "notified"} => ppc = "none"
    /\ spc = "returned" => ppc = "stopped"

\* Before the poller is started, nothing is counted and nothing runs.
LEMMA InitInv == Init => BarrierInv
BY DEF Init, BarrierInv, Alive

\* The goroutine startPoller keeps the invariant.
LEMMA StarterInv == ASSUME BarrierInv, Starter PROVE BarrierInv'
<1> USE DEF BarrierInv, Alive
<1>1. CASE MakeClient  BY <1>1 DEF MakeClient
<1>2. CASE Notify      BY <1>2 DEF Notify
<1>3. CASE Start       BY <1>3 DEF Start
<1>4. CASE AwaitSignal BY <1>4 DEF AwaitSignal
<1>5. CASE Cancel      BY <1>5 DEF Cancel
<1>6. CASE StopReturns BY <1>6 DEF StopReturns
<1> QED BY <1>1, <1>2, <1>3, <1>4, <1>5, <1>6 DEF Starter

\* The poller's goroutine keeps the invariant.
LEMMA PollerInv == ASSUME BarrierInv, Poller PROVE BarrierInv'
<1> USE DEF BarrierInv, Alive
<1>1. CASE FirstCheck BY <1>1 DEF FirstCheck
<1>2. CASE CheckOk    BY <1>2 DEF CheckOk
<1>3. CASE CheckFails BY <1>3 DEF CheckFails
<1>4. CASE SelectTick BY <1>4 DEF SelectTick
<1>5. CASE SelectDone BY <1>5 DEF SelectDone
<1> QED BY <1>1, <1>2, <1>3, <1>4, <1>5 DEF Poller

\* Every step keeps the invariant; ticks and signals touch none of it.
LEMMA NextInv == BarrierInv /\ [Next]_vars => BarrierInv'
<1> SUFFICES ASSUME BarrierInv, [Next]_vars PROVE BarrierInv'
  OBVIOUS
<1>1. CASE Tick
  BY <1>1 DEF Tick, BarrierInv, Alive
<1>2. CASE Signal
  BY <1>2 DEF Signal, Deliver, BarrierInv, Alive
<1>3. CASE UNCHANGED vars
  BY <1>3 DEF vars, BarrierInv, Alive
<1> QED BY <1>1, <1>2, <1>3, StarterInv, PollerInv DEF Next

\* When Stop has returned, the goroutine it stops has ended.
THEOREM StopIsBarrier == Spec => []QuietAfterStop
<1>1. Spec => []BarrierInv
  BY InitInv, NextInv, PTL DEF Spec
<1>2. BarrierInv => QuietAfterStop
  BY DEF BarrierInv, QuietAfterStop
<1> QED BY <1>1, <1>2, PTL

\* Everything but the two counters.
Flags ==
    /\ up \in BOOLEAN /\ done \in BOOLEAN /\ tick \in BOOLEAN /\ sig \in BOOLEAN
    /\ caught \in BOOLEAN
    /\ spc \in {"start", "made", "notified", "waiting", "stopping", "cancelled",
                "returned", "gone"}
    /\ ppc \in {"none", "spawned", "check", "select", "stopped"}
    /\ outcome \in {"none", "alerts", "error"}

\* Flags and places take only their values.
LEMMA FlagsInv == Flags /\ [Next]_vars => Flags'
<1> SUFFICES ASSUME Flags, [Next]_vars PROVE Flags'
  OBVIOUS
<1> USE DEF Flags
<1>1. CASE MakeClient   BY <1>1, Zenon DEF MakeClient
<1>2. CASE Notify       BY <1>2, Zenon DEF Notify
<1>3. CASE Start        BY <1>3, Zenon DEF Start
<1>4. CASE AwaitSignal  BY <1>4, Zenon DEF AwaitSignal
<1>5. CASE Cancel       BY <1>5, Zenon DEF Cancel
<1>6. CASE StopReturns  BY <1>6, Zenon DEF StopReturns
<1>7. CASE FirstCheck   BY <1>7, Zenon DEF FirstCheck
<1>8. CASE CheckOk      BY <1>8, Zenon DEF CheckOk
<1>9. CASE CheckFails   BY <1>9, Zenon DEF CheckFails
<1>10. CASE SelectTick  BY <1>10, Zenon DEF SelectTick
<1>11. CASE SelectDone  BY <1>11, Zenon DEF SelectDone
<1>12. CASE Tick        BY <1>12, Zenon DEF Tick
<1>13. CASE Signal      BY <1>13, Zenon DEF Signal, Deliver
<1>14. CASE UNCHANGED vars BY <1>14, Zenon DEF vars
<1> QED BY <1>1, <1>2, <1>3, <1>4, <1>5, <1>6, <1>7, <1>8, <1>9, <1>10, <1>11, <1>12,
           <1>13, <1>14 DEF Next, Starter, Poller

SentOK == sent \in 0..MaxSignals

\* Only Signal counts signals, up to its bound.
LEMMA SentInv == SentOK /\ [Next]_vars => SentOK'
<1> SUFFICES ASSUME SentOK, [Next]_vars PROVE SentOK'
  OBVIOUS
<1> USE DEF SentOK
<1>1. CASE Signal
  BY <1>1, SignalsAssumption DEF Signal
<1>2. CASE ~Signal
  <2>1. sent' = sent
    BY <1>2 DEF Next, Starter, Poller, MakeClient, Notify, Start, AwaitSignal, Cancel,
                StopReturns, FirstCheck, CheckOk, CheckFails, SelectTick, SelectDone, Tick,
                vars
  <2> QED BY <2>1
<1> QED BY <1>1, <1>2

\* The WaitGroup never goes below zero nor above one, which would panic or
\* let Stop return early, and every flag and place has one of its values.
THEOREM TypeCorrect == Spec => []TypeOK
<1>1. Init => Flags /\ SentOK
  <2>1. Init => Flags
    BY Zenon DEF Init, Flags
  <2>2. Init => SentOK
    BY SignalsAssumption DEF Init, SentOK
  <2> QED BY <2>1, <2>2
<1>2. Flags /\ SentOK /\ BarrierInv => TypeOK
  <2>1. BarrierInv => wg \in 0..1
    BY DEF BarrierInv
  <2> QED BY <2>1, Zenon DEF Flags, SentOK, TypeOK
<1> QED BY <1>1, <1>2, FlagsInv, SentInv, InitInv, NextInv, PTL DEF Spec
=============================================================================
