------------------------- MODULE ConfirmationProofs -------------------------
(***************************************************************************)
(* RunsConfirmed and DeadStayDead for every set of users and commands, any *)
(* number of presses and restarts.  Neither is inductive: what carries the *)
(* proof is that a command in the table was asked about by the running     *)
(* process (TableInv).                                                     *)
(***************************************************************************)
EXTENDS Confirmation, TLAPS

\* A goroutine past its Send has its question in the chat, and a command in
\* the table belongs to such a goroutine of this process.
TableInv ==
    /\ \A c \in Cmds : pc[c] \in {"regYes", "regNo", "done"} => c \in shown
    /\ yes # None => pc[yes] \in {"regNo", "done"}

IInv == TypeOK /\ TableInv /\ RunsConfirmed

\* A fresh process has asked nothing, registered nothing and run nothing.
LEMMA InitInv == Init => IInv
BY ConfirmationBounds
   DEF Init, IInv, TypeOK, TableInv, RunsConfirmed, Places, Answers, NoPress

\* A step of a command's goroutine changes no counter.
LEMMA GoroutineInv ==
    ASSUME IInv, NEW c \in Cmds,
           \/ Arrive(c) \/ SendPrompt(c) \/ SendError(c)
           \/ RegisterYes(c) \/ RegisterNo(c)
    PROVE  IInv'
<1> USE NoneAssumption DEF IInv, TypeOK, TableInv, RunsConfirmed, Places, Goto, table
<1>1. CASE Arrive(c)      BY <1>1 DEF Arrive
<1>2. CASE SendPrompt(c)  BY <1>2 DEF SendPrompt
<1>3. CASE SendError(c)   BY <1>3 DEF SendError
<1>4. CASE RegisterYes(c) BY <1>4 DEF RegisterYes
<1>5. CASE RegisterNo(c)  BY <1>5 DEF RegisterNo
<1> QED BY <1>1, <1>2, <1>3, <1>4, <1>5

\* A press of Yes that runs a command was made by its sender with its
\* question on screen, so the press is counted for it.
LEMMA PressYesInv == ASSUME IInv, NEW u \in Users, NEW q \in Cmds, PressYes(u, q) PROVE IInv'
<1> USE DEF IInv
<1>1. \A c \in Cmds : asked'[c] = asked[c] + IF c \in shown /\ Owner[c] = u THEN 1 ELSE 0
  BY DEF PressYes, CountAsked
<1>2. asked' \in [Cmds -> Nat] /\ \A c \in Cmds : asked[c] <= asked'[c]
  BY <1>1 DEF PressYes, CountAsked, TypeOK
<1>3. TableInv'
  BY DEF PressYes, TableInv, table
<1>4. CASE UNCHANGED runs
  <2>1. RunsConfirmed'
    BY <1>2, <1>4 DEF RunsConfirmed, TypeOK
  <2>2. TypeOK'
    BY <1>2, <1>4, ConfirmationBounds DEF PressYes, TypeOK, Answers, table
  <2> QED BY <1>3, <2>1, <2>2
<1>5. CASE /\ yes # None /\ Accepts(u, yes)
           /\ last' = [by |-> u, on |-> q, button |-> "yes", answer |-> "ok", ran |-> yes]
           /\ runs' = [runs EXCEPT ![yes] = @ + 1]
  <2>1. yes \in Cmds /\ yes \in shown /\ Owner[yes] = u
    BY <1>5 DEF TableInv, TypeOK, Accepts
  <2>2. asked'[yes] = asked[yes] + 1
    BY <1>1, <2>1
  <2>3. RunsConfirmed'
    BY <1>2, <1>5, <2>1, <2>2 DEF RunsConfirmed, TypeOK
  <2>4. TypeOK'
    BY <1>2, <1>5, <2>1, ConfirmationBounds DEF PressYes, TypeOK, Answers, table
  <2> QED BY <1>3, <2>3, <2>4
<1> QED BY <1>4, <1>5 DEF PressYes

\* A press of No, accepted or not, runs nothing and registers nothing.
LEMMA PressNoInv == ASSUME IInv, NEW u \in Users, NEW q \in Cmds, PressNo(u, q) PROVE IInv'
<1>1. last' \in [by : Users \cup {None}, on : Cmds \cup {None},
                 button : {"none", "yes", "no"}, answer : Answers,
                 ran : Cmds \cup {None}]
  BY DEF PressNo, Answers
<1> QED BY <1>1, ConfirmationBounds
        DEF PressNo, IInv, TypeOK, TableInv, RunsConfirmed, table

\* A restart empties the table and keeps the counters.
LEMMA RestartInv == ASSUME IInv, Restart PROVE IInv'
BY NoneAssumption DEF Restart, IInv, TypeOK, TableInv, RunsConfirmed, Places

\* Every step of the specification keeps the inductive invariant.
LEMMA NextInv == IInv /\ [Next]_vars => IInv'
<1> SUFFICES ASSUME IInv, [Next]_vars PROVE IInv'
  OBVIOUS
<1>1. CASE UNCHANGED vars
  BY <1>1 DEF vars, IInv, TypeOK, TableInv, RunsConfirmed
<1> QED BY <1>1, GoroutineInv, PressYesInv, PressNoInv, RestartInv DEF Next

\* Every reachable state satisfies the inductive invariant.
THEOREM Invariance == Spec => []IInv
<1> QED BY InitInv, NextInv, PTL DEF Spec

\* Type correctness of the table, the goroutines and the counters.
THEOREM TypeCorrect == Spec => []TypeOK
<1>1. IInv => TypeOK
  BY DEF IInv
<1> QED BY <1>1, Invariance, PTL

\* A command never runs more often than its sender pressed Yes after being
\* asked about it.
THEOREM Confirmed == Spec => []RunsConfirmed
<1>1. IInv => RunsConfirmed
  BY DEF IInv
<1> QED BY <1>1, Invariance, PTL

\* A command whose question failed, or whose process is gone, never runs
\* again.
THEOREM DeadDoNotRun == Spec => DeadStayDead
<1> DEFINE Stays == \A c \in Cmds : pc[c] \in {"failed", "lost"} => runs'[c] = runs[c]
<1>1. IInv /\ [Next]_vars => [Stays]_vars
  <2> SUFFICES ASSUME IInv, Next PROVE Stays
    OBVIOUS
  <2>1. CASE runs' = runs
    BY <2>1
  <2>2. CASE yes # None /\ runs' = [runs EXCEPT ![yes] = @ + 1]
    <3>1. pc[yes] \notin {"failed", "lost"}
      BY <2>2 DEF IInv, TableInv
    <3> QED BY <2>2, <3>1 DEF IInv, TypeOK
  <2>3. runs' = runs \/ (yes # None /\ runs' = [runs EXCEPT ![yes] = @ + 1])
    BY DEF Next, Arrive, SendPrompt, SendError, RegisterYes, RegisterNo,
           PressYes, PressNo, Restart
  <2> QED BY <2>1, <2>2, <2>3
<1> QED BY <1>1, Invariance, PTL DEF Spec, DeadStayDead
=============================================================================
