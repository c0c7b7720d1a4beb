----------------------------- MODULE BotProofs -----------------------------
(***************************************************************************)
(* The composition keeps what its parts promise: it implements             *)
(* Confirmation, so the theorems of ConfirmationProofs hold of it, and     *)
(* together with the flag they give RunsAuthorized.                        *)
(***************************************************************************)
EXTENDS Bot, ConfirmationProofs

\* The goroutine of a command that is asked about in this process was let
\* through by it, and nothing is let through before an account was entered.
PermitInv ==
    /\ \A c \in Cmds : pc[c] \in {"prompt", "regYes", "regNo", "done"} => granted
    /\ auth \/ granted => entered

BotInv == IInv /\ PermitInv

\* A step of the bot is a step of the confirmation dialogue, or none.
LEMMA BotStep == [BotNext]_botVars => [Next]_vars
BY DEF BotNext, LoginStep, Dispatch, Unknown, ConfirmationStep, BotRestart,
       Next, botVars, authVars

\* The bot implements the confirmation dialogue it is built from.
THEOREM BotImplementsConfirmation == BotSpec => Spec
<1>1. BotInit => Init
  BY DEF BotInit
<1> QED BY <1>1, BotStep, PTL DEF BotSpec, Spec

\* A fresh bot has let nothing through.
LEMMA BotInitInv == BotInit => BotInv
BY InitInv DEF BotInit, BotInv, PermitInv, Init, Login!Init

\* Only Dispatch brings a command before its question, and it needs the flag;
\* a restart, which forgets the flag, ends every goroutine.
LEMMA PermitStep == BotInv /\ [BotNext]_botVars => PermitInv'
<1> SUFFICES ASSUME BotInv, [BotNext]_botVars PROVE PermitInv'
  OBVIOUS
<1> USE DEF BotInv, PermitInv
<1>1. CASE UNCHANGED botVars
  BY <1>1 DEF botVars, vars, authVars
<1>2. CASE LoginStep
  BY <1>2 DEF LoginStep, vars, Login!Enter, Login!Decide
<1>3. CASE Unknown
  BY <1>3 DEF Unknown, vars, Login!Grant
<1>4. ASSUME NEW c \in Cmds, Dispatch(c) PROVE PermitInv'
  BY <1>4 DEF Dispatch, Login!Grant
<1>5. CASE ConfirmationStep
  <2>1. UNCHANGED <<auth, entered, granted>>
    BY <1>5 DEF ConfirmationStep, authVars
  <2>2. CASE \E u \in Users, q \in Cmds : PressYes(u, q) \/ PressNo(u, q)
    BY <2>1, <2>2 DEF PressYes, PressNo
  <2>3. ASSUME NEW c \in Cmds,
               SendPrompt(c) \/ SendError(c) \/ RegisterYes(c) \/ RegisterNo(c)
        PROVE  PermitInv'
    BY <2>1, <2>3 DEF SendPrompt, SendError, RegisterYes, RegisterNo, Goto, IInv, TypeOK
  <2> QED BY <1>5, <2>2, <2>3 DEF ConfirmationStep
<1>6. CASE BotRestart
  BY <1>6 DEF BotRestart, Restart, Login!Reset
<1> QED BY <1>1, <1>2, <1>3, <1>4, <1>5, <1>6 DEF BotNext

\* Every reachable state of the bot satisfies the inductive invariant.
THEOREM BotInvariance == BotSpec => []BotInv
<1>1. BotInv /\ [BotNext]_botVars => BotInv'
  BY BotStep, NextInv, PermitStep DEF BotInv
<1> QED BY <1>1, BotInitInv, PTL DEF BotSpec

\* No handler of a command is called in a process to which nobody entered an
\* account, or which let no command through.
THEOREM Authorized == BotSpec => RunsAuthorized
<1>1. BotInv /\ [BotNext]_botVars => [runs' # runs => entered /\ granted]_botVars
  <2> SUFFICES ASSUME BotInv, BotNext, runs' # runs PROVE entered /\ granted
    OBVIOUS
  <2>1. PICK u \in Users, q \in Cmds : PressYes(u, q)
    BY DEF BotNext, LoginStep, Dispatch, Unknown, ConfirmationStep, BotRestart, vars,
           Arrive, SendPrompt, SendError, RegisterYes, RegisterNo, PressNo, Restart
  <2>2. yes \in Cmds /\ pc[yes] \in {"regNo", "done"}
    BY <2>1 DEF PressYes, BotInv, IInv, TypeOK, TableInv
  <2> QED BY <2>2 DEF BotInv, PermitInv
<1> QED BY <1>1, BotInvariance, PTL DEF BotSpec, RunsAuthorized

\* The runs of a command stay covered by its sender's presses of Yes.
THEOREM BotConfirmed == BotSpec => []RunsConfirmed
BY BotImplementsConfirmation, Confirmed, PTL

\* Type correctness of the dialogue inside the bot.
THEOREM BotTypeCorrect == BotSpec => []TypeOK
BY BotImplementsConfirmation, TypeCorrect, PTL

\* A question that failed or was lost in a restart of the bot runs nothing
\* (main.go:40-61).
THEOREM BotDeadDoNotRun == BotSpec => DeadStayDead
BY BotImplementsConfirmation, DeadDoNotRun, PTL
=============================================================================
