-------------------------------- MODULE Bot --------------------------------
(***************************************************************************)
(* The bot as its chat meets it: the OnText handler of cmd/bot/main.go     *)
(* tests the authorization flag and hands a known command to               *)
(* withConfirmation, and a later press of Yes runs the command without     *)
(* looking at the flag again.  The confirmation dialogue is Confirmation;  *)
(* the login dialogues of all users are Authorization, which Session       *)
(* implements.  The two share one process, so a restart is one step of     *)
(* both.                                                                   *)
(***************************************************************************)
EXTENDS Confirmation

VARIABLES auth, entered, granted

authVars == <<auth, entered, granted>>
botVars == <<vars, authVars>>

Login == INSTANCE Authorization

BotInit == Init /\ Login!Init

\* A dialogue of some user goes on or ends.
LoginStep == (Login!Enter \/ Login!Decide) /\ UNCHANGED vars

\* Mutant: the test of the flag is missing.
DispatchUnchecked(c) == Arrive(c) /\ UNCHANGED authVars

\* A command of the table passes the test and is handed on.
Dispatch(c) == Login!Grant /\ Arrive(c)

\* An unknown command passes it too and is answered with a hint.
Unknown == Login!Grant /\ UNCHANGED vars

\* What runs after the test, in the goroutine of a command or of a press.
ConfirmationStep ==
    /\ \/ \E c \in Cmds : \/ SendPrompt(c) \/ SendError(c)
                          \/ RegisterYes(c) \/ RegisterNo(c)
       \/ \E u \in Users, q \in Cmds : PressYes(u, q) \/ PressNo(u, q)
    /\ UNCHANGED authVars

BotRestart == Restart /\ Login!Reset

BotNext ==
    \/ LoginStep \/ Unknown \/ ConfirmationStep \/ BotRestart
    \/ \E c \in Cmds : Dispatch(c)

BotSpec == BotInit /\ [][BotNext]_botVars

-----------------------------------------------------------------------------
\* The flag is tested when a command arrives (main.go:191) and never when
\* Yes is pressed (main.go:44-50).  Still no handler of a command is called
\* in a process that nobody entered an account to, or that has let no
\* command through: not by a question of an earlier process, and not by a
\* command that arrived before the first login.
RunsAuthorized ==
    [][runs' # runs => entered /\ granted]_botVars
=============================================================================
