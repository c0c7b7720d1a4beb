---------------------------- MODULE Confirmation ----------------------------
(***************************************************************************)
(* The confirmation dialogue of cmd/bot/main.go: withConfirmation answers  *)
(* a command with "Вы уверены?" and two buttons, then registers what the   *)
(* buttons do in the bot's handler table.  The table is one per process    *)
(* and the buttons of every question have the same two names, confirm_yes  *)
(* and confirm_no, so it holds one command per button: that of the last    *)
(* registration.                                                           *)
(*                                                                         *)
(* telebot (external) dispatches updates one after another, binds each to  *)
(* the registered handler at that moment, and runs the handler in its own  *)
(* goroutine.  Nothing ever takes the buttons off a question, so anybody   *)
(* in the chat may press them at any time, any number of times.  The       *)
(* container is restarted when the process dies, with an empty table,      *)
(* while the questions stay in the chat.                                   *)
(***************************************************************************)
EXTENDS Naturals

CONSTANTS
    Users,
    Cmds,       \* command messages that reach withConfirmation
    Owner,      \* who sent a command: a function from Cmds to Users
    None,       \* nothing registered
    MaxPresses, \* bound on the presses of buttons
    MaxBoots    \* bound on the starts of the process

ASSUME OwnerAssumption == Owner \in [Cmds -> Users]
ASSUME NoneAssumption == None \notin Cmds
ASSUME ConfirmationBounds == MaxPresses \in Nat /\ MaxBoots \in Nat

VARIABLES
    pc,        \* where the goroutine of a command is
    shown,     \* the commands whose question is in the chat
    yes,       \* the command the handler of confirm_yes was registered for
    no,        \* the same for confirm_no
    runs,      \* history: how often the handler of a command was called
    asked,     \* history: presses of Yes by a command's sender since its
               \* question was shown
    last,      \* history: the last press and what came of it
    presses,   \* number of presses so far
    boot       \* number of the running process

vars == <<pc, shown, yes, no, runs, asked, last, presses, boot>>

Places == {"new", "prompt", "regYes", "regNo", "done", "failed", "lost"}

NoPress == [by |-> None, on |-> None, button |-> "none", answer |-> "none", ran |-> None]

Init ==
    /\ pc = [c \in Cmds |-> "new"]
    /\ shown = {}
    /\ yes = None
    /\ no = None
    /\ runs = [c \in Cmds |-> 0]
    /\ asked = [c \in Cmds |-> 0]
    /\ last = NoPress
    /\ presses = 0
    /\ boot = 1

table == <<yes, no>>

-----------------------------------------------------------------------------
(***************************************************************************)
(* The goroutine of a command.                                             *)
(***************************************************************************)
Goto(c, l) == pc' = [pc EXCEPT ![c] = l]

\* A command is dispatched to the OnText handler and passes its checks.
Arrive(c) ==
    /\ pc[c] = "new"
    /\ Goto(c, "prompt")
    /\ UNCHANGED <<shown, table, runs, asked, last, presses, boot>>

\* The question is sent.
SendPrompt(c) ==
    /\ pc[c] = "prompt"
    /\ shown' = shown \cup {c}
    /\ Goto(c, "regYes")
    /\ UNCHANGED <<table, runs, asked, last, presses, boot>>

\* Send returns an error, whether or not the question reached the chat, and
\* the handler returns before it registers anything.
SendError(c) ==
    /\ pc[c] = "prompt"
    /\ \/ shown' = shown \cup {c}
       \/ UNCHANGED shown
    /\ Goto(c, "failed")
    /\ UNCHANGED <<table, runs, asked, last, presses, boot>>

\* Mutant: no return after the error of Send.
RegisterYesAfterError(c) ==
    /\ pc[c] \in {"regYes", "failed"}
    /\ yes' = c
    /\ Goto(c, IF pc[c] = "failed" THEN "failed" ELSE "regNo")
    /\ UNCHANGED <<shown, no, runs, asked, last, presses, boot>>

\* Mutant: Yes is registered before the question is sent.
RegisterYesBeforeSend(c) ==
    /\ pc[c] \in {"prompt", "regYes"}
    /\ yes' = c
    /\ Goto(c, IF pc[c] = "prompt" THEN "prompt" ELSE "regNo")
    /\ UNCHANGED <<shown, no, runs, asked, last, presses, boot>>

\* Handle(&yesBtn, ...).
RegisterYes(c) ==
    /\ pc[c] = "regYes"
    /\ yes' = c
    /\ Goto(c, "regNo")
    /\ UNCHANGED <<shown, no, runs, asked, last, presses, boot>>

\* Handle(&noBtn, ...).
RegisterNo(c) ==
    /\ pc[c] = "regNo"
    /\ no' = c
    /\ Goto(c, "done")
    /\ UNCHANGED <<shown, yes, runs, asked, last, presses, boot>>

-----------------------------------------------------------------------------
(***************************************************************************)
(* Presses.                                                                *)
(***************************************************************************)

\* Mutant: nobody compares the sender of the callback.
AcceptsAnyone(u, c) == TRUE

\* The handlers refuse a press by anyone but the sender of the command they
\* were registered for.
Accepts(u, c) == u = Owner[c]

CountAsked(u) ==
    asked' = [c \in Cmds |-> asked[c] + IF c \in shown /\ Owner[c] = u THEN 1 ELSE 0]

\* Somebody presses Yes under the question for command q.
PressYes(u, q) ==
    /\ presses < MaxPresses
    /\ q \in shown
    /\ presses' = presses + 1
    /\ CountAsked(u)
    /\ \/ /\ yes = None
          /\ last' = [by |-> u, on |-> q, button |-> "yes", answer |-> "none", ran |-> None]
          /\ UNCHANGED runs
       \/ /\ yes # None
          /\ ~Accepts(u, yes)
          /\ last' = [by |-> u, on |-> q, button |-> "yes", answer |-> "notYours", ran |-> None]
          /\ UNCHANGED runs
       \/ /\ yes # None
          /\ Accepts(u, yes)
          /\ last' = [by |-> u, on |-> q, button |-> "yes", answer |-> "ok", ran |-> yes]
          /\ runs' = [runs EXCEPT ![yes] = @ + 1]
    /\ UNCHANGED <<pc, shown, table, boot>>

\* Somebody presses No under the question for command q.
PressNo(u, q) ==
    /\ presses < MaxPresses
    /\ q \in shown
    /\ presses' = presses + 1
    /\ last' = [by |-> u, on |-> q, button |-> "no", ran |-> None,
                answer |-> CASE no = None -> "none"
                             [] no # None /\ Accepts(u, no) -> "cancelled"
                             [] OTHER -> "notYours"]
    /\ UNCHANGED <<pc, shown, table, runs, asked, boot>>

-----------------------------------------------------------------------------
\* The process dies, also because a press is looked up while Handle writes
\* the map, and is started again: goroutines and table are gone.
Restart ==
    /\ boot < MaxBoots
    /\ boot' = boot + 1
    /\ yes' = None
    /\ no' = None
    /\ pc' = [c \in Cmds |-> IF pc[c] \in {"prompt", "regYes", "regNo", "done"}
                             THEN "lost" ELSE pc[c]]
    /\ UNCHANGED <<shown, runs, asked, last, presses>>

Next ==
    \/ \E c \in Cmds :
         \/ Arrive(c) \/ SendPrompt(c) \/ SendError(c)
         \/ RegisterYes(c) \/ RegisterNo(c)
    \/ \E u \in Users, q \in Cmds : PressYes(u, q) \/ PressNo(u, q)
    \/ Restart

Spec == Init /\ [][Next]_vars

-----------------------------------------------------------------------------
Answers == {"none", "notYours", "ok", "cancelled"}

\* Type invariant.  The buttons stand for commands whose question is in the
\* chat (main.go:34-52), also while other commands are between their steps.
TypeOK ==
    /\ pc \in [Cmds -> Places]
    /\ shown \subseteq Cmds
    /\ yes \in shown \cup {None}
    /\ no \in shown \cup {None}
    /\ runs \in [Cmds -> Nat]
    /\ asked \in [Cmds -> Nat]
    /\ last \in [by : Users \cup {None}, on : Cmds \cup {None},
                 button : {"none", "yes", "no"}, answer : Answers,
                 ran : Cmds \cup {None}]
    /\ presses \in 0..MaxPresses
    /\ boot \in Nat

\* However registrations and presses interleave (main.go:34-58), a command
\* is run at most as often as the user who sent it pressed Yes after the
\* bot had asked about it: never before the question, never on another
\* user's press.
RunsConfirmed == \A c \in Cmds : runs[c] <= asked[c]

\* Once the process that asked about a command is gone, or the question
\* could not be sent (main.go:40-42), the command does not run any more: its
\* buttons may run other commands, but not this one.
DeadStayDead ==
    [][\A c \in Cmds : pc[c] \in {"failed", "lost"} => runs'[c] = runs[c]]_vars

\* What the question "Вы уверены?" under a command promises (main.go:34):
\* Yes runs that command and no other.
YesRunsItsCommand == last.ran # None => last.ran = last.on
=============================================================================
