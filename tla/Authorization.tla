--------------------------- MODULE Authorization ---------------------------
(***************************************************************************)
(* What the login dialogue of cmd/bot/main.go promises, whoever types what *)
(* and however the handlers interleave: the flag is set only after an      *)
(* account was entered to this process, and commands are let through only  *)
(* while the flag is set.  Session implements this specification, and Bot  *)
(* uses it in place of Session.                                            *)
(***************************************************************************)
VARIABLES
    auth,     \* userStatusAuthorization
    entered,  \* a login of the users table and its password were entered
    granted   \* a command was let through

vars == <<auth, entered, granted>>

Init == auth = FALSE /\ entered = FALSE /\ granted = FALSE

\* The second half of an account is entered.
Enter == entered' = TRUE /\ UNCHANGED <<auth, granted>>

\* Some dialogue ends with a verdict, which holds for everybody.  A dialogue
\* may fail although an account was entered: through another user's login,
\* or an error of the database.
Decide ==
    /\ auth' \in BOOLEAN
    /\ auth' => entered
    /\ UNCHANGED <<entered, granted>>

\* A command passes the test of the flag.
Grant == auth /\ granted' = TRUE /\ UNCHANGED <<auth, entered>>

\* The process starts again: nothing of this is stored.
Reset == auth' = FALSE /\ entered' = FALSE /\ granted' = FALSE

Next == Enter \/ Decide \/ Grant \/ Reset

Spec == Init /\ [][Next]_vars
=============================================================================
