------------------------------ MODULE Session ------------------------------
(***************************************************************************)
(* The login dialogue of cmd/bot/main.go.  Where a user is in the dialogue *)
(* is kept per user (userState), but the login, the password and the       *)
(* outcome are one variable each for the whole process: userLogin,         *)
(* userPassword and userStatusAuthorization.  telebot runs every handler   *)
(* in a goroutine of its own and nothing is locked, so the handlers of     *)
(* different users, and of several texts one user sends in quick           *)
(* succession, interleave at every access.                                 *)
(***************************************************************************)
EXTENDS Naturals

CONSTANTS
    Users,
    Slots,      \* the texts of one user that may be handled at once
    Logins,     \* texts typed as a login
    Passwords,  \* texts typed as a password
    Accounts,   \* the (login, password) pairs of the users table
    Blank,      \* the empty string: nothing stored yet
    Junk,       \* what a read that races with a write may return
    MaxTexts,   \* bound on the texts sent
    MaxBoots    \* bound on the starts of the process

ASSUME AccountsAssumption == Accounts \subseteq Logins \X Passwords

\* A mixture of two texts, the address of one and the length of the other,
\* is taken to be no login and no password of the table.  The build does not
\* guarantee it: where a typed text begins with the login or the password of
\* an account, a torn read may spell that login or password.
ASSUME JunkAssumption == \A a \in Accounts : {a[1], a[2]} \cap {Blank, Junk} = {}

ASSUME SessionBounds == MaxTexts \in Nat /\ MaxBoots \in Nat

\* A handler is the goroutine of one text of one user.
Handlers == Users \X Slots
Sender(h) == h[1]

VARIABLES
    userState,     \* per user: "none" (absent), "login" or "password"
    userLogin, userPassword,
    auth,          \* userStatusAuthorization
    pc,            \* where a handler is
    text,          \* the text it handles
    argLogin, argPassword, \* arguments of ProofLoginPaswordHandler, once read
    result,        \* what the check returned
    granted,       \* whether this process let a command through
    lastLogin,     \* history: the login the bot last accepted from a user
    loginStored,   \* history: userLogin is that one, and unwritten since
    ownLogin,      \* history: the login that a handler's password goes with
    alone,         \* history: that login was stored when the password came,
                   \* and no other handler wrote a shared variable since
    dbFailed,      \* history: a handler's check met a database error
    typedLogins, typedPasswords, \* history: the texts given to this process
                   \* as logins and as passwords
    texts, boot

vars == <<userState, userLogin, userPassword, auth, pc, text, argLogin, argPassword,
          result, granted, lastLogin, loginStored, ownLogin, alone, dbFailed,
          typedLogins, typedPasswords, texts, boot>>

shared == <<userLogin, userPassword, auth>>
locals == <<text, argLogin, argPassword, result>>
accepted == <<lastLogin, loginStored>>
typed == <<typedLogins, typedPasswords>>
history == <<accepted, ownLogin, alone, dbFailed, typed>>
bounds == <<texts, boot>>

Places == {"idle", "route", "askPassword", "putLogin", "delState", "putPassword",
           "readLogin", "readPassword", "check", "putAuth", "answer"}

InitProcess ==
    /\ userState = [u \in Users |-> "none"]
    /\ userLogin = Blank
    /\ userPassword = Blank
    /\ auth = FALSE
    /\ pc = [h \in Handlers |-> "idle"]
    /\ text = [h \in Handlers |-> Blank]
    /\ argLogin = [h \in Handlers |-> Blank]
    /\ argPassword = [h \in Handlers |-> Blank]
    /\ result = [h \in Handlers |-> FALSE]
    /\ granted = FALSE
    /\ lastLogin = [u \in Users |-> Blank]
    /\ loginStored = [u \in Users |-> FALSE]
    /\ ownLogin = [h \in Handlers |-> Blank]
    /\ alone = [h \in Handlers |-> FALSE]
    /\ dbFailed = [h \in Handlers |-> FALSE]
    /\ typedLogins = {}
    /\ typedPasswords = {}

Init == InitProcess /\ texts = 0 /\ boot = 1

-----------------------------------------------------------------------------
Goto(h, l) == pc' = [pc EXCEPT ![h] = l]

\* The goroutine ends, and its variables with it.
Finish(h) ==
    /\ Goto(h, "idle")
    /\ text' = [text EXCEPT ![h] = Blank]
    /\ argLogin' = [argLogin EXCEPT ![h] = Blank]
    /\ argPassword' = [argPassword EXCEPT ![h] = Blank]
    /\ result' = [result EXCEPT ![h] = FALSE]
    /\ ownLogin' = [ownLogin EXCEPT ![h] = Blank]
    /\ dbFailed' = [dbFailed EXCEPT ![h] = FALSE]

\* h writes a shared variable: no other handler is alone with it any more.
Disturb(h) == alone' = [g \in Handlers |-> alone[g] /\ g = h]

\* /start: the dialogue begins, or begins again.
Start(u) ==
    /\ userState' = [userState EXCEPT ![u] = "login"]
    /\ UNCHANGED <<shared, pc, locals, granted, history, bounds>>

\* Mutant: the flag is not looked at.
MayRunAlways == TRUE

MayRun == auth

\* A command: ignored in the middle of a dialogue, refused without
\* authorization, else handed to withConfirmation.  Both tests are one step:
\* only the moment the flag is read matters to what the command may do.
Command(u) ==
    /\ userState[u] = "none"
    /\ MayRun
    /\ granted' = TRUE
    /\ UNCHANGED <<userState, shared, pc, locals, history, bounds>>

\* A text that is no command is dispatched, in a goroutine of its own: a
\* login or a password, as the user believes the bot to expect.
Text(h) ==
    /\ texts < MaxTexts
    /\ pc[h] = "idle"
    /\ \E t \in Logins \cup Passwords : text' = [text EXCEPT ![h] = t]
    /\ Goto(h, "route")
    /\ texts' = texts + 1
    /\ UNCHANGED <<userState, shared, argLogin, argPassword, result, granted, history, boot>>

\* The switch on userState.  A password goes with the login accepted last,
\* although that one may not be stored yet.
Route(h) ==
    /\ pc[h] = "route"
    /\ \/ /\ userState[Sender(h)] = "login"
          /\ Goto(h, "askPassword")
          /\ UNCHANGED <<locals, history>>
       \/ /\ userState[Sender(h)] = "password"
          /\ Goto(h, "delState")
          /\ ownLogin' = [ownLogin EXCEPT ![h] = lastLogin[Sender(h)]]
          /\ alone' = [alone EXCEPT ![h] = loginStored[Sender(h)]]
          /\ UNCHANGED <<locals, accepted, dbFailed, typed>>
       \/ /\ userState[Sender(h)] = "none"
          /\ Finish(h)
          /\ UNCHANGED <<accepted, alone, typed>>
    /\ UNCHANGED <<userState, shared, granted, bounds>>

\* From here on the bot takes the user's next text for the password.
AskPassword(h) ==
    /\ pc[h] = "askPassword"
    /\ userState' = [userState EXCEPT ![Sender(h)] = "password"]
    /\ Goto(h, "putLogin")
    /\ lastLogin' = [lastLogin EXCEPT ![Sender(h)] = text[h]]
    /\ loginStored' = [loginStored EXCEPT ![Sender(h)] = FALSE]
    /\ UNCHANGED <<shared, locals, granted, ownLogin, alone, dbFailed, typed, bounds>>

\* The login is stored and the bot asks for the password.
PutLogin(h) ==
    /\ pc[h] = "putLogin"
    /\ userLogin' = text[h]
    /\ Finish(h)
    /\ loginStored' = [u \in Users |-> u = Sender(h) /\ lastLogin[u] = text[h]]
    /\ Disturb(h)
    /\ typedLogins' = typedLogins \cup {text[h]}
    /\ UNCHANGED <<userState, userPassword, auth, granted, lastLogin, typedPasswords, bounds>>

\* Mutant: the state of the user is overwritten instead of deleted.
DelStateKept(h) ==
    /\ pc[h] = "delState"
    /\ userState' = [userState EXCEPT ![Sender(h)] = "done"]
    /\ Goto(h, "putPassword")
    /\ UNCHANGED <<shared, locals, granted, history, bounds>>

DelState(h) ==
    /\ pc[h] = "delState"
    /\ userState' = [userState EXCEPT ![Sender(h)] = "none"]
    /\ Goto(h, "putPassword")
    /\ UNCHANGED <<shared, locals, granted, history, bounds>>

\* Mutant: the arguments are read before the password is stored.
PutPasswordLate(h) ==
    /\ pc[h] = "putPassword"
    /\ Goto(h, "readLogin")
    /\ Disturb(h)
    /\ typedPasswords' = typedPasswords \cup {text[h]}
    /\ UNCHANGED <<userState, shared, locals, granted, accepted, ownLogin, dbFailed,
                   typedLogins, bounds>>

\* The password is stored.
PutPassword(h) ==
    /\ pc[h] = "putPassword"
    /\ userPassword' = text[h]
    /\ Goto(h, "readLogin")
    /\ Disturb(h)
    /\ typedPasswords' = typedPasswords \cup {text[h]}
    /\ UNCHANGED <<userState, userLogin, auth, locals, granted, accepted, ownLogin,
                   dbFailed, typedLogins, bounds>>

\* A string is two words: a read that races with a write may see a mixture.
Racing(h, writing) == ~alone[h] \/ \E g \in Handlers \ {h} : pc[g] = writing

ReadLogin(h) ==
    /\ pc[h] = "readLogin"
    /\ Goto(h, "readPassword")
    /\ \/ /\ argLogin' = [argLogin EXCEPT ![h] = userLogin]
          /\ UNCHANGED alone
       \/ /\ Racing(h, "putLogin")
          /\ argLogin' = [argLogin EXCEPT ![h] = Junk]
          /\ alone' = [alone EXCEPT ![h] = FALSE]
    /\ UNCHANGED <<userState, shared, text, argPassword, result, granted,
                   accepted, ownLogin, dbFailed, typed, bounds>>

ReadPassword(h) ==
    /\ pc[h] = "readPassword"
    /\ Goto(h, "check")
    /\ \/ /\ argPassword' = [argPassword EXCEPT ![h] = userPassword]
          /\ UNCHANGED alone
       \/ /\ Racing(h, "putPassword")
          /\ argPassword' = [argPassword EXCEPT ![h] = Junk]
          /\ alone' = [alone EXCEPT ![h] = FALSE]
    /\ UNCHANGED <<userState, shared, text, argLogin, result, granted,
                   accepted, ownLogin, dbFailed, typed, bounds>>

\* Mutant: the query has no condition on the password.
AuthenticateByLogin(h, failed) == ~failed /\ \E p \in Passwords : <<argLogin[h], p>> \in Accounts

\* AuthenticateUser finds a row; an error of the database counts as none.
Authenticate(h, failed) == ~failed /\ <<argLogin[h], argPassword[h]>> \in Accounts

Check(h) ==
    /\ pc[h] = "check"
    /\ Goto(h, "putAuth")
    /\ \E failed \in BOOLEAN :
         /\ result' = [result EXCEPT ![h] = Authenticate(h, failed)]
         /\ dbFailed' = [dbFailed EXCEPT ![h] = failed]
    /\ UNCHANGED <<userState, shared, text, argLogin, argPassword, granted,
                   accepted, ownLogin, alone, typed, bounds>>

\* The flag is set or cleared, for everybody.
PutAuth(h) ==
    /\ pc[h] = "putAuth"
    /\ auth' = result[h]
    /\ Goto(h, "answer")
    /\ Disturb(h)
    /\ UNCHANGED <<userState, userLogin, userPassword, locals, granted,
                   accepted, ownLogin, dbFailed, typed, bounds>>

\* The answer says what the flag, read again, holds at that moment.
Answer(h) ==
    /\ pc[h] = "answer"
    /\ Finish(h)
    /\ alone' = [alone EXCEPT ![h] = FALSE]
    /\ UNCHANGED <<userState, shared, granted, accepted, typed, bounds>>

\* The process dies, also because two handlers write the map userState at
\* once, and starts again from nothing.
Restart ==
    /\ boot < MaxBoots
    /\ boot' = boot + 1
    /\ userState' = [u \in Users |-> "none"]
    /\ userLogin' = Blank
    /\ userPassword' = Blank
    /\ auth' = FALSE
    /\ pc' = [h \in Handlers |-> "idle"]
    /\ text' = [h \in Handlers |-> Blank]
    /\ argLogin' = [h \in Handlers |-> Blank]
    /\ argPassword' = [h \in Handlers |-> Blank]
    /\ result' = [h \in Handlers |-> FALSE]
    /\ granted' = FALSE
    /\ lastLogin' = [u \in Users |-> Blank]
    /\ loginStored' = [u \in Users |-> FALSE]
    /\ ownLogin' = [h \in Handlers |-> Blank]
    /\ alone' = [h \in Handlers |-> FALSE]
    /\ dbFailed' = [h \in Handlers |-> FALSE]
    /\ typedLogins' = {}
    /\ typedPasswords' = {}
    /\ UNCHANGED texts

Handler(h) ==
    \/ Route(h) \/ AskPassword(h) \/ PutLogin(h) \/ DelState(h) \/ PutPassword(h)
    \/ ReadLogin(h) \/ ReadPassword(h) \/ Check(h) \/ PutAuth(h) \/ Answer(h)

Next ==
    \/ \E u \in Users : Start(u) \/ Command(u)
    \/ \E h \in Handlers : Text(h) \/ Handler(h)
    \/ Restart

Spec == Init /\ [][Next]_vars

-----------------------------------------------------------------------------
Strings == Logins \cup Passwords \cup {Blank, Junk}

\* Type invariant.
TypeOK ==
    /\ userState \in [Users -> {"none", "login", "password"}]
    /\ userLogin \in Strings /\ userPassword \in Strings
    /\ auth \in BOOLEAN
    /\ pc \in [Handlers -> Places]
    /\ text \in [Handlers -> Strings]
    /\ argLogin \in [Handlers -> Strings] /\ argPassword \in [Handlers -> Strings]
    /\ result \in [Handlers -> BOOLEAN]
    /\ granted \in BOOLEAN
    /\ lastLogin \in [Users -> Strings] /\ ownLogin \in [Handlers -> Strings]
    /\ loginStored \in [Users -> BOOLEAN] /\ alone \in [Handlers -> BOOLEAN]
    /\ dbFailed \in [Handlers -> BOOLEAN]
    /\ typedLogins \subseteq Strings /\ typedPasswords \subseteq Strings
    /\ texts \in Nat /\ boot \in Nat

\* Some pair of the users table was typed, login and password, to this
\* process (not necessarily by one user).
Witness == \E l \in typedLogins, p \in typedPasswords : <<l, p>> \in Accounts

Abstract == INSTANCE Authorization WITH entered <- Witness

\* The dialogues of all users together are one flag (main.go:191, 203-210):
\* set only by a verdict that follows an account entered to this process,
\* read by every command, gone with the process.
ImplementsAuthorization == Abstract!Spec

\* However the handlers of all users race for the shared variables
\* (main.go:203-210), the flag is set, and a command is let through
\* (main.go:191), only after an existing login and its password were both
\* entered since the process started.
AuthWitnessed == auth \/ granted => Witness

\* A user is told the truth about the pair they typed (main.go:211-215)
\* unless the login was not yet stored when the password was taken
\* (main.go:204-208), another handler, of any user or of another text of
\* their own, wrote a shared variable from then to the answer, or the
\* database failed.
VerdictUndisturbed ==
    \A h \in Handlers :
      pc[h] = "answer" /\ alone[h] =>
        (auth <=> ~dbFailed[h] /\ <<ownLogin[h], text[h]>> \in Accounts)

\* What "Неверный логин или пароль." and "Авторизация успешна!" say
\* (main.go:212-214): the pair this user typed is or is not an account.
VerdictIsOwn ==
    \A h \in Handlers :
      pc[h] = "answer" /\ ~dbFailed[h] =>
        (auth <=> <<ownLogin[h], text[h]>> \in Accounts)
=============================================================================
