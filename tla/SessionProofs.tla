--------------------------- MODULE SessionProofs ---------------------------
(***************************************************************************)
(* AuthWitnessed and VerdictUndisturbed for every set of users, texts and  *)
(* accounts.  TracedInv says where the strings in the shared variables and *)
(* in the arguments can come from; StoredInv and OwnInv say that a handler *)
(* that is alone finds its own strings at every place.                     *)
(***************************************************************************)
EXTENDS Session, TLAPS

\* Whatever was read, raced or not, was typed or cannot match an account.
TracedInv ==
    /\ userLogin \in typedLogins \cup {Blank}
    /\ userPassword \in typedPasswords \cup {Blank}
    /\ \A h \in Handlers :
         /\ argLogin[h] \in typedLogins \cup {Blank, Junk}
         /\ argPassword[h] \in typedPasswords \cup {Blank, Junk}
         /\ result[h] => Witness

AfterPassword == {"readLogin", "readPassword", "check", "putAuth", "answer"}

\* A stored login is in userLogin until somebody writes there.
StoredInv == \A u \in Users : loginStored[u] => userLogin = lastLogin[u]

\* The strings and the outcome of a handler that is alone are its own.
Own(h) ==
    alone[h] =>
      /\ pc[h] \in AfterPassword \cup {"delState", "putPassword"}
      /\ userLogin = ownLogin[h]
      /\ pc[h] \in AfterPassword => userPassword = text[h]
      /\ pc[h] = "readPassword" => argLogin[h] = ownLogin[h]
      /\ pc[h] = "check" => argLogin[h] = ownLogin[h] /\ argPassword[h] = text[h]
      /\ pc[h] \in {"putAuth", "answer"} =>
           (result[h] <=> ~dbFailed[h] /\ <<ownLogin[h], text[h]>> \in Accounts)
      /\ pc[h] = "answer" => (auth <=> result[h])

OwnInv == \A h \in Handlers : Own(h)

IInv == TypeOK /\ TracedInv /\ AuthWitnessed /\ StoredInv /\ OwnInv

\* The witness stays: what was typed is not forgotten while the process runs.
LEMMA WitnessGrows ==
    ASSUME typedLogins \subseteq typedLogins', typedPasswords \subseteq typedPasswords',
           Witness
    PROVE  Witness'
BY DEF Witness

\* A pair the database accepts was typed as a login and as a password.
LEMMA AcceptedWasTyped ==
    ASSUME IInv, NEW h \in Handlers, <<argLogin[h], argPassword[h]>> \in Accounts
    PROVE  Witness
<1>1. argLogin[h] \notin {Blank, Junk} /\ argPassword[h] \notin {Blank, Junk}
  BY JunkAssumption
<1>2. argLogin[h] \in typedLogins /\ argPassword[h] \in typedPasswords
  BY <1>1 DEF IInv, TracedInv
<1> QED BY <1>2 DEF Witness

\* A handler works for a user.
LEMMA SenderType == ASSUME NEW h \in Handlers PROVE Sender(h) \in Users
BY DEF Handlers, Sender

\* A fresh process has no login, no password and nobody authorized.
LEMMA InitInv == Init => IInv
<1> SUFFICES ASSUME Init PROVE IInv
  OBVIOUS
<1> USE DEF Init, InitProcess
<1>1. TypeOK
  BY DEF TypeOK, Strings, Places
<1>2. TracedInv /\ AuthWitnessed
  BY DEF TracedInv, AuthWitnessed
<1>3. StoredInv /\ OwnInv
  BY DEF StoredInv, OwnInv, Own
<1> QED BY <1>1, <1>2, <1>3 DEF IInv

\* /start touches only the sender's place in the dialogue.
LEMMA StartInv == ASSUME IInv, NEW u \in Users, Start(u) PROVE IInv'
<1> USE DEF Start, Goto, shared, locals, accepted, typed, history, bounds
<1>1. TypeOK'
  BY DEF IInv, TypeOK, Places, Strings
<1>2. TracedInv'
  BY DEF IInv, TypeOK, TracedInv, Witness
<1>3. AuthWitnessed'
  BY DEF IInv, TypeOK, TracedInv, AuthWitnessed, Witness
<1>4. StoredInv'
  BY DEF IInv, TypeOK, StoredInv
<1>5. OwnInv'
  BY DEF IInv, TypeOK, OwnInv, Own, AfterPassword, Places
<1> QED BY <1>1, <1>2, <1>3, <1>4, <1>5 DEF IInv

\* A command is let through only while the flag is set.
LEMMA CommandInv == ASSUME IInv, NEW u \in Users, Command(u) PROVE IInv'
<1> USE DEF Command, Goto, shared, locals, accepted, typed, history, bounds, MayRun
<1>1. TypeOK'
  BY DEF IInv, TypeOK, Places, Strings
<1>2. TracedInv'
  BY DEF IInv, TypeOK, TracedInv, Witness
<1>3. AuthWitnessed'
  BY DEF IInv, TypeOK, TracedInv, AuthWitnessed, Witness
<1>4. StoredInv'
  BY DEF IInv, TypeOK, StoredInv
<1>5. OwnInv'
  BY DEF IInv, TypeOK, OwnInv, Own, AfterPassword, Places
<1> QED BY <1>1, <1>2, <1>3, <1>4, <1>5 DEF IInv

\* A text is dispatched.
LEMMA TextInv == ASSUME IInv, NEW h \in Handlers, Text(h) PROVE IInv'
<1> USE DEF Text, Goto, shared, locals, accepted, typed, history, bounds
<1>1. TypeOK'
  BY SenderType DEF IInv, TypeOK, Places, Strings
<1>2. TracedInv'
  BY DEF IInv, TypeOK, TracedInv, Witness
<1>3. AuthWitnessed'
  BY DEF IInv, TypeOK, TracedInv, AuthWitnessed, Witness
<1>4. StoredInv'
  BY SenderType DEF IInv, TypeOK, StoredInv
<1>5. OwnInv'
  BY DEF IInv, TypeOK, OwnInv, Own, AfterPassword, Places
<1> QED BY <1>1, <1>2, <1>3, <1>4, <1>5 DEF IInv

\* The switch: a password is alone with its login if that one is stored.
LEMMA RouteInv == ASSUME IInv, NEW h \in Handlers, Route(h) PROVE IInv'
<1> USE DEF Route, Goto, shared, locals, accepted, typed, history, bounds, Finish
<1>1. TypeOK'
  BY SenderType DEF IInv, TypeOK, Places, Strings
<1>2. TracedInv'
  BY DEF IInv, TypeOK, TracedInv, Witness
<1>3. AuthWitnessed'
  BY DEF IInv, TypeOK, TracedInv, AuthWitnessed, Witness
<1>4. StoredInv'
  BY SenderType DEF IInv, TypeOK, StoredInv
<1>5. OwnInv'
  <2>1. CASE userState[Sender(h)] = "password"
    <3>1. alone'[h] => userLogin' = ownLogin'[h]
      BY <2>1, SenderType DEF IInv, TypeOK, StoredInv
    <3>2. pc' = [pc EXCEPT ![h] = "delState"] /\ pc'[h] = "delState"
      BY <2>1 DEF IInv, TypeOK
    <3>3. ASSUME NEW g \in Handlers, g # h
          PROVE  /\ alone'[g] = alone[g] /\ ownLogin'[g] = ownLogin[g]
                 /\ pc'[g] = pc[g]
      BY <2>1, <3>3 DEF IInv, TypeOK
    <3>4. UNCHANGED <<userLogin, userPassword, auth, locals, dbFailed>>
      BY <2>1
    <3> QED BY <3>1, <3>2, <3>3, <3>4 DEF IInv, OwnInv, Own, AfterPassword
  <2>2. CASE userState[Sender(h)] # "password"
    <3>1. ~alone[h] /\ UNCHANGED <<userLogin, userPassword, auth, alone>>
      BY <2>2 DEF IInv, OwnInv, Own, AfterPassword
    <3>2. ASSUME NEW g \in Handlers, g # h
          PROVE  /\ pc'[g] = pc[g] /\ text'[g] = text[g] /\ result'[g] = result[g]
                 /\ argLogin'[g] = argLogin[g] /\ argPassword'[g] = argPassword[g]
                 /\ ownLogin'[g] = ownLogin[g] /\ dbFailed'[g] = dbFailed[g]
      BY <2>2, <3>2 DEF IInv, TypeOK
    <3> QED BY <3>1, <3>2 DEF IInv, OwnInv, Own, AfterPassword
  <2> QED BY <2>1, <2>2
<1> QED BY <1>1, <1>2, <1>3, <1>4, <1>5 DEF IInv

\* The dialogue moves on to the password.
LEMMA AskPasswordInv == ASSUME IInv, NEW h \in Handlers, AskPassword(h) PROVE IInv'
<1> USE DEF AskPassword, Goto, shared, locals, accepted, typed, history, bounds
<1>1. TypeOK'
  BY SenderType DEF IInv, TypeOK, Places, Strings
<1>2. TracedInv'
  BY DEF IInv, TypeOK, TracedInv, Witness
<1>3. AuthWitnessed'
  BY DEF IInv, TypeOK, TracedInv, AuthWitnessed, Witness
<1>4. StoredInv'
  BY SenderType DEF IInv, TypeOK, StoredInv
<1>5. OwnInv'
  BY DEF IInv, TypeOK, OwnInv, Own, AfterPassword, Places
<1> QED BY <1>1, <1>2, <1>3, <1>4, <1>5 DEF IInv

\* The login is stored: no password handler is alone any more.
LEMMA PutLoginInv == ASSUME IInv, NEW h \in Handlers, PutLogin(h) PROVE IInv'
<1> USE DEF PutLogin, Goto, shared, locals, accepted, typed, history, bounds, Finish, Disturb
<1>1. TypeOK'
  BY SenderType DEF IInv, TypeOK, Places, Strings
<1>2. TracedInv'
  BY WitnessGrows DEF IInv, TypeOK, TracedInv, Witness
<1>3. AuthWitnessed'
  BY WitnessGrows DEF IInv, TypeOK, TracedInv, AuthWitnessed, Witness
<1>4. StoredInv'
  BY SenderType DEF IInv, TypeOK, StoredInv
<1>5. OwnInv'
  BY DEF IInv, TypeOK, OwnInv, Own, AfterPassword, Places
<1> QED BY <1>1, <1>2, <1>3, <1>4, <1>5 DEF IInv

\* The dialogue is over.
LEMMA DelStateInv == ASSUME IInv, NEW h \in Handlers, DelState(h) PROVE IInv'
<1> USE DEF DelState, Goto, shared, locals, accepted, typed, history, bounds
<1>1. TypeOK'
  BY SenderType DEF IInv, TypeOK, Places, Strings
<1>2. TracedInv'
  BY DEF IInv, TypeOK, TracedInv, Witness
<1>3. AuthWitnessed'
  BY DEF IInv, TypeOK, TracedInv, AuthWitnessed, Witness
<1>4. StoredInv'
  BY SenderType DEF IInv, TypeOK, StoredInv
<1>5. OwnInv'
  BY DEF IInv, TypeOK, OwnInv, Own, AfterPassword, Places
<1> QED BY <1>1, <1>2, <1>3, <1>4, <1>5 DEF IInv

\* The password is stored.
LEMMA PutPasswordInv == ASSUME IInv, NEW h \in Handlers, PutPassword(h) PROVE IInv'
<1> USE DEF PutPassword, Goto, shared, locals, accepted, typed, history, bounds, Disturb
<1>1. TypeOK'
  BY SenderType DEF IInv, TypeOK, Places, Strings
<1>2. TracedInv'
  BY WitnessGrows DEF IInv, TypeOK, TracedInv, Witness
<1>3. AuthWitnessed'
  BY WitnessGrows DEF IInv, TypeOK, TracedInv, AuthWitnessed, Witness
<1>4. StoredInv'
  BY SenderType DEF IInv, TypeOK, StoredInv
<1>5. OwnInv'
  BY DEF IInv, TypeOK, OwnInv, Own, AfterPassword, Places
<1> QED BY <1>1, <1>2, <1>3, <1>4, <1>5 DEF IInv

\* The first argument is read.
LEMMA ReadLoginInv == ASSUME IInv, NEW h \in Handlers, ReadLogin(h) PROVE IInv'
<1> USE DEF ReadLogin, Goto, shared, locals, accepted, typed, history, bounds, Racing
<1>1. TypeOK'
  <2>1. pc' \in [Handlers -> Places]
    BY DEF IInv, TypeOK, Places
  <2>2. argLogin' \in [Handlers -> Strings]
    BY DEF IInv, TypeOK, Strings
  <2>3. alone' \in [Handlers -> BOOLEAN]
    BY DEF IInv, TypeOK
  <2> QED BY <2>1, <2>2, <2>3 DEF IInv, TypeOK
<1>2. TracedInv'
  BY DEF IInv, TypeOK, TracedInv, Witness
<1>3. AuthWitnessed'
  BY DEF IInv, TypeOK, TracedInv, AuthWitnessed, Witness
<1>4. StoredInv'
  BY SenderType DEF IInv, TypeOK, StoredInv
<1>5. OwnInv'
  BY DEF IInv, TypeOK, OwnInv, Own, AfterPassword, Places
<1> QED BY <1>1, <1>2, <1>3, <1>4, <1>5 DEF IInv

\* The second argument is read.
LEMMA ReadPasswordInv == ASSUME IInv, NEW h \in Handlers, ReadPassword(h) PROVE IInv'
<1> USE DEF ReadPassword, Goto, shared, locals, accepted, typed, history, bounds, Racing
<1>1. TypeOK'
  <2>1. pc' \in [Handlers -> Places]
    BY DEF IInv, TypeOK, Places
  <2>2. argPassword' \in [Handlers -> Strings]
    BY DEF IInv, TypeOK, Strings
  <2>3. alone' \in [Handlers -> BOOLEAN]
    BY DEF IInv, TypeOK
  <2> QED BY <2>1, <2>2, <2>3 DEF IInv, TypeOK
<1>2. TracedInv'
  BY DEF IInv, TypeOK, TracedInv, Witness
<1>3. AuthWitnessed'
  BY DEF IInv, TypeOK, TracedInv, AuthWitnessed, Witness
<1>4. StoredInv'
  BY SenderType DEF IInv, TypeOK, StoredInv
<1>5. OwnInv'
  BY DEF IInv, TypeOK, OwnInv, Own, AfterPassword, Places
<1> QED BY <1>1, <1>2, <1>3, <1>4, <1>5 DEF IInv

\* The database answers.
LEMMA CheckInv == ASSUME IInv, NEW h \in Handlers, Check(h) PROVE IInv'
<1> USE DEF Check, Goto, shared, locals, accepted, typed, history, bounds, Authenticate
<1>1. TypeOK'
  BY SenderType DEF IInv, TypeOK, Places, Strings
<1>2. TracedInv'
  BY AcceptedWasTyped DEF IInv, TypeOK, TracedInv, Witness
<1>3. AuthWitnessed'
  BY DEF IInv, TypeOK, TracedInv, AuthWitnessed, Witness
<1>4. StoredInv'
  BY SenderType DEF IInv, TypeOK, StoredInv
<1>5. OwnInv'
  <2>1. PICK failed \in BOOLEAN :
          /\ result' = [result EXCEPT ![h] = Authenticate(h, failed)]
          /\ dbFailed' = [dbFailed EXCEPT ![h] = failed]
    OBVIOUS
  <2>2. /\ result'[h] = Authenticate(h, failed)
        /\ dbFailed'[h] = failed
        /\ pc[h] = "check" /\ pc'[h] = "putAuth"
    BY <2>1 DEF IInv, TypeOK
  <2>3. ASSUME NEW g \in Handlers, g # h
        PROVE  pc'[g] = pc[g] /\ result'[g] = result[g] /\ dbFailed'[g] = dbFailed[g]
    BY <2>1, <2>3 DEF IInv, TypeOK
  <2>4. UNCHANGED <<userLogin, userPassword, auth, text, argLogin, argPassword, ownLogin, alone>>
    OBVIOUS
  <2>5. alone[h] => (Authenticate(h, failed) <=>
                       ~failed /\ <<ownLogin[h], text[h]>> \in Accounts)
    BY <2>2 DEF IInv, OwnInv, Own
  <2>6. Own(h)'
    BY <2>2, <2>4, <2>5 DEF IInv, OwnInv, Own, AfterPassword
  <2>7. ASSUME NEW g \in Handlers, g # h PROVE Own(g)'
    BY <2>3, <2>4, <2>7 DEF IInv, OwnInv, Own
  <2> QED BY <2>6, <2>7 DEF OwnInv
<1> QED BY <1>1, <1>2, <1>3, <1>4, <1>5 DEF IInv

\* The flag is written.
LEMMA PutAuthInv == ASSUME IInv, NEW h \in Handlers, PutAuth(h) PROVE IInv'
<1> USE DEF PutAuth, Goto, shared, locals, accepted, typed, history, bounds, Disturb
<1>1. TypeOK'
  BY SenderType DEF IInv, TypeOK, Places, Strings
<1>2. TracedInv'
  BY DEF IInv, TypeOK, TracedInv, Witness
<1>3. AuthWitnessed'
  BY DEF IInv, TypeOK, TracedInv, AuthWitnessed, Witness
<1>4. StoredInv'
  BY SenderType DEF IInv, TypeOK, StoredInv
<1>5. OwnInv'
  BY DEF IInv, TypeOK, OwnInv, Own, AfterPassword, Places
<1> QED BY <1>1, <1>2, <1>3, <1>4, <1>5 DEF IInv

\* The answer is sent.
LEMMA AnswerInv == ASSUME IInv, NEW h \in Handlers, Answer(h) PROVE IInv'
<1> USE DEF Answer, Goto, shared, locals, accepted, typed, history, bounds, Finish
<1>1. TypeOK'
  BY SenderType DEF IInv, TypeOK, Places, Strings
<1>2. TracedInv'
  BY DEF IInv, TypeOK, TracedInv, Witness
<1>3. AuthWitnessed'
  BY DEF IInv, TypeOK, TracedInv, AuthWitnessed, Witness
<1>4. StoredInv'
  BY SenderType DEF IInv, TypeOK, StoredInv
<1>5. OwnInv'
  BY DEF IInv, TypeOK, OwnInv, Own, AfterPassword, Places
<1> QED BY <1>1, <1>2, <1>3, <1>4, <1>5 DEF IInv

\* A new process has no strings and no flag.
LEMMA RestartInv == ASSUME IInv, Restart PROVE IInv'
<1> USE DEF Restart
<1>1. TypeOK'
  <2>1. texts' \in Nat /\ boot' \in Nat
    BY DEF IInv, TypeOK
  <2>2. Blank \in Strings /\ "idle" \in Places
    BY DEF Strings, Places
  <2> QED BY <2>1, <2>2 DEF TypeOK
<1>2. TracedInv' /\ AuthWitnessed'
  BY DEF TracedInv, AuthWitnessed
<1>3. StoredInv' /\ OwnInv'
  BY DEF StoredInv, OwnInv, Own
<1> QED BY <1>1, <1>2, <1>3 DEF IInv

\* Every step of the specification keeps the inductive invariant.
LEMMA NextInv == IInv /\ [Next]_vars => IInv'
<1> SUFFICES ASSUME IInv, [Next]_vars PROVE IInv'
  OBVIOUS
<1>1. ASSUME NEW h \in Handlers, Handler(h) PROVE IInv'
  BY <1>1, RouteInv, AskPasswordInv, PutLoginInv, DelStateInv, PutPasswordInv,
     ReadLoginInv, ReadPasswordInv, CheckInv, PutAuthInv, AnswerInv DEF Handler
<1>2. CASE UNCHANGED vars
  BY <1>2 DEF vars, IInv, TypeOK, TracedInv, AuthWitnessed, StoredInv, OwnInv, Own, Witness
<1> QED BY <1>1, <1>2, StartInv, CommandInv, TextInv, RestartInv DEF Next

\* Every reachable state satisfies the inductive invariant.
THEOREM Invariance == Spec => []IInv
<1> QED BY InitInv, NextInv, PTL DEF Spec

\* The flag is set, and a command let through, only after a login of the
\* users table and its password were entered since the process started.
THEOREM Witnessed == Spec => []AuthWitnessed
<1>1. IInv => AuthWitnessed
  BY DEF IInv
<1> QED BY <1>1, Invariance, PTL

\* Type correctness of the shared variables and of every handler.
THEOREM TypeCorrect == Spec => []TypeOK
<1>1. IInv => TypeOK
  BY DEF IInv
<1> QED BY <1>1, Invariance, PTL

\* A text given to the process may complete an account, and takes none away.
LEMMA EnteredStep ==
    ASSUME IInv, typedLogins \subseteq typedLogins', typedPasswords \subseteq typedPasswords',
           UNCHANGED <<auth, granted>>
    PROVE  [Abstract!Next]_(Abstract!vars)
<1>1. CASE Witness
  <2>1. Witness'
    BY <1>1, WitnessGrows
  <2>2. Witness' = Witness
    BY <1>1, <2>1 DEF Witness
  <2> QED BY <2>2 DEF Abstract!vars
<1>2. CASE ~Witness /\ ~Witness'
  <2>1. Witness' = Witness
    BY <1>2 DEF Witness
  <2> QED BY <2>1 DEF Abstract!vars
<1>3. CASE ~Witness /\ Witness'
  <2>1. Witness' = TRUE
    BY <1>3 DEF Witness
  <2> QED BY <2>1 DEF Abstract!Next, Abstract!Enter
<1> QED BY <1>1, <1>2, <1>3

\* Every step of the dialogues is a step of the flag, or none.
LEMMA StepSimulates == IInv /\ [Next]_vars => [Abstract!Next]_(Abstract!vars)
<1> SUFFICES ASSUME IInv, [Next]_vars PROVE [Abstract!Next]_(Abstract!vars)
  OBVIOUS
<1> USE DEF Goto, Finish, shared, locals, accepted, typed, history, bounds
<1>1. ASSUME UNCHANGED <<auth, granted, typed>> PROVE UNCHANGED Abstract!vars
  <2>1. Witness' = Witness
    BY <1>1 DEF Witness
  <2> QED BY <1>1, <2>1 DEF Abstract!vars
<1>2. CASE UNCHANGED vars
  BY <1>1, <1>2 DEF vars
<1>3. ASSUME \/ \E u \in Users : Start(u)
             \/ \E h \in Handlers :
                  \/ Text(h) \/ Route(h) \/ AskPassword(h) \/ DelState(h)
                  \/ ReadLogin(h) \/ ReadPassword(h) \/ Check(h) \/ Answer(h)
      PROVE  UNCHANGED Abstract!vars
  <2>1. UNCHANGED <<auth, granted, typed>>
    BY <1>3 DEF Start, Text, Route, AskPassword, DelState, ReadLogin, ReadPassword,
                Check, Answer
  <2> QED BY <1>1, <2>1
<1>4. ASSUME NEW u \in Users, Command(u) PROVE Abstract!Grant
  <2>1. Witness' = Witness
    BY <1>4 DEF Command, Witness
  <2> QED BY <1>4, <2>1 DEF Command, MayRun, Abstract!Grant
<1>5. ASSUME NEW h \in Handlers, PutLogin(h) PROVE [Abstract!Next]_(Abstract!vars)
  BY <1>5, EnteredStep DEF PutLogin
<1>6. ASSUME NEW h \in Handlers, PutPassword(h) PROVE [Abstract!Next]_(Abstract!vars)
  BY <1>6, EnteredStep DEF PutPassword
<1>7. ASSUME NEW h \in Handlers, PutAuth(h) PROVE Abstract!Decide
  <2>1. Witness' = Witness
    BY <1>7 DEF PutAuth, Witness
  <2>2. auth' \in BOOLEAN /\ (auth' => Witness)
    BY <1>7 DEF PutAuth, IInv, TypeOK, TracedInv
  <2> QED BY <1>7, <2>1, <2>2 DEF PutAuth, Abstract!Decide
<1>8. CASE Restart
  <2>1. Witness' = FALSE
    BY <1>8 DEF Restart, Witness
  <2> QED BY <1>8, <2>1 DEF Restart, Abstract!Next, Abstract!Reset
<1> QED BY <1>2, <1>3, <1>4, <1>5, <1>6, <1>7, <1>8 DEF Next, Handler, Abstract!Next

\* The login dialogue implements Authorization: a command that Session lets
\* through, Authorization lets through.
THEOREM Refinement == Spec => ImplementsAuthorization
<1>1. Init => Abstract!Init
  <2> SUFFICES ASSUME Init PROVE Abstract!Init
    OBVIOUS
  <2>1. Witness = FALSE
    BY DEF Init, InitProcess, Witness
  <2> QED BY <2>1 DEF Init, InitProcess, Abstract!Init
<1> QED BY <1>1, StepSimulates, Invariance, PTL DEF Spec, ImplementsAuthorization, Abstract!Spec

\* A user is told the truth when the login was stored before the password
\* came and no other handler, of theirs or of anybody, wrote a shared
\* variable from then to the answer.
THEOREM TruthUndisturbed == Spec => []VerdictUndisturbed
<1>1. IInv => VerdictUndisturbed
  BY DEF IInv, OwnInv, Own, VerdictUndisturbed, AfterPassword
<1> QED BY <1>1, Invariance, PTL
=============================================================================
