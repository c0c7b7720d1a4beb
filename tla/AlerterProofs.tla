--------------------------- MODULE AlerterProofs ---------------------------
(***************************************************************************)
(* A check notifies and skips for good reasons, for every set of users,    *)
(* labels and alerts and any number of edits of the tables.  The invariant *)
(* says what the search knows of the alert it is at: whoever it has found  *)
(* was on duty, and the labels behind it failed or had nobody; and who is  *)
(* on duty was put there.                                                  *)
(***************************************************************************)
EXTENDS Alerter, FiniteSetTheorems, TLAPS

Searching == pc \in {"search", "decide"}

\* The history is up to date with the tables, and with the search.
SearchInv ==
    Searching =>
      /\ Pairs \subseteq held /\ Bare \subseteq bare
      /\ \A u \in Users : found[u] > 0 => \E l \in LabelsOf[current] : <<u, l>> \in held
      /\ untried \subseteq LabelsOf[current]
      /\ current \in Alerts

\* The labels behind the search have nobody to notify.
TriedInv ==
    /\ pc = "search" => LabelsOf[current] \ untried \subseteq failed \cup bare
    /\ pc = "decide" => found # Nobody

\* Every fetched alert is still queued, being looked at, or dealt with.
QueueInv ==
    /\ queue \cap skipped = {}
    /\ pc \in {"next", "ok"} => fetched = queue \cup skipped \cup served
    /\ Searching =>
         /\ fetched = queue \cup skipped \cup served \cup {current}
         /\ current \notin queue \cup skipped
    /\ pc = "ok" => queue = {}

\* Who is on duty, or was during the search, was put on duty.
AppointedInv ==
    /\ \A u \in DOMAIN duty : duty[u] => u \in appointed
    /\ held \subseteq appointed \X Labels

IInv ==
    /\ TypeOK /\ SearchInv /\ TriedInv /\ QueueInv /\ AppointedInv
    /\ NotifiedWasOnDuty /\ SkippedForAReason

-----------------------------------------------------------------------------
\* Repository steps may change the tables in any way: the history notes it.
LEMMA TablesType ==
    ASSUME TypeOK
    PROVE  /\ Pairs \subseteq Users \X Labels
           /\ Bare \subseteq Labels
           /\ IsFiniteSet(DutyRows)
           /\ \A i \in DutyRows : rows[i] \in [user : Users, label : Labels]
<1>1. \A i \in DutyRows : i \in DOMAIN rows /\ rows[i] \in [user : Users, label : Labels]
  BY DEF TypeOK, DutyRows
<1>2. DutyRows \subseteq RowIds
  BY <1>1 DEF TypeOK
<1>3. IsFiniteSet(DutyRows)
  BY <1>2, AlerterBounds, FS_Subset
<1>4. Pairs \subseteq Users \X Labels
  BY <1>1 DEF Pairs
<1> QED BY <1>1, <1>3, <1>4 DEF Bare

\* What the query returns: users on duty who have the label, and nobody only
\* if nobody has it.
LEMMA QueryFacts ==
    ASSUME TypeOK, NEW l \in Labels
    PROVE  /\ GetDutyUsersByLabel(l) \in [Users -> Nat]
           /\ \A u \in Users : GetDutyUsersByLabel(l)[u] > 0 => <<u, l>> \in Pairs
           /\ GetDutyUsersByLabel(l) = Nobody => l \in Bare
<1> DEFINE R(u) == {i \in DutyRows : rows[i] = [user |-> u, label |-> l]}
<1>1. ASSUME NEW u \in Users PROVE IsFiniteSet(R(u)) /\ Cardinality(R(u)) \in Nat
  <2>1. IsFiniteSet(R(u))
    BY TablesType, FS_Subset
  <2> QED BY <2>1, FS_CardinalityType
<1>2. ASSUME NEW u \in Users PROVE Cardinality(R(u)) = 0 <=> R(u) = {}
  BY <1>1, FS_EmptySet
<1>3. ASSUME NEW u \in Users, R(u) # {} PROVE <<u, l>> \in Pairs
  <2>1. PICK i \in DutyRows : rows[i] = [user |-> u, label |-> l]
    BY <1>3
  <2> QED BY <2>1 DEF Pairs
<1>4. ASSUME \A u \in Users : R(u) = {} PROVE l \in Bare
  <2>1. ASSUME NEW i \in DutyRows, rows[i].label = l PROVE FALSE
    <3>1. rows[i].user \in Users /\ rows[i] = [user |-> rows[i].user, label |-> l]
      BY <2>1, TablesType
    <3> QED BY <1>4, <3>1
  <2> QED BY <2>1 DEF Bare
<1>5. \A u \in Users : GetDutyUsersByLabel(l)[u] = Cardinality(R(u))
  BY DEF GetDutyUsersByLabel
<1>6. GetDutyUsersByLabel(l) \in [Users -> Nat]
  BY <1>1 DEF GetDutyUsersByLabel
<1> HIDE DEF R
<1>7. GetDutyUsersByLabel(l) = Nobody => l \in Bare
  BY <1>2, <1>4, <1>5 DEF Nobody
<1> QED BY <1>1, <1>2, <1>3, <1>5, <1>6, <1>7

\* At the start no check runs.
LEMMA InitInv == Init => IInv
<1> SUFFICES ASSUME Init PROVE IInv
  OBVIOUS
<1>1. TypeOK
  BY AlerterBounds DEF Init, TypeOK, Nobody
<1> QED BY <1>1 DEF Init, IInv, SearchInv, TriedInv, QueueInv, AppointedInv, Searching,
                    NotifiedWasOnDuty, SkippedForAReason

\* The tables alone: a row's user exists.
TablesOK ==
    /\ DOMAIN duty \subseteq Users /\ \A u \in DOMAIN duty : duty[u] \in BOOLEAN
    /\ DOMAIN rows \subseteq RowIds
    /\ \A i \in DOMAIN rows : rows[i] \in [user : DOMAIN duty, label : Labels]

\* A repository function keeps the tables consistent.
LEMMA RepositoryTables == ASSUME TablesOK, Repository PROVE TablesOK'
<1> USE DEF TablesOK
<1>1. ASSUME NEW u \in Users, CreateUser(u) PROVE TablesOK'
  BY <1>1 DEF CreateUser, AddUser, DefaultDuty
<1>2. ASSUME NEW u \in Users, NEW b \in BOOLEAN, UpdateUserDutyStatus(u, b) PROVE TablesOK'
  BY <1>2 DEF UpdateUserDutyStatus
<1>3. ASSUME NEW u \in Users, NEW l \in Labels, CreateUserLabel(u, l) PROVE TablesOK'
  <2>1. PICK i \in RowIds \ DOMAIN rows :
          rows' = [j \in DOMAIN rows \cup {i} |->
                     IF j = i THEN [user |-> u, label |-> l] ELSE rows[j]]
    BY <1>3 DEF CreateUserLabel
  <2>2. DOMAIN duty' = DOMAIN duty \cup {u}
    BY <1>3 DEF CreateUserLabel, AddUser
  <2>3. \A v \in DOMAIN duty' : duty'[v] \in BOOLEAN
    BY <1>3 DEF CreateUserLabel, AddUser, DefaultDuty
  <2>4. DOMAIN rows' = DOMAIN rows \cup {i}
    BY <2>1
  <2>5. \A j \in DOMAIN rows' : rows'[j] \in [user : DOMAIN duty', label : Labels]
    BY <2>1, <2>2, <2>4
  <2> QED BY <2>2, <2>3, <2>4, <2>5
<1>4. ASSUME NEW i \in RowIds, DeleteUserLabel(i) PROVE TablesOK'
  BY <1>4 DEF DeleteUserLabel
<1>5. ASSUME NEW i \in RowIds, NEW l \in Labels, UpdateUserLabel(i, l) PROVE TablesOK'
  BY <1>5 DEF UpdateUserLabel
<1> QED BY <1>1, <1>2, <1>3, <1>4, <1>5 DEF Repository

\* Only UpdateUserDutyStatus puts anybody on duty.
LEMMA RepositoryDuty ==
    ASSUME \A u \in DOMAIN duty : duty[u] => u \in appointed, appointed \subseteq Users,
           DOMAIN duty \subseteq Users, Repository
    PROVE  /\ \A u \in DOMAIN duty' : duty'[u] => u \in appointed'
           /\ appointed \subseteq appointed' /\ appointed' \subseteq Users
<1>1. CASE UNCHANGED <<duty, appointed>>
  BY <1>1
<1>2. ASSUME NEW u \in Users, AddUser(u), UNCHANGED appointed
      PROVE  \A v \in DOMAIN duty' : duty'[v] => v \in appointed'
  BY <1>2 DEF AddUser, DefaultDuty
<1>3. ASSUME NEW u \in Users, NEW b \in BOOLEAN, UpdateUserDutyStatus(u, b)
      PROVE  /\ \A v \in DOMAIN duty' : duty'[v] => v \in appointed'
             /\ appointed \subseteq appointed' /\ appointed' \subseteq Users
  BY <1>3 DEF UpdateUserDutyStatus
<1>4. \/ UNCHANGED <<duty, appointed>>
      \/ \E u \in Users : AddUser(u) /\ UNCHANGED appointed
      \/ \E u \in Users, b \in BOOLEAN : UpdateUserDutyStatus(u, b)
  BY DEF Repository, CreateUser, CreateUserLabel, DeleteUserLabel, UpdateUserLabel
<1> QED BY <1>1, <1>2, <1>3, <1>4

\* The pairs of the tables are those of appointed users.
LEMMA PairsAppointed ==
    ASSUME TablesOK, \A u \in DOMAIN duty : duty[u] => u \in appointed
    PROVE  Pairs \subseteq appointed \X Labels
<1>1. \A i \in DutyRows : rows[i].user \in appointed /\ rows[i].label \in Labels
  BY DEF TablesOK, DutyRows
<1> QED BY <1>1 DEF Pairs

\* An edit between two queries is noted in the history and changes nothing
\* else the search relies on.
LEMMA RepositoryInv == ASSUME IInv, Repository PROVE IInv'
<1>1. /\ UNCHANGED search
      /\ edits < MaxEdits /\ edits' = edits + 1
      /\ held' = held \cup Pairs' /\ bare' = bare \cup Bare'
  BY DEF Repository, Edit
<1>2. TablesOK'
  BY RepositoryTables DEF IInv, TypeOK, TablesOK
<1>3. Pairs' \subseteq Users \X Labels /\ Bare' \subseteq Labels
  <2>1. \A i \in DutyRows' : rows'[i] \in [user : Users, label : Labels]
    BY <1>2 DEF TablesOK, DutyRows
  <2> QED BY <2>1 DEF Pairs, Bare
<1>4. /\ \A u \in DOMAIN duty' : duty'[u] => u \in appointed'
      /\ appointed \subseteq appointed' /\ appointed' \subseteq Users
  BY RepositoryDuty DEF IInv, TypeOK, AppointedInv
<1>5. AppointedInv'
  <2>1. \A i \in DutyRows' : rows'[i].user \in appointed' /\ rows'[i].label \in Labels
    BY <1>2, <1>4 DEF TablesOK, DutyRows
  <2>2. Pairs' \subseteq appointed' \X Labels
    BY <2>1 DEF Pairs
  <2> QED BY <1>1, <1>4, <2>2 DEF IInv, AppointedInv
<1>6. TypeOK'
  BY <1>1, <1>2, <1>3, <1>4, AlerterBounds DEF IInv, TypeOK, TablesOK, search
<1>7. SearchInv'
  BY <1>1 DEF IInv, SearchInv, Searching, search
<1>8. TriedInv' /\ QueueInv'
  BY <1>1 DEF IInv, TriedInv, QueueInv, Searching, search
<1>9. NotifiedWasOnDuty' /\ SkippedForAReason'
  BY <1>1 DEF IInv, NotifiedWasOnDuty, SkippedForAReason, search
<1> QED BY <1>5, <1>6, <1>7, <1>8, <1>9 DEF IInv

-----------------------------------------------------------------------------
(***************************************************************************)
(* Steps of CheckAndNotify.                                                *)
(***************************************************************************)

\* The tables say the same before and after a step that leaves them alone.
LEMMA SameTables == ASSUME UNCHANGED tables PROVE Pairs' = Pairs /\ Bare' = Bare
BY DEF tables, Pairs, Bare, DutyRows

\* A new check knows nothing.
LEMMA FetchInv == ASSUME IInv, Fetch PROVE IInv'
<1> USE DEF Fetch, unread, tables
<1>1. TypeOK'
  BY DEF IInv, TypeOK, Nobody
<1> QED BY <1>1, NoneAssumption DEF IInv, SearchInv, TriedInv, QueueInv, AppointedInv, Searching,
                    NotifiedWasOnDuty, SkippedForAReason

\* The search of an alert begins with all its labels.
LEMMA NextAlertInv == ASSUME IInv, NEW a \in Alerts, NextAlert(a) PROVE IInv'
<1> USE DEF NextAlert, unread
<1>0. LabelsOf[a] \subseteq Labels
  BY LabelsOfAssumption
<1>1. TypeOK'
  BY <1>0, TablesType DEF IInv, TypeOK, Nobody, tables
<1>2. SearchInv'
  BY SameTables DEF SearchInv, Searching, Nobody
<1>3. TriedInv'
  BY DEF TriedInv
<1>4. QueueInv'
  BY DEF IInv, QueueInv, Searching
<1>5. NotifiedWasOnDuty' /\ SkippedForAReason'
  BY <1>4 DEF NotifiedWasOnDuty, SkippedForAReason, QueueInv, Searching
<1>6. AppointedInv'
  <2>1. Pairs \subseteq appointed \X Labels
    BY PairsAppointed DEF IInv, TypeOK, TablesOK, AppointedInv
  <2> QED BY <2>1 DEF IInv, AppointedInv, tables
<1> QED BY <1>1, <1>2, <1>3, <1>4, <1>5, <1>6 DEF IInv

\* The check returns.
LEMMA FinishInv == ASSUME IInv, Finish PROVE IInv'
<1> USE DEF Finish, unread, tables
<1>1. TypeOK'
  BY DEF IInv, TypeOK
<1> QED BY <1>1 DEF IInv, SearchInv, TriedInv, QueueInv, AppointedInv, Searching,
                    NotifiedWasOnDuty, SkippedForAReason

\* A label with an answer ends the search, one without is done with.
LEMMA QueryInv == ASSUME IInv, NEW l \in Labels, Query(l) PROVE IInv'
<1> USE DEF Query, unread
<1>0. /\ GetDutyUsersByLabel(l) \in [Users -> Nat]
      /\ \A u \in Users : GetDutyUsersByLabel(l)[u] > 0 => <<u, l>> \in Pairs
      /\ GetDutyUsersByLabel(l) = Nobody => l \in Bare
  BY QueryFacts DEF IInv
<1>1. TypeOK'
  BY <1>0 DEF IInv, TypeOK, tables
<1>2. SearchInv'
  BY <1>0, SameTables DEF IInv, SearchInv, Searching
<1>3. TriedInv'
  BY <1>0 DEF IInv, SearchInv, Searching, TriedInv
<1>4. QueueInv'
  BY DEF IInv, QueueInv, Searching
<1>5. NotifiedWasOnDuty' /\ SkippedForAReason'
  BY DEF IInv, NotifiedWasOnDuty, SkippedForAReason
<1>6. AppointedInv'
  BY DEF IInv, AppointedInv, tables
<1> QED BY <1>1, <1>2, <1>3, <1>4, <1>5, <1>6 DEF IInv

\* A failed query leaves some of the users it should have found.
LEMMA QueryFailsInv == ASSUME IInv, NEW l \in Labels, QueryFails(l) PROVE IInv'
<1> USE DEF QueryFails, unread
<1>0. /\ GetDutyUsersByLabel(l) \in [Users -> Nat]
      /\ \A u \in Users : GetDutyUsersByLabel(l)[u] > 0 => <<u, l>> \in Pairs
  BY QueryFacts DEF IInv
<1>1. Cardinality(RowIds) \in Nat
  BY AlerterBounds, FS_CardinalityType
<1>2. found' \in [Users -> Nat] /\ \A u \in Users : found'[u] > 0 => <<u, l>> \in Pairs
  BY <1>0, <1>1
<1>3. TypeOK'
  BY <1>2 DEF IInv, TypeOK, tables, AfterError
<1>4. SearchInv'
  BY <1>2, SameTables DEF IInv, SearchInv, Searching, AfterError
<1>5. TriedInv' /\ QueueInv'
  BY DEF IInv, TriedInv, QueueInv, Searching, AfterError
<1>6. NotifiedWasOnDuty' /\ SkippedForAReason'
  BY DEF IInv, NotifiedWasOnDuty, SkippedForAReason
<1>7. AppointedInv'
  BY DEF IInv, AppointedInv, tables
<1> QED BY <1>3, <1>4, <1>5, <1>6, <1>7 DEF IInv

\* The alert is skipped, or whoever was found is notified.
LEMMA DecideInv == ASSUME IInv, Decide PROVE IInv'
<1> USE DEF Decide, unread, AfterSkip
<1>1. TypeOK'
  BY DEF IInv, TypeOK, SearchInv, Searching, tables
<1>2. SearchInv' /\ TriedInv'
  BY DEF SearchInv, TriedInv, Searching
<1>3. QueueInv'
  BY DEF IInv, QueueInv, Searching
<1>4. NotifiedWasOnDuty' /\ SkippedForAReason'
  <2>1. CASE found = Nobody
    BY <2>1 DEF IInv, NotifiedWasOnDuty, SkippedForAReason, TriedInv
  <2>2. CASE found # Nobody
    BY <2>2 DEF IInv, NotifiedWasOnDuty, SkippedForAReason, SearchInv, Searching
  <2> QED BY <2>1, <2>2
<1>5. AppointedInv'
  BY DEF IInv, AppointedInv, tables
<1> QED BY <1>1, <1>2, <1>3, <1>4, <1>5 DEF IInv

\* Every step of the specification keeps the inductive invariant.
LEMMA NextInv == IInv /\ [Next]_vars => IInv'
<1> SUFFICES ASSUME IInv, [Next]_vars PROVE IInv'
  OBVIOUS
<1>1. CASE UNCHANGED vars
  BY <1>1, SameTables DEF vars, tables, search, IInv, TypeOK, SearchInv, TriedInv, QueueInv,
     AppointedInv, Searching, NotifiedWasOnDuty, SkippedForAReason
<1> QED BY <1>1, RepositoryInv, FetchInv, NextAlertInv, FinishInv, QueryInv, QueryFailsInv,
           DecideInv DEF Next, CheckAndNotify

\* Every reachable state satisfies the inductive invariant.
THEOREM Invariance == Spec => []IInv
<1> QED BY InitInv, NextInv, PTL DEF Spec

\* Type correctness; every row of user_labels has its user.
THEOREM TypeCorrect == Spec => []TypeOK
<1>1. IInv => TypeOK
  BY DEF IInv
<1> QED BY <1>1, Invariance, PTL

\* Whoever is notified was on duty for the alert during its search.
THEOREM OnDuty == Spec => []NotifiedWasOnDuty
<1>1. IInv => NotifiedWasOnDuty
  BY DEF IInv
<1> QED BY <1>1, Invariance, PTL

\* Nobody is notified who was never put on duty, although a label may create
\* the user it is for.
THEOREM Appointed == Spec => []NotifiedWasAppointed
<1>1. IInv => NotifiedWasAppointed
  BY DEF IInv, AppointedInv, NotifiedWasOnDuty, NotifiedWasAppointed
<1> QED BY <1>1, Invariance, PTL

\* No alert is skipped while every label can be read and one has somebody on
\* duty throughout.
THEOREM SkippedRightly == Spec => []SkippedForAReason
<1>1. IInv => SkippedForAReason
  BY DEF IInv
<1> QED BY <1>1, Invariance, PTL

\* A check that succeeds has dealt with every alert.
THEOREM AllHandled == Spec => []AllAlertsHandled
<1>1. IInv => AllAlertsHandled
  BY DEF IInv, QueueInv, AllAlertsHandled
<1> QED BY <1>1, Invariance, PTL
=============================================================================
