------------------------------ MODULE Alerter ------------------------------
(***************************************************************************)
(* internal/app/alerter.go: CheckAndNotify fetches the active alerts and,  *)
(* for each, asks the database label by label who is on duty, until some   *)
(* label has an answer.  Each query sees the tables as they are then: the  *)
(* repository functions that change users and user_labels run in between.  *)
(* The map of an alert's labels is iterated in any order, and what a query *)
(* returns next to an error is not discarded.                              *)
(*                                                                         *)
(* A label here is the text key=value that is searched for.                *)
(***************************************************************************)
EXTENDS Naturals, FiniteSets

CONSTANTS
    Users,
    Labels,
    Alerts,
    LabelsOf,  \* the labels of an alert
    RowIds,    \* primary keys of user_labels
    None,
    MaxEdits   \* bound on the changes of the tables

ASSUME LabelsOfAssumption == LabelsOf \in [Alerts -> SUBSET Labels]
ASSUME NoneAssumption == None \notin Alerts
ASSUME AlerterBounds == MaxEdits \in Nat /\ IsFiniteSet(RowIds)

VARIABLES
    duty,      \* users: is_duty of those that exist
    rows,      \* user_labels: user and label by primary key
    edits,     \* number of changes so far
    pc,        \* where CheckAndNotify is
    queue,     \* fetched alerts not yet looked at
    current,   \* the alert it looks at
    untried,   \* labels of the alert not yet searched for
    found,     \* dutyUsers: how often each user is in the slice
    notified,  \* users notified of the current alert
    skipped, served, \* alerts of this check skipped, and notified about
    fetched,   \* history: the alerts this check is about
    failed,    \* history: labels of the alert whose query failed
    held,      \* history: pairs of a user on duty and a label since the
               \* check turned to the alert
    bare,      \* history: labels that nobody on duty had at some moment since
    appointed  \* history: users on duty at the start or put on duty since

tables == <<duty, rows>>
search == <<pc, queue, current, untried, found, notified, skipped, served, fetched, failed>>
vars == <<tables, edits, search, held, bare, appointed>>

Nobody == [u \in Users |-> 0]

-----------------------------------------------------------------------------
\* The rows of users JOIN user_labels with is_duty.
DutyRows == {i \in DOMAIN rows : rows[i].user \in DOMAIN duty /\ duty[rows[i].user]}

\* Mutant: no condition on is_duty.
GetUsersByLabel(l) ==
    [u \in Users |-> Cardinality({i \in DOMAIN rows : rows[i] = [user |-> u, label |-> l]})]

\* A user is listed once per row.
GetDutyUsersByLabel(l) ==
    [u \in Users |-> Cardinality({i \in DutyRows : rows[i] = [user |-> u, label |-> l]})]

\* What the tables hold now, for the history.
Pairs == {<<rows[i].user, rows[i].label>> : i \in DutyRows}
Bare == {l \in Labels : \A i \in DutyRows : rows[i].label # l}

Init ==
    /\ \E S \in SUBSET Users : duty \in [S -> BOOLEAN]
    /\ \E R \in SUBSET RowIds : rows \in [R -> [user : DOMAIN duty, label : Labels]]
    /\ edits = 0
    /\ pc = "idle"
    /\ queue = {} /\ current = None /\ untried = {} /\ found = Nobody
    /\ notified = {} /\ skipped = {} /\ served = {} /\ fetched = {} /\ failed = {}
    /\ held = {} /\ bare = {}
    /\ appointed = {u \in DOMAIN duty : duty[u]}

-----------------------------------------------------------------------------
(***************************************************************************)
(* The repository.                                                         *)
(***************************************************************************)
Edit ==
    /\ edits < MaxEdits
    /\ edits' = edits + 1
    /\ held' = held \cup Pairs'
    /\ bare' = bare \cup Bare'
    /\ UNCHANGED search

\* Mutant: the field is declared with default:true.
DefaultOnDuty == TRUE

\* is_duty of a new row: false is Go's zero value, for which gorm takes the
\* default that the field declares, in CreateUser as well.
DefaultDuty == FALSE

AddUser(u) == duty' = [v \in DOMAIN duty \cup {u} |-> IF v \in DOMAIN duty THEN duty[v] ELSE DefaultDuty]

CreateUser(u) ==
    /\ u \notin DOMAIN duty
    /\ AddUser(u)
    /\ UNCHANGED <<rows, appointed>>

UpdateUserDutyStatus(u, b) ==
    /\ duty' = [v \in DOMAIN duty |-> IF v = u THEN b ELSE duty[v]]
    /\ appointed' = appointed \cup {v \in DOMAIN duty : v = u /\ b}
    /\ UNCHANGED rows

\* gorm saves the User of a new label first, if there is none with that key:
\* a user without a login, but the foreign key of user_labels is satisfied.
CreateUserLabel(u, l) ==
    /\ \E i \in RowIds \ DOMAIN rows :
         rows' = [j \in DOMAIN rows \cup {i} |-> IF j = i THEN [user |-> u, label |-> l] ELSE rows[j]]
    /\ AddUser(u)
    /\ UNCHANGED appointed

DeleteUserLabel(i) ==
    /\ rows' = [j \in DOMAIN rows \ {i} |-> rows[j]]
    /\ UNCHANGED <<duty, appointed>>

UpdateUserLabel(i, l) ==
    /\ rows' = [j \in DOMAIN rows |-> IF j = i THEN [rows[j] EXCEPT !.label = l] ELSE rows[j]]
    /\ UNCHANGED <<duty, appointed>>

Repository ==
    /\ \/ \E u \in Users : CreateUser(u) \/ \E b \in BOOLEAN : UpdateUserDutyStatus(u, b)
       \/ \E u \in Users, l \in Labels : CreateUserLabel(u, l)
       \/ \E i \in RowIds : DeleteUserLabel(i) \/ \E l \in Labels : UpdateUserLabel(i, l)
    /\ Edit

-----------------------------------------------------------------------------
(***************************************************************************)
(* CheckAndNotify.                                                         *)
(***************************************************************************)
unread == <<tables, edits, appointed>>

\* GetActiveAlerts answers with some alerts, or fails.
Fetch ==
    /\ pc \in {"idle", "ok", "error"}
    /\ \/ pc' = "next" /\ fetched' \in SUBSET Alerts
       \/ pc' = "error" /\ fetched' = {}
    /\ queue' = fetched'
    /\ current' = None /\ untried' = {} /\ found' = Nobody
    /\ notified' = {} /\ skipped' = {} /\ served' = {} /\ failed' = {}
    /\ held' = {} /\ bare' = {}
    /\ UNCHANGED unread

\* The outer loop turns to the next alert: the history of its search begins.
NextAlert(a) ==
    /\ pc = "next"
    /\ a \in queue
    /\ queue' = queue \ {a}
    /\ current' = a
    /\ untried' = LabelsOf[a]
    /\ found' = Nobody
    /\ notified' = {}
    /\ failed' = {}
    /\ held' = Pairs
    /\ bare' = Bare
    /\ pc' = "search"
    /\ UNCHANGED <<unread, skipped, served, fetched>>

Finish ==
    /\ pc = "next" /\ queue = {}
    /\ pc' = "ok"
    /\ UNCHANGED <<unread, queue, current, untried, found, notified, skipped, served, fetched, failed,
                   held, bare>>

\* The inner loop: break at the first label with an answer.
Query(l) ==
    /\ pc = "search"
    /\ l \in untried
    /\ untried' = untried \ {l}
    /\ found' = GetDutyUsersByLabel(l)
    /\ pc' = IF found' # Nobody THEN "decide" ELSE "search"
    /\ UNCHANGED <<unread, queue, current, notified, skipped, served, fetched, failed, held, bare>>

\* Mutant: break instead of continue.
AfterErrorBreak == "decide"

AfterError == "search"

\* An error, with the users read before it; they are overwritten by the next
\* query, if there is one.
QueryFails(l) ==
    /\ pc = "search"
    /\ l \in untried
    /\ untried' = untried \ {l}
    /\ failed' = failed \cup {l}
    /\ found' \in {f \in [Users -> 0..Cardinality(RowIds)] :
                     \A u \in Users : f[u] <= GetDutyUsersByLabel(l)[u]}
    /\ pc' = AfterError
    /\ UNCHANGED <<unread, queue, current, notified, skipped, served, fetched, held, bare>>

\* Mutant: return instead of continue.
AfterSkipReturn == "ok"

AfterSkip == "next"

\* The labels are exhausted, or one had an answer.
Decide ==
    /\ pc = "decide" \/ (pc = "search" /\ untried = {})
    /\ \/ /\ found = Nobody
          /\ skipped' = skipped \cup {current}
          /\ pc' = AfterSkip
          /\ UNCHANGED <<notified, served>>
       \/ /\ found # Nobody
          /\ notified' = {u \in Users : found[u] > 0}
          /\ served' = served \cup {current}
          /\ pc' = "next"
          /\ UNCHANGED skipped
    /\ UNCHANGED <<unread, queue, current, untried, found, fetched, failed, held, bare>>

CheckAndNotify ==
    \/ Fetch \/ Finish \/ Decide
    \/ \E a \in Alerts : NextAlert(a)
    \/ \E l \in Labels : Query(l) \/ QueryFails(l)

Next == Repository \/ CheckAndNotify

Spec == Init /\ [][Next]_vars

-----------------------------------------------------------------------------
\* Type invariant; rows refer to users that exist, as the foreign key of
\* user_labels demands.
TypeOK ==
    /\ DOMAIN duty \subseteq Users /\ \A u \in DOMAIN duty : duty[u] \in BOOLEAN
    /\ DOMAIN rows \subseteq RowIds
    /\ \A i \in DOMAIN rows : rows[i] \in [user : DOMAIN duty, label : Labels]
    /\ edits \in 0..MaxEdits
    /\ pc \in {"idle", "next", "search", "decide", "ok", "error"}
    /\ \A A \in {queue, fetched, skipped, served} : A \subseteq Alerts
    /\ current \in Alerts \cup {None}
    /\ untried \subseteq Labels /\ failed \subseteq Labels /\ bare \subseteq Labels
    /\ found \in [Users -> Nat]
    /\ notified \subseteq Users
    /\ held \subseteq Users \X Labels
    /\ appointed \subseteq Users

\* Whoever is notified (alerter.go:70-73) was on duty with a label of that
\* very alert at some moment of its search, whatever was edited between the
\* queries and whichever query failed.
NotifiedWasOnDuty ==
    \A u \in notified : \E l \in LabelsOf[current] : <<u, l>> \in held

\* Nobody is notified who was never put on duty (user_repo.go:28-30): not a
\* user who exists only because somebody created a label for an unused id
\* (user_label_repo.go:10-16), and not a new user before the first change of
\* their duty, whichever labels they have.
NotifiedWasAppointed == notified \subseteq appointed

\* An alert is skipped (alerter.go:65-68) only if each of its labels failed
\* or was without anybody on duty at some moment of the search: nobody who
\* is on duty throughout for a label that can be read is passed over, and an
\* error at one label (alerter.go:54-58) does not hide the others.
SkippedForAReason ==
    current \in skipped => LabelsOf[current] \subseteq failed \cup bare

\* A check that returns nil has skipped or notified somebody about every
\* alert it fetched (alerter.go:48-75), in whatever order and with whatever
\* errors.
AllAlertsHandled == pc = "ok" => fetched = skipped \cup served
=============================================================================
