# Verification of chatops

chatops is a Telegram bot that runs operations on Kubernetes and reports on
services: users log in, send commands, confirm them with a button, and the bot
calls the Kubernetes API, Prometheus and Alertmanager. This directory holds
TLA+ models of the parts of the bot that keep state or run concurrently, TLC
configurations that check them on small instances, and TLAPS proofs of their
main safety properties for every instance. Each definition is translated from
the Go source; `PROJECT.json` names the lines.

## 1. Inventory

| Component | State | Operations | Talks to |
|---|---|---|---|
| Login dialogue (`cmd/bot/main.go:170-221`, `db_handlers.go`, `user_repo.go`) | `userState` per user; one `userLogin`, `userPassword`, `userStatusAuthorization` for the process | `/start`, a text as login, a text as password, the check of a command | users table, every command |
| Confirmation (`main.go:23-61`) | telebot's handler table with the keys `confirm_yes` and `confirm_no`; the questions in the chat | ask, register both buttons, press Yes, press No | every command handler |
| Deployment commands (`kube_handlers.go:24-138`, `kube/client.go:106-368`) | the locals of each call; the Deployment, its status and its ReplicaSets in the API server | `/scale`, `/restart`, `/rollback`: Get, change, Update, poll | Kubernetes API server and Deployment controller |
| Log streaming (same files, `kube_handlers.go:48-60`) | an unbuffered channel per call, a reader goroutine | send, range, close | Telegram |
| Status dashboard (`monitoring/dashboard.go`, `metrics_handlers.go:105-201`) | a map of pods shared by eight goroutines, a mutex, a WaitGroup | `/status` | Prometheus, Alertmanager |
| Alert poller (`app/poller_alert.go`, `main.go:63-93`) | context, WaitGroup, ticker, signal channel | Start, check, Stop | Alertmanager, the operating system |
| Alerter (`app/alerter.go`, `db_adapter.go`) | none of its own | CheckAndNotify | Alertmanager, users and labels tables |
| Repositories (`internal/db`) | the tables users, user_labels, operations, incident_history | single SQL statements | PostgreSQL |
| `/metric`, `/list_metric`, `/alerts`, `/revisions`, `/list_pods`, `/history`, `/operations`, `/ai_help` | none | one or two requests, a formatted answer | the service they ask |

telebot runs every handler in a goroutine of its own, and the poller and the
queries of `/status` are goroutines too, so everything in the *State* column is
shared between concurrent actors; only the dashboard's map has a lock. What is
hard here is therefore

* the interleaving of dialogues over process-wide variables;
* the one handler table behind many open questions, and its loss at a restart
  (`restart: always` in `docker-compose.yaml`);
* read-modify-write of a Deployment with retries, lost answers and a status that
  lags behind the specification;
* deadlines and shutdown racing with answers and ticks;
* an unbuffered channel between a command and the goroutine that talks to
  Telegram, which may be slow or refuse a message;
* tables that are edited between the queries of one search;
* several queries of one report of which some fail.

What makes each component correct:

* *Login dialogue:* nobody is authorized without an account having been typed to
  this process, and a user is told the truth about the pair they typed, unless
  another handler writes the shared variables meanwhile.
* *Confirmation:* a command runs only after its sender confirmed it; a question
  that is dead stays dead.
* *Deployment commands:* a command changes only its own field, at most once, it
  says "done" only when it is, and it always returns.
* *Bot as a whole:* no command runs in a process that nobody logged in to,
  although Yes does not look at the flag.
* *Messages of a command:* the last one tells the outcome; no command hangs on
  its channel and no reader outlives it.
* *Alerter:* only people on duty, and put there on purpose, are notified, and an alert is passed over only
  for a reason.
* *Dashboard:* the report is a function of the answers, is complete, and the
  map it is copied from is not written to afterwards.
* *Poller:* it goes on until a signal comes, then stops, and Stop is a barrier.

The hazards behind these properties are listed one by one, at their lines, in
`PROJECT.json`.

## 2. Plan

In the order of importance. All of it is done; what is left open is at the end.

1. `DeploymentOps`: the three commands against the API server, with `/revisions`
   as the list from which `/rollback` is chosen. Proved.
2. `Confirmation`: the dialogue before every command. Proved.
3. `Session`: the login dialogue, which implements the abstract `Authorization`.
   Proved.
4. `Bot`: `Confirmation` and `Authorization` composed. Proved.
5. `Reporting`: what every command but `/status` says, and the log channel.
   Safety proved.
6. `Dashboard`, which implements the abstract `StatusReport`. Safety and
   refinement proved.
7. `AlertPoller`: polling and shutdown. Safety proved.
8. `Alerter`: the search for people on duty, and the tables it reads. Proved.
9. Open: every safety property and every refinement that a run checks is proved.
   Liveness stays with TLC (section 6).

## 3. The modules

`MC*.tla` modules only give constants values for TLC, `*Proofs.tla` modules only
hold theorems. Definitions whose comment begins with *Mutant* are broken
variants of the definition that follows them; they are used by no
specification and serve to show that a property can fail.

### DeploymentOps

One Deployment (`dep`: resourceVersion `rv`, generation, pod template, replicas,
revision annotation), its `status`, and its ReplicaSets `rsets` (a function from
template to revision number). `Ops` are executions of the three handlers; each
has a place `pc`, its request, its copy of the Deployment `got`, the chosen
`target`, its conflicts `tries` and an expired flag. `writes` and `wgen` are
history variables.

| Action | Code |
|---|---|
| `Reject`, `Begin` | the handlers' parsing and call |
| `GetDep` | the first Get of each function |
| `ListRS` | List, sort, the two searches for the target and their errors |
| `ReGet`, `UpdateOk`, `UpdateConflict`, `UpdateUnacked` | Update, in a loop for `/rollback` |
| `PollReady` | a poll that finds the condition of the command true |
| `Fail` | any request that returns an error |
| `Expire` | the deadline of the handler's context |
| `SyncRS`, `Annotate`, `ReportStatus` | the Deployment controller (external) |

A template is its image and the `restartedAt` stamp, which a restart sets to a
value of its own. The order of the ReplicaSets plays no part in the choice, since
revision numbers are unique, so the sort is left out. The stored template of a
rollback may equal the present one up to its `pod-template-hash` label; `Store`
therefore allows a new generation for it or none. A command that is neither
answered nor expired may wait for ever in the model; fairness speaks only of the
deadline. The log channel is taken to be drained by its reader; that it is, is what
`Reporting` shows. `AvailableRevisions` is what `/revisions` lists: it changes
nothing, so it is an operator and not an action.

### Confirmation

`Cmds` are command messages, `Owner` their senders. A command's goroutine sends
the question, then registers Yes, then No; `yes` and `no` are the table's
entries. `PressYes(u, q)` is a press by any user under any question in the chat:
telebot looks the handler up in the table and not under the question, so what
runs is `yes`, not `q`. Looking up and running are one step, because the
registered closure does not change after it was made. A callback is dispatched
once. `Restart` empties the table and forgets the goroutines; the questions stay.

### Session

A handler is a goroutine that telebot starts for one text: `Handlers` is a user
and one of `Slots`, so several texts of one user may be handled at once. Every
access to a shared variable is an action, so the handlers of different users and
of one user may interleave between any two accesses. In particular a password
may be routed when its login was accepted (`AskPassword`, line 204) and not yet
stored (`PutLogin`, line 205). Two concurrent writes to the map `userState` may end the
process, which is the `Restart` that may happen at any time.

The variables are not synchronised: a read that races with a write of the same
string may return the old text, the new one, or `Junk`, a mixture. A Go string
is an address and a length, so a mixture is a prefix of a text (or reads past
one). `JunkAssumption` takes it to be no login and no password of the table. That
is an assumption about the texts, not a fact of the build: if somebody's text
begins with the login or the password of an account, a torn read may spell it
although nobody typed it, and `AuthWitnessed` and the refinement do not speak of
that case. A row with an empty login and password, which `CreateUserLabel` may add,
matches no typed password.

`lastLogin` is the login the bot accepted last from a user, `loginStored` whether
`userLogin` is still that one; a handler that takes a password remembers the
login it goes with (`ownLogin`) and is `alone` if that login is stored then, and
until another handler writes a shared variable.

`Session` defines `Abstract == INSTANCE Authorization WITH entered <- Witness`:
the abstract `entered` is that the history of typed texts holds both halves of
an account; flag and `granted` have the same names. Storing a text is `Enter` if
it completes an account, writing the flag is `Decide`, passing its test is
`Grant`, a restart is `Reset`, and every other step stutters.

### Authorization and Bot

`Authorization` is the promise of the login dialogue to the rest of the bot: one
flag for everybody, set only after an account was entered to this process. `Bot`
EXTENDS `Confirmation` and takes `Login == INSTANCE Authorization`: since
`Session` implements `Authorization`, what holds of `Bot` holds with `Session` in
its place, without multiplying their states. They share two steps: `Dispatch`
is the test of the flag together with the arrival of a command, and
`BotRestart` restarts both. Everything after the test (`ConfirmationStep`) runs
whatever the flag has become.

### Reporting

A handler is the sequence of its steps (`ScaleScript` and the others): arguments,
requests, checks, messages, retry loop, poll, answer. `todo` is what is left of
it. A message goes to the chat directly (`hand`), or, for the three streaming
commands, waits in `offer` until the reader goroutine takes it: an unbuffered
channel. `Deliver` and `Refuse` are Telegram; a refused message may have arrived
all the same, and the handlers do not look at the error. `Deadline` is the
context's timer. The content of a message is what it says of the outcome:
progress, failure, success, an answer, or an empty text, which Telegram refuses.
Commands share nothing here, so they are taken one after the other.

### Alerter

`CheckAndNotify` with each query as a step of its own, and the repository
functions that change `users` and `user_labels` in between (`Repository`). The
program itself calls none of these yet, nor `CheckAndNotify`: only their tests do,
so they are modelled as a library whose functions may be called at any time. The
map of labels is iterated in any order. A query that fails may return the rows
read before the error, and the code keeps them (`QueryFails`). `found` counts how
often a user is in the slice: a user with two equal label rows is notified
twice. A label created for an id without a user creates that user (`AddUser`), as
the foreign key needs; like every new user it is off duty (`DefaultDuty`), and
`appointed` records who was ever put on duty. `held` and `bare` record what the tables held since the search for the
current alert began.

### AlertPoller

Two goroutines, `Starter` (startPoller) and `Poller`, the runtime's ticker and
signal channel with one slot each. A signal before `signal.Notify` ends the
process. What a check logs is reduced to whether it succeeded.

### StatusReport and Dashboard

`StatusReport` is what `/status` promises: answers come in some order, and the
report is `Summary`, a function of the answers. `Dashboard` is
`GetStatusDashboard`: the map written by one goroutine per query, the WaitGroup,
the early returns, the deadline, and the handler's message. A goroutine takes the
mutex (`Lock`, when nobody is `"locked"`), goes through its results one iteration
at a time (`Record`; `applied` is how far it has got) and runs the deferred
`Unlock` and `Done` together (`Unlock`), while answers to other queries come in.
`StatusReport` says what an answer means without a loop (`SaysSoFar`: the last
readable number or label, ready by any result, marked if mentioned), so that the
parsers are checked against a definition that does not repeat them. Queries are of four
kinds, by what their parser does with a value: replace a number, set readiness
on 1, replace a label, set a mark. `Dashboard` defines
`Abstract == INSTANCE StatusReport`; the abstract variables are the concrete
ones of the same name, and all other steps of the implementation are stutters.

## 4. The runs

| Run | Checks | Shows |
|---|---|---|
| `deployment_safety` | `TypeOK`, `CopyFaithful`, `NoLostUpdate`, `AppliedOnce`, `RestartObserved`, `SuccessWritten`, `PreviousFound`, `ListedNumberHolds` | two concurrent commands of any kind never overwrite each other's field, apply at most once, success has a known meaning, and a listed revision number keeps its template |
| `deployment_liveness` | `Returns` | every started command returns |
| `rollback_observed` (violation) | `RollbackObserved` | a rollback may report success from the old status |
| `bot` | `TypeOK`, `RunsConfirmed`, `DeadStayDead`, `RunsAuthorized` | no run without a press of the sender after the question, nor in a process nobody logged in to; dead questions stay dead |
| `confirmation_yes` (violation) | `YesRunsItsCommand` | Yes may run a command other than the one it was asked for |
| `session` | `TypeOK`, `AuthWitnessed`, `VerdictUndisturbed`, `ImplementsAuthorization` | no authorization without a typed account; a user is told the truth unless another handler, their own included, got in between; refinement of `Authorization` |
| `session_verdict` (violation) | `VerdictIsOwn` | otherwise they may not be, also without any other user |
| `alert_poller` | `TypeOK`, `QuietAfterStop`, `SignalStopsPoller`, `KeepsChecking` | Stop is a barrier, a signal is never lost, polling goes on |
| `dashboard` | `TypeOK`, `Counted`, `Implements`, `NoWriteAfterReturn`, `Replied` | the WaitGroup counts the goroutines on every path; refinement of `StatusReport`, no late write, always an answer |
| `dashboard_alerts` (violation) | `NoAlertsIsTrue` | "no active alerts" may be unknown |
| `reporting` | `TypeOK`, `LastWord`, `NotHeldUp`, `ReaderEnds` | the last message that gets through tells the outcome, no command hangs on its channel, no reader is left |
| `alerter` | `NotifiedWasOnDuty`, `NotifiedWasAppointed`, `SkippedForAReason`, `AllAlertsHandled` | who is notified was on duty and had been put there; an alert is skipped for a reason and does not hide the next |

The four violations are disagreements between a message of the program and what
it does; `PROJECT.json` quotes the lines under `findings`:

* `/rollback` polls without comparing `ObservedGeneration`, at once after the
  Update, so the old status may satisfy it. `/restart` does compare it, and
  `RestartObserved` holds.
* All questions share the button names, so Yes runs the command registered last,
  whichever question it is under: the older command, if Yes under a new question
  is pressed before that one is registered (the trace of the run), or the newer
  one under an old question. `RunsConfirmed` is what remains true: that user did press Yes after being asked about that command.
* The login, the password and the flag are shared and a login is stored after the
  bot has begun to wait for the password. A quick user's password may be checked
  against an older login or none (the trace of the run), and one user's dialogue
  may decide another's answer, by a plain overwrite or a torn read.
  `AuthWitnessed` and `VerdictUndisturbed` are what remains true.
* `/status` with no pods, or with an Alertmanager that fails, says that there
  are no alerts.

Also worth knowing: `SuccessWritten` says precisely when `/rollback` claims success without
having written anything, namely after as many conflicts as it has attempts.
`Unannounced` in `Reporting` lists the commands that end without a word on how:
`/scale` and `/restart` whose deadline passes between two polls, errors of
`/revisions` and `/list_pods`, and `/revisions` of a Deployment that has none.
`/history`, `/operations` and `/ai_help` have no deadline (`Untimed`), so
`NotHeldUp` does not speak of them.

### Bounds

| Bound | Value | Why it is enough |
|---|---|---|
| `Ops` | 2 | a conflict, a lost update and a stale poll each need two commands, or one and the controller |
| `Images` | 2 | current and previous template; restarts add more |
| `MaxTries` | 2 (code: 5) | one retry and one exhaustion of the loop; the proof is for any value; 5 in `rollback_observed` |
| `IntSpan` | 8 (code: 2^32) | -1 stays negative, 10 wraps to 2, 2 stays; the proof is for any value |
| `MaxReplicas` | 2 (1 for liveness) | rollouts with an old and a new pod; for liveness two commands may ask for different counts, 0 and 1 |
| `MaxRv` | 5 (3 for liveness) | bounds the controller's writes only, never a command's: enough for it to follow both commands and disturb both attempts of a rollback |
| `Cmds`, `Users` (Confirmation, Bot) | 3, 2 | two questions of one user and one of another |
| `MaxPresses`, `MaxBoots` | 3, 2 | a press before, between and after two registrations; one restart |
| `Users`, `Logins`, `Passwords` (Session) | 2, 2, 1 | one account, one login that has none |
| `Slots` | 2 | a user's login and password, or two passwords, handled at once |
| `MaxTexts` | 3 | a dialogue and a text of anybody at any point of it; the proof is for any number |
| `MaxSignals` | 3 | one signal taken, one in the slot, one dropped |
| `MaxTries`, `MaxLines` (Reporting) | 5 as in the code, 3 | every attempt of the retry loop; loops of no, one and several messages |
| `Users`, `Labels`, `Alerts`, `RowIds` (Alerter) | 2 each | an alert with two labels and one that shares a label; a row each, or two rows of one user |
| `MaxEdits` | 3 | someone leaves duty, another joins, a row changes, in the middle of one search |
| Queries (Dashboard) | 4 of the code's 8 | one of each kind; queries of one kind write different fields the same way |

The passing runs check deadlock, except `bot` (the chat may fall silent) and `alert_poller` (the goroutines end, or the process does).

### Fairness

* `DeploymentOps`: the timer of a context fires, and a request or poll made with
  an expired context returns (`context.WithTimeout`, `PollUntilContextCancel`).
  Nothing is assumed of the API server or of the controller.
* `AlertPoller`: runnable goroutines run; a request ends at the latest by the HTTP
  client's timeout (`monitoring/client.go:73`), so `CheckFails` is fair and
  `CheckOk` is not; the ticker ticks; `select` chooses at random among ready cases,
  so it does not refuse `ctx.Done()` for ever (strong fairness of `SelectDone`).
* `Dashboard`: goroutines run and requests end, by the client's timeout at the
  latest.
* `Reporting`: the handler and the reader run when they can; a request, an
  attempt or a poll is sure to return only once its context has expired; the
  timer fires; a request to Telegram ends, by telebot's HTTP timeout (one minute
  by default) at the latest, in success or failure. Nothing is assumed of how
  often Telegram succeeds.

## 5. The proofs

All are by an inductive invariant; no bound of a configuration is assumed.

* `DeploymentOpsProofs`, from finitely many images, integer arguments, a positive
  `IntSpan` and a positive `MaxTries`. `IInv` is `TypeOK`, `CopyFaithful`,
  `LocalsInv` (a rollback that is about to write has a target; attempts are left
  while the loop goes on), `WritesInv` (nothing is written before the poll; a poll
  without a write is an exhausted rollback) and `GenInv` (nobody has seen a
  generation that is not stored; a successful restart was observed).
  `CopyFaithful` is needed because the Update sends the whole copy: that the
  version is unchanged says nothing about the other fields by itself. From `IInv`
  follow `AppliedOnce`, `RestartObserved`, `SuccessWritten` and the action
  property `NoLostUpdate`. `ListedNumbers` needs of a step only that the
  controller numbers above the newest and touches one ReplicaSet.
  `PreviousIsThere` adds `NumbersInv`: numbers are used once, and the newest has
  its predecessor unless it is alone. At the start that is a fact about
  cardinalities (an injection into `1..n` from a set of `n` elements is onto);
  afterwards it holds because a ReplicaSet that is made the newest is never the
  one it follows, so the gaps that it leaves are further down.
* `ConfirmationProofs`: `IInv` adds `TableInv` to types and `RunsConfirmed`: what is
  registered for Yes was shown in the chat and its goroutine has neither failed
  nor been lost. Then the press that runs a command is one that was counted for
  it, and `DeadStayDead` follows for the action.
* `SessionProofs`: `TracedInv` says that every string in a shared variable or in an
  argument is blank, junk, or was typed as what it is used for; `StoredInv` says that
  a login that is stored is in `userLogin`, and `OwnInv` follows a handler that is
  `alone` from taking the password to the answer. `Accounts` contains neither blank
  nor junk (`JunkAssumption`). `Users` and `Slots` are any sets. `Refinement` maps every action
  to a step of `Authorization` or a stutter under `IInv`; `TracedInv` is what
  makes the write of the flag a `Decide`.
* `BotProofs`: `BotImplementsConfirmation` maps every step of the bot to a step or
  stutter of `Confirmation`, so its invariant carries over (`BotConfirmed`); with
  `BotInv` (what is registered for Yes came through a test of the flag, and the
  flag needs an account) follows `Authorized`. `BotTypeCorrect` and
  `BotDeadDoNotRun` carry the other theorems of the dialogue over to the bot.
* `AlerterProofs`: `IInv` says that what was found is in `held`, that a label already
  tried failed, is bare or has answered, and that every fetched alert is waiting,
  current, skipped or served; `AppointedInv`, that only `UpdateUserDutyStatus` puts
  anybody on duty. No bound on users, labels, alerts or edits is used.
* `AlertPollerProofs`: `BarrierInv` ties the WaitGroup's counter to the life of the
  poller's goroutine; the type invariant needs it, because without it `Done` could
  take the counter below zero.
* `DashboardProofs`, from finitely many queries, the four kinds of parsers, answers
  that are not taken for a request under way, and results that have a length.
  `MainInv` and `QueryInv` tie the place of the function and of each goroutine to
  the answers that have come; `Counted` ties the WaitGroup to the goroutines, so
  that `wg.Wait()` ending means that all of them are done (and that `Done` never
  goes below zero, which `TypeOK` needs). `MapInv` is the heart: in every pod's
  entry, the field of a query is `SaysSoFar` of the results applied so far. The
  lemma `NextResult` shows of each kind of parser that one more iteration keeps
  this; it replaces an induction over the answer, which the prover cannot do, by
  the steps of the behaviour. When all goroutines are done the map is the
  abstract `Summary` (`CollectsSummary`), and `Refinement` maps every action to a
  step of `StatusReport` or a stutter. Queries write different fields, so the
  order of the goroutines does not matter, and of the mutex the argument uses
  only that one iteration is not interrupted.
* `ReportingProofs`, for any `MaxTries > 0` and any `MaxLines`. `Said(M)` says that
  the latest message of the command, wherever it is between the handler, the
  channel, the request to Telegram and the chat, is one of `M`, or was lost;
  `SaidKept` is that the way to the chat does not reorder messages. `OutcomeInv`
  says what was `Said` by a handler that has only its return left, `SuccessInv`
  that nobody heard of success before. Both need `HandlerInv`: what is left of a
  handler has a `Shape` (only a success, an answer or the list of revisions stands
  before `"end"`, only a report before `"fail"`, the retry loop occurs once), which
  is shown for the eleven scripts and kept when a step is done. `ReaderInv` is what
  makes an offered message have a reader. From these follow `LastWord` and, with
  the bound on the attempts, `TypeOK`.

## 6. Only model-checked

Liveness (`Returns`, `SignalStopsPoller`, `KeepsChecking`, `Replied`, `NotHeldUp`,
`ReaderEnds`) and the absence of deadlocks speak of fairness and of enabled
actions, which are out of the prover's reach; TLC checks them on the instances of
section 4. Every invariant, action property and refinement of a passing run has a
theorem.

## 7. Not modelled

* `GetPodLogs`, `GetPodStatus` and `InitInCluster`, and the repository functions for
  operations, incidents and lists of users: no code of the program calls them,
  and each is one request or statement without state of its own.
* Reading the environment, connecting to the database, migrations, and
  `app.go`/`store.go`, which are empty.
* Formatting and Markdown escaping; the exact text of Prometheus queries. `/status`
  matches pods by a prefix of the job and alerts by the exact job: the model keeps
  the exact match for alerts and takes the list of pods as it is answered. An
  answer that Telegram refuses because of its text (empty, too long, badly
  escaped) is a `Refuse`.
* The text of a notification of the Alerter, and the polls' two-second pauses.
* Kubernetes, Prometheus, Alertmanager, PostgreSQL, telebot and Telegram, beyond
  what the code relies on. Readiness counts are arbitrary, the answers of
  Prometheus have the documented shape.
* `ImagesAssumption` aside, nothing is assumed about the history of a
  Deployment: old ReplicaSets are not deleted (`revisionHistoryLimit`).
