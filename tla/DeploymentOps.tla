---------------------------- MODULE DeploymentOps ----------------------------
(***************************************************************************)
(* The three commands of the bot that change a Deployment: /scale,         *)
(* /restart and /rollback (internal/bot/handlers/kube_handlers.go), run by *)
(* K8sClient in internal/kube/client.go.  Every command runs in its own    *)
(* goroutine against one Deployment object of the API server: it reads the *)
(* object, changes its copy, writes the copy back, and polls the status    *)
(* the Deployment controller reports until it looks ready or the context's *)
(* deadline passes.                                                        *)
(*                                                                         *)
(* The API server and the Deployment controller are not in the repository; *)
(* they are modelled from what the client relies on: an Update is accepted *)
(* only if its resourceVersion is the stored one, a changed spec gets a    *)
(* new generation, and the controller numbers the ReplicaSets and reports  *)
(* status some time later.                                                 *)
(***************************************************************************)
EXTENDS Integers, FiniteSets

CONSTANTS
    Ops,           \* executions of the three handlers
    Images,        \* what a pod template runs
    None,          \* no restartedAt annotation, no template
    ScaleArgs,     \* replica counts a user may type (a Go int)
    RollbackArgs,  \* revision numbers a user may type (a Go int64)
    IntSpan,       \* 2^32: the number of values of an int32
    MaxTries,      \* 5: attempts of the rollback's Update loop
    MaxReplicas,   \* bound on the replica counts of a status
    MaxRv          \* bound on the resourceVersions the controller reaches

ASSUME ImagesAssumption == IsFiniteSet(Images)
ASSUME ArgsAssumption == ScaleArgs \subseteq Int /\ RollbackArgs \subseteq Int
ASSUME IntSpanAssumption == IntSpan \in Nat \ {0}
ASSUME TriesAssumption == MaxTries \in Nat \ {0}
ASSUME BoundsAssumption == MaxReplicas \in Nat \ {0} /\ MaxRv \in Nat

VARIABLES
    dep,      \* the stored Deployment, without its status
    status,   \* the Deployment's status
    rsets,    \* the ReplicaSets: a function from pod template to revision
    pc,       \* where a command is
    req,      \* what a command was asked to do
    got,      \* a command's copy of the Deployment (dep in the code)
    target,   \* the template of the ReplicaSet a rollback chose (targetRS)
    tries,    \* conflicts a rollback has met (attempt)
    expired,  \* whether the deadline of a command's context has passed
    writes,   \* history: how many Updates of the command were accepted
    wgen      \* history: the generation the command's last Update produced

vars == <<dep, status, rsets, pc, req, got, target, tries, expired, writes, wgen>>

Templates == [img : Images, stamp : Ops \cup {None}]

Kinds == {"scale", "restart", "rollback"}

Requests == [kind : {"scale"}, arg : ScaleArgs]
              \cup [kind : {"rollback"}, arg : RollbackArgs]
              \cup [kind : {"restart"}, arg : {0}]

NoRequest == [kind |-> "none", arg |-> 0]

Final == {"ok", "err", "rejected"}
Active == {"get", "list", "reget", "update", "poll"}

\* A command's copy before its first Get: no stored object has version 0.
NoTemplate == [img |-> None, stamp |-> None]
NoCopy == [rv |-> 0, tmpl |-> NoTemplate, replicas |-> 0, rev |-> 0]

\* What a Get returns of the stored object.
Copy == [rv |-> dep.rv, tmpl |-> dep.tmpl, replicas |-> dep.replicas, rev |-> dep.rev]

Content == [tmpl |-> dep.tmpl, replicas |-> dep.replicas]

Revisions == {rsets[t] : t \in DOMAIN rsets}

\* Mutant: the list is numbered by its own order.
AvailableByPosition ==
    {[rev |-> Cardinality({s \in DOMAIN rsets : rsets[s] <= rsets[t]}), tmpl |-> t] :
       t \in DOMAIN rsets}

\* What /revisions lists: the revision and the template of every ReplicaSet.
AvailableRevisions == {[rev |-> rsets[t], tmpl |-> t] : t \in DOMAIN rsets}

\* No ReplicaSet is newer than number n.
Newest(n) == \A m \in Revisions : m <= n

-----------------------------------------------------------------------------
(***************************************************************************)
(* The Deployment is at rest with a history of one ReplicaSet per image    *)
(* that was ever deployed, and one replica.                                *)
(***************************************************************************)
InitCluster ==
    \E deployed \in SUBSET Images \ {{}} :
      LET hist == {[img |-> i, stamp |-> None] : i \in deployed}
          n == Cardinality(hist)
      IN  /\ rsets \in [hist -> 1..n]
          /\ \A s, t \in hist : rsets[s] = rsets[t] => s = t
          /\ \E t \in hist :
               /\ rsets[t] = n
               /\ dep = [rv |-> 1, gen |-> 1, tmpl |-> t, replicas |-> 1, rev |-> n]
          /\ status = [obs |-> 1, updated |-> 1, total |-> 1, avail |-> 1]

Init ==
    /\ InitCluster
    /\ pc = [o \in Ops |-> "idle"]
    /\ req = [o \in Ops |-> NoRequest]
    /\ got = [o \in Ops |-> NoCopy]
    /\ target = [o \in Ops |-> NoTemplate]
    /\ tries = [o \in Ops |-> 0]
    /\ expired = [o \in Ops |-> FALSE]
    /\ writes = [o \in Ops |-> 0]
    /\ wgen = [o \in Ops |-> 0]

cluster == <<dep, status, rsets>>
history == <<writes, wgen>>

Goto(o, l) == pc' = [pc EXCEPT ![o] = l]

\* The function returns: its locals are gone.
Return(o, result) ==
    /\ Goto(o, result)
    /\ got' = [got EXCEPT ![o] = NoCopy]
    /\ target' = [target EXCEPT ![o] = NoTemplate]
    /\ UNCHANGED tries

-----------------------------------------------------------------------------
(***************************************************************************)
(* The handlers.                                                           *)
(***************************************************************************)

\* The text does not parse: the handler answers and calls nothing.
Reject(o) ==
    /\ pc[o] = "idle"
    /\ Goto(o, "rejected")
    /\ UNCHANGED <<cluster, req, got, target, tries, expired, history>>

\* The text parses: the handler makes a context with a deadline and calls
\* the client.
Begin(o) ==
    /\ pc[o] = "idle"
    /\ \E r \in Requests : req' = [req EXCEPT ![o] = r]
    /\ Goto(o, "get")
    /\ UNCHANGED <<cluster, got, target, tries, expired, history>>

\* int32(num): the count wraps into the signed range.
ToInt32(n) == ((n + IntSpan \div 2) % IntSpan) - IntSpan \div 2

\* The deadline of the handler's context passes.
Expire(o) ==
    /\ pc[o] \in Active
    /\ ~expired[o]
    /\ expired' = [expired EXCEPT ![o] = TRUE]
    /\ UNCHANGED <<cluster, pc, req, got, target, tries, history>>

\* Mutant: the wait is made with a context that has no deadline.
FailButNotInPoll(o) ==
    /\ pc[o] \in Active \ {"poll"}
    /\ Return(o, "err")
    /\ UNCHANGED <<cluster, req, expired, history>>

\* A request of the command fails, for its own reasons or because the
\* deadline has passed, and the command returns the error.
Fail(o) ==
    /\ pc[o] \in Active
    /\ Return(o, "err")
    /\ UNCHANGED <<cluster, req, expired, history>>

\* The first Get of each of the three functions.
GetDep(o) ==
    /\ pc[o] = "get"
    /\ ~expired[o]
    /\ got' = [got EXCEPT ![o] = Copy]
    /\ Goto(o, IF req[o].kind = "rollback" THEN "list" ELSE "update")
    /\ UNCHANGED <<cluster, req, target, tries, expired, history>>

\* Mutant: the previous revision is taken to be two below.
WantedTwoBelow(o) == IF req[o].arg > 0 THEN req[o].arg ELSE got[o].rev - 2

\* The revision a rollback looks for: the one asked for, or the one before
\* the revision noted on the command's copy of the Deployment.
WantedRevision(o) == IF req[o].arg > 0 THEN req[o].arg ELSE got[o].rev - 1

Candidates(o) == {t \in DOMAIN rsets : rsets[t] = WantedRevision(o)}

\* List the ReplicaSets and pick the target; without at least two of them,
\* without a revision on the Deployment, or without a match, an error.
ListRS(o) ==
    /\ pc[o] = "list"
    /\ ~expired[o]
    /\ \/ /\ Cardinality(DOMAIN rsets) >= 2
          /\ got[o].rev # 0
          /\ \E t \in Candidates(o) : target' = [target EXCEPT ![o] = t]
          /\ Goto(o, "reget")
          /\ UNCHANGED <<got, tries>>
       \/ /\ Cardinality(DOMAIN rsets) < 2 \/ got[o].rev = 0 \/ Candidates(o) = {}
          /\ Return(o, "err")
    /\ UNCHANGED <<cluster, req, expired, history>>

\* Mutant: the loop refreshes only the resourceVersion of the old copy.
ReGetVersionOnly(o) ==
    /\ pc[o] = "reget"
    /\ ~expired[o]
    /\ got' = [got EXCEPT ![o].rv = dep.rv]
    /\ Goto(o, "update")
    /\ UNCHANGED <<cluster, req, target, tries, expired, history>>

\* The Get at the head of the rollback's Update loop.
ReGet(o) ==
    /\ pc[o] = "reget"
    /\ ~expired[o]
    /\ got' = [got EXCEPT ![o] = Copy]
    /\ Goto(o, "update")
    /\ UNCHANGED <<cluster, req, target, tries, expired, history>>

\* What the command sends: its copy with one field replaced.
Desired(o) ==
    [tmpl |-> CASE req[o].kind = "rollback" -> target[o]
                [] req[o].kind = "restart" -> [got[o].tmpl EXCEPT !.stamp = o]
                [] OTHER -> got[o].tmpl,
     replicas |-> IF req[o].kind = "scale" THEN ToInt32(req[o].arg) ELSE got[o].replicas]

\* Mutant: the copy is sent without its resourceVersion.
FreshAlways(o) == TRUE

\* The copy carries the resourceVersion of its Get: a stale one conflicts.
Fresh(o) == got[o].rv = dep.rv

\* The API server stores a valid update.  One that changes nothing keeps
\* version and generation; a rollback's template may differ from an equal
\* one by its pod-template-hash label.
Store(o) ==
    /\ Fresh(o)
    /\ Desired(o).replicas >= 0
    /\ \/ /\ Desired(o) # Content \/ req[o].kind = "rollback"
          /\ dep' = [rv |-> dep.rv + 1, gen |-> dep.gen + 1, tmpl |-> Desired(o).tmpl,
                     replicas |-> Desired(o).replicas, rev |-> dep.rev]
       \/ /\ Desired(o) = Content
          /\ UNCHANGED dep
    /\ writes' = [writes EXCEPT ![o] = @ + 1]
    /\ wgen' = [wgen EXCEPT ![o] = dep'.gen]

\* The Update succeeds and the command starts to wait.
UpdateOk(o) ==
    /\ pc[o] = "update"
    /\ ~expired[o]
    /\ Store(o)
    /\ Goto(o, "poll")
    /\ UNCHANGED <<status, rsets, req, got, target, tries, expired>>

\* Mutant: the loop retries on every error, not only on a conflict.
UpdateUnackedRetried(o) ==
    /\ pc[o] = "update"
    /\ ~expired[o]
    /\ Store(o)
    /\ Goto(o, IF req[o].kind = "rollback" THEN "reget" ELSE "err")
    /\ UNCHANGED <<status, rsets, req, got, target, tries, expired>>

\* The Update is stored, but the answer is lost or comes after the deadline:
\* the command sees an error that is not a conflict.
UpdateUnacked(o) ==
    /\ pc[o] = "update"
    /\ ~expired[o]
    /\ Store(o)
    /\ Return(o, "err")
    /\ UNCHANGED <<status, rsets, req, expired>>

\* Mutant: the first conflict ends the loop.
UpdateConflictBreaks(o) ==
    /\ pc[o] = "update"
    /\ ~expired[o]
    /\ ~Fresh(o)
    /\ \/ /\ req[o].kind # "rollback"
          /\ Return(o, "err")
       \/ /\ req[o].kind = "rollback"
          /\ tries' = [tries EXCEPT ![o] = @ + 1]
          /\ Goto(o, "poll")
          /\ UNCHANGED <<got, target>>
    /\ UNCHANGED <<cluster, req, expired, history>>

\* Mutant: one attempt too many.
UpdateConflictOnceMore(o) ==
    /\ pc[o] = "update"
    /\ ~expired[o]
    /\ ~Fresh(o)
    /\ \/ /\ req[o].kind # "rollback"
          /\ Return(o, "err")
       \/ /\ req[o].kind = "rollback"
          /\ tries' = [tries EXCEPT ![o] = @ + 1]
          /\ Goto(o, IF tries[o] < MaxTries THEN "reget" ELSE "poll")
          /\ UNCHANGED <<got, target>>
    /\ UNCHANGED <<cluster, req, expired, history>>

\* The object was modified since the copy was read.  /scale and /restart
\* return the error; /rollback tries again, and after MaxTries conflicts
\* leaves the loop and goes on to wait.
UpdateConflict(o) ==
    /\ pc[o] = "update"
    /\ ~expired[o]
    /\ ~Fresh(o)
    /\ \/ /\ req[o].kind # "rollback"
          /\ Return(o, "err")
       \/ /\ req[o].kind = "rollback"
          /\ tries' = [tries EXCEPT ![o] = @ + 1]
          /\ Goto(o, IF tries[o] + 1 < MaxTries THEN "reget" ELSE "poll")
          /\ UNCHANGED <<got, target>>
    /\ UNCHANGED <<cluster, req, expired, history>>

\* The conditions of the three polls.
ScaleReady(o) == status.avail = ToInt32(req[o].arg)

\* Mutant: the restart's poll forgets the generation, as the rollback's does.
RestartReadyAnyGeneration(o) ==
    /\ status.updated = dep.replicas
    /\ status.avail = dep.replicas
    /\ status.total - status.avail = 0

RestartReady(o) ==
    /\ dep.gen <= status.obs
    /\ status.updated = dep.replicas
    /\ status.avail = dep.replicas
    /\ status.total - status.avail = 0

RollbackReady(o) ==
    /\ status.avail = dep.replicas
    /\ status.updated = dep.replicas
    /\ status.total = dep.replicas
    /\ status.total - status.avail = 0

\* A poll finds the Deployment ready and the command reports success.
PollReady(o) ==
    /\ pc[o] = "poll"
    /\ ~expired[o]
    /\ \/ req[o].kind = "scale" /\ ScaleReady(o)
       \/ req[o].kind = "restart" /\ RestartReady(o)
       \/ req[o].kind = "rollback" /\ RollbackReady(o)
    /\ Return(o, "ok")
    /\ UNCHANGED <<cluster, req, expired, history>>

-----------------------------------------------------------------------------
(***************************************************************************)
(* The Deployment controller (external).                                   *)
(***************************************************************************)
commands == <<pc, req, got, target, tries, expired, history>>

\* The ReplicaSet of the stored template is created, or found among the old
\* ones, and made the newest.
SyncRS ==
    /\ dep.tmpl \in DOMAIN rsets => ~Newest(rsets[dep.tmpl])
    /\ \E n \in Revisions \cup {0} :
         /\ Newest(n)
         /\ rsets' = [t \in DOMAIN rsets \cup {dep.tmpl} |->
                        IF t = dep.tmpl THEN n + 1 ELSE rsets[t]]
    /\ UNCHANGED <<dep, status, commands>>

\* The revision annotation of the Deployment follows its newest ReplicaSet.
Annotate ==
    /\ dep.rv < MaxRv
    /\ dep.tmpl \in DOMAIN rsets
    /\ Newest(rsets[dep.tmpl])
    /\ dep.rev # rsets[dep.tmpl]
    /\ dep' = [rv |-> dep.rv + 1, gen |-> dep.gen, tmpl |-> dep.tmpl,
               replicas |-> dep.replicas, rev |-> rsets[dep.tmpl]]
    /\ UNCHANGED <<status, rsets, commands>>

\* The controller writes the status of the generation it works on: any
\* counts a rollout may pass through.
ReportStatus ==
    /\ dep.rv < MaxRv
    /\ dep.tmpl \in DOMAIN rsets
    /\ dep.rev = rsets[dep.tmpl]
    /\ \E total \in 0..MaxReplicas : \E updated, avail \in 0..total :
         status' = [obs |-> dep.gen, updated |-> updated, total |-> total, avail |-> avail]
    /\ status' # status
    /\ dep' = [dep EXCEPT !.rv = @ + 1]
    /\ UNCHANGED <<rsets, commands>>

-----------------------------------------------------------------------------
AllReturned ==
    /\ \A o \in Ops : pc[o] \in Final
    /\ UNCHANGED vars

Command(o) ==
    \/ Reject(o) \/ Begin(o) \/ Expire(o) \/ Fail(o)
    \/ GetDep(o) \/ ListRS(o) \/ ReGet(o)
    \/ UpdateOk(o) \/ UpdateUnacked(o) \/ UpdateConflict(o)
    \/ PollReady(o)

Next ==
    \/ \E o \in Ops : Command(o)
    \/ SyncRS \/ Annotate \/ ReportStatus
    \/ AllReturned

Spec == Init /\ [][Next]_vars

(***************************************************************************)
(* A context's timer fires, and a request made with a context that has     *)
(* expired returns.  Nothing is assumed of the cluster: the controller may *)
(* never get the Deployment ready, and requests may hang until the         *)
(* deadline.                                                               *)
(***************************************************************************)
Fairness ==
    \A o \in Ops : WF_vars(Expire(o)) /\ WF_vars(expired[o] /\ Fail(o))

FairSpec == Spec /\ Fairness

-----------------------------------------------------------------------------
(***************************************************************************)
(* Properties.                                                             *)
(***************************************************************************)
Copies == [rv : Nat, tmpl : Templates \cup {NoTemplate}, replicas : Nat, rev : Nat]

\* Type invariant: the stored object, the status, the ReplicaSets and the
\* locals of every command have the shape the client code relies on.  In
\* particular no sequence of commands stores a negative replica count.
TypeOK ==
    /\ dep \in [rv : Nat, gen : Nat, tmpl : Templates, replicas : Nat, rev : Nat]
    /\ status \in [obs : Nat, updated : Nat, total : Nat, avail : Nat]
    /\ DOMAIN rsets \subseteq Templates
    /\ rsets \in [DOMAIN rsets -> Nat]
    /\ pc \in [Ops -> {"idle"} \cup Active \cup Final]
    /\ req \in [Ops -> Requests \cup {NoRequest}]
    /\ got \in [Ops -> Copies]
    /\ target \in [Ops -> Templates \cup {NoTemplate}]
    /\ tries \in [Ops -> 0..MaxTries]
    /\ expired \in [Ops -> BOOLEAN]
    /\ writes \in [Ops -> Nat]
    /\ wgen \in [Ops -> Nat]

\* The copy a command holds is never ahead of the stored object, and if its
\* version is still the stored one then so is everything else in it.
CopyFaithful ==
    \A o \in Ops : got[o].rv <= dep.rv /\ (got[o].rv = dep.rv => got[o] = Copy)

\* A command writes back a whole object it read some steps ago
\* (client.go:128-130, 269-270, 328-334); still it changes nothing but its
\* own field: /scale keeps the template some other command stored in the
\* meantime, /restart and /rollback keep the replica count, /restart keeps
\* the image.
NoLostUpdate ==
    [][\A o \in Ops : writes'[o] # writes[o] =>
         /\ req[o].kind = "scale" => dep'.tmpl = dep.tmpl
         /\ req[o].kind # "scale" => dep'.replicas = dep.replicas
         /\ req[o].kind = "restart" => dep'.tmpl.img = dep.tmpl.img]_vars

\* However often the rollback's loop goes round (client.go:262-281), and
\* even when the answer to an accepted Update is lost, a command changes the
\* Deployment at most once: it cannot undo what others did after it.
AppliedOnce == \A o \in Ops : writes[o] <= 1

\* /restart reports success (client.go:349-352) only after the controller
\* has acted on the restarted template or a later one.
RestartObserved ==
    \A o \in Ops : pc[o] = "ok" /\ req[o].kind = "restart" =>
        writes[o] = 1 /\ wgen[o] <= status.obs

\* A command reports success without having changed the Deployment only if
\* it is a rollback that met MaxTries conflicts and fell out of its loop
\* (client.go:262-283).
SuccessWritten ==
    \A o \in Ops : pc[o] = "ok" /\ writes[o] = 0 =>
        req[o].kind = "rollback" /\ tries[o] = MaxTries

\* Revision numbers have gaps once an old ReplicaSet was rolled back to, but
\* a rollback to "the previous revision" (client.go:242-251) that read an
\* up-to-date revision annotation always finds one: the number just below
\* the newest is in use.
PreviousFound ==
    \A o \in Ops :
      /\ pc[o] = "list" /\ req[o].kind = "rollback" /\ req[o].arg <= 0
      /\ Fresh(o) /\ Cardinality(DOMAIN rsets) >= 2
      /\ dep.rev \in Revisions /\ Newest(dep.rev)
      => Cardinality(Candidates(o)) = 1

\* A number read off /revisions (client.go:376-415) can be given to
\* /rollback (client.go:226-238) any time later, whatever other commands did
\* in between: it brings back the template it was listed with, or is not
\* found.  A listed number never comes to mean another template, new numbers
\* are above all that were listed, and a rollback takes what is listed.
ListedNumberHolds ==
    [][/\ \A r \in AvailableRevisions' \ AvailableRevisions, q \in AvailableRevisions :
            q.rev < r.rev
       /\ \A q \in AvailableRevisions : Newest(q.rev) => q \in AvailableRevisions'
       /\ \A o \in Ops : req[o].arg > 0 /\ target'[o] \notin {target[o], NoTemplate} =>
            [rev |-> req[o].arg, tmpl |-> target'[o]] \in AvailableRevisions]_vars

\* Every command that was started returns, whatever the cluster does: its
\* deadline bounds the wait (kube_handlers.go:45, 86, 121).
Returns == \A o \in Ops : pc[o] \in Active ~> pc[o] \in Final

\* What the client's last message claims, "Откат deployment успешно
\* завершен" (client.go:306): when a rollback reports success, the
\* controller has seen the template it wrote.
RollbackObserved ==
    \A o \in Ops : pc[o] = "ok" /\ req[o].kind = "rollback" /\ writes[o] = 1 =>
        wgen[o] <= status.obs
=============================================================================
