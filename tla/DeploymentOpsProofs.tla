------------------------- MODULE DeploymentOpsProofs -------------------------
(***************************************************************************)
(* Safety of DeploymentOps for every set of commands, images, arguments    *)
(* and every bound.  The inductive invariant is IInv: types, the           *)
(* faithfulness of the copies, and what each program counter implies about *)
(* a command's request, target, attempts and writes.                       *)
(***************************************************************************)
EXTENDS DeploymentOps, FiniteSetTheorems, TLAPS

\* What the place of a command says about its locals.
LocalsInv ==
    \A o \in Ops :
      /\ pc[o] \in Active \cup {"ok"} => req[o] \in Requests
      /\ pc[o] \in {"list", "reget"} => req[o].kind = "rollback"
      /\ pc[o] \in {"reget", "update"} /\ req[o].kind = "rollback" =>
           target[o] \in Templates
      /\ pc[o] \in {"idle", "get", "list", "reget", "update"} => tries[o] < MaxTries

\* What the place of a command says about its Updates.
WritesInv ==
    \A o \in Ops :
      /\ writes[o] <= 1
      /\ pc[o] \in {"idle", "get", "list", "reget", "update"} => writes[o] = 0
      /\ pc[o] \in {"poll", "ok"} /\ writes[o] = 0 =>
           req[o].kind = "rollback" /\ tries[o] = MaxTries

\* Generations: nobody has seen one that is not stored yet.
GenInv ==
    /\ dep.rv > 0
    /\ status.obs <= dep.gen
    /\ \A o \in Ops : wgen[o] <= dep.gen
    /\ \A o \in Ops : pc[o] = "ok" /\ req[o].kind = "restart" => wgen[o] <= status.obs

IInv == TypeOK /\ CopyFaithful /\ LocalsInv /\ WritesInv /\ GenInv

-----------------------------------------------------------------------------
\* The conversion int32(num) of kube_handlers.go:62 is an integer whatever
\* was typed.
LEMMA ToInt32Type == \A n \in Int : ToInt32(n) \in Int
BY IntSpanAssumption DEF ToInt32

\* Every request a handler can build has one of the three kinds and an
\* integer argument.
LEMMA RequestFacts ==
    ASSUME NEW r \in Requests
    PROVE  r.kind \in Kinds /\ r.arg \in Int
<1>1. CASE r \in [kind : {"scale"}, arg : ScaleArgs]
  BY <1>1, ArgsAssumption DEF Kinds
<1>2. CASE r \in [kind : {"rollback"}, arg : RollbackArgs]
  BY <1>2, ArgsAssumption DEF Kinds
<1>3. CASE r \in [kind : {"restart"}, arg : {0}]
  BY <1>3 DEF Kinds
<1> QED BY <1>1, <1>2, <1>3 DEF Requests

\* The cluster starts with well-typed history.
LEMMA InitClusterType ==
    ASSUME InitCluster
    PROVE  /\ dep \in [rv : Nat, gen : Nat, tmpl : Templates, replicas : Nat, rev : Nat]
           /\ dep.rv = 1 /\ dep.gen = 1
           /\ status \in [obs : Nat, updated : Nat, total : Nat, avail : Nat]
           /\ status.obs = 1
           /\ DOMAIN rsets \subseteq Templates
           /\ rsets \in [DOMAIN rsets -> Nat]
<1>1. PICK deployed \in SUBSET Images \ {{}} :
        LET hist == {[img |-> i, stamp |-> None] : i \in deployed}
            n == Cardinality(hist)
        IN  /\ rsets \in [hist -> 1..n]
            /\ \E t \in hist :
                 dep = [rv |-> 1, gen |-> 1, tmpl |-> t, replicas |-> 1, rev |-> n]
            /\ status = [obs |-> 1, updated |-> 1, total |-> 1, avail |-> 1]
  BY DEF InitCluster
<1> DEFINE hist == {[img |-> i, stamp |-> None] : i \in deployed}
           n == Cardinality(hist)
<1>2. IsFiniteSet(deployed)
  BY ImagesAssumption, FS_Subset
<1>3. IsFiniteSet(hist)
  <2> DEFINE f == [i \in deployed |-> [img |-> i, stamp |-> None]]
  <2>1. hist = {f[i] : i \in deployed}
    OBVIOUS
  <2>2. f \in Surjection(deployed, hist)
    BY <2>1 DEF Surjection
  <2> QED BY <1>2, <2>2, FS_Surjection
<1>4. n \in Nat
  BY <1>3, FS_CardinalityType
<1>5. hist \subseteq Templates
  BY DEF Templates
<1> HIDE DEF hist, n
<1>6. /\ rsets \in [hist -> 1..n]
      /\ \E t \in hist :
           dep = [rv |-> 1, gen |-> 1, tmpl |-> t, replicas |-> 1, rev |-> n]
      /\ status = [obs |-> 1, updated |-> 1, total |-> 1, avail |-> 1]
  BY <1>1 DEF hist, n
<1>7. rsets \in [DOMAIN rsets -> Nat] /\ DOMAIN rsets \subseteq Templates
  BY <1>4, <1>5, <1>6
<1> QED BY <1>4, <1>5, <1>6, <1>7

\* At the start no command holds a copy or has written anything.
LEMMA InitInv == Init => IInv
<1> SUFFICES ASSUME Init PROVE IInv
  OBVIOUS
<1> USE DEF Init
<1>1. TypeOK
  BY InitClusterType, TriesAssumption
     DEF TypeOK, Copies, NoCopy, Active, Final
<1>2. CopyFaithful
  BY InitClusterType DEF CopyFaithful, NoCopy
<1>3. LocalsInv
  BY TriesAssumption DEF LocalsInv, Active
<1>4. WritesInv
  BY DEF WritesInv
<1>5. GenInv
  BY InitClusterType DEF GenInv
<1> QED BY <1>1, <1>2, <1>3, <1>4, <1>5 DEF IInv

-----------------------------------------------------------------------------
(***************************************************************************)
(* Steps of a command.                                                     *)
(***************************************************************************)

\* The stored object stays well typed, and does not lose its version, when
\* an Update is accepted; an Update that changes the object makes its
\* version and generation larger.
LEMMA StoreFacts ==
    ASSUME IInv, NEW o \in Ops, pc[o] = "update", Store(o)
    PROVE  /\ dep' \in [rv : Nat, gen : Nat, tmpl : Templates, replicas : Nat, rev : Nat]
           /\ dep' = dep \/ dep'.rv > dep.rv
           /\ dep'.gen >= dep.gen
           /\ got[o] = Copy
           /\ dep'.tmpl = Desired(o).tmpl /\ dep'.replicas = Desired(o).replicas
<1>1. got[o] = Copy
  BY DEF IInv, CopyFaithful, Store, Fresh
<1>2. req[o] \in Requests
  BY DEF IInv, LocalsInv, Active
<1>3. Desired(o).replicas \in Int /\ Desired(o).replicas >= 0
  <2>1. ToInt32(req[o].arg) \in Int
    BY <1>2, RequestFacts, ToInt32Type
  <2>2. got[o].replicas \in Nat
    BY DEF IInv, TypeOK, Copies
  <2> QED BY <2>1, <2>2 DEF Desired, Store
<1>4. Desired(o).tmpl \in Templates
  <2>1. got[o].tmpl \in Templates
    BY <1>1 DEF IInv, TypeOK, Copy
  <2>2. req[o].kind = "rollback" => target[o] \in Templates
    BY DEF IInv, LocalsInv
  <2>3. [got[o].tmpl EXCEPT !.stamp = o] \in Templates
    BY <2>1 DEF Templates
  <2> QED BY <2>1, <2>2, <2>3 DEF Desired
<1>5. CASE dep' = [rv |-> dep.rv + 1, gen |-> dep.gen + 1, tmpl |-> Desired(o).tmpl,
                   replicas |-> Desired(o).replicas, rev |-> dep.rev]
  BY <1>1, <1>3, <1>4, <1>5 DEF IInv, TypeOK
<1>6. CASE Desired(o) = Content /\ UNCHANGED dep
  <2>1. Content.tmpl = dep.tmpl /\ Content.replicas = dep.replicas
    BY DEF Content
  <2> QED BY <1>1, <1>6, <2>1 DEF IInv, TypeOK
<1> QED BY <1>5, <1>6 DEF Store

\* A command that returns drops its copy: the empty copy is well typed and
\* older than anything stored.
LEMMA NoCopyFacts == NoCopy \in Copies /\ NoCopy.rv = 0
BY DEF NoCopy, Copies

\* A Get returns a well-typed copy.
LEMMA CopyType == TypeOK => Copy \in Copies
BY DEF TypeOK, Copy, Copies

\* A rejected text changes nothing but the place of its handler.
LEMMA RejectInv == ASSUME IInv, NEW o \in Ops, Reject(o) PROVE IInv'
<1> USE DEF IInv, Reject, cluster, history, Goto
<1>1. TypeOK'
  BY NoCopyFacts, CopyType, TriesAssumption DEF TypeOK, LocalsInv, Active, Final
<1>2. CopyFaithful'
  BY NoCopyFacts DEF TypeOK, CopyFaithful, GenInv, Copy, Copies
<1>3. LocalsInv'
  BY TriesAssumption DEF TypeOK, LocalsInv, Active, Final
<1>4. WritesInv'
  BY TriesAssumption DEF TypeOK, LocalsInv, WritesInv, Active
<1>5. GenInv'
  BY DEF TypeOK, GenInv, LocalsInv, WritesInv, Active
<1> QED BY <1>1, <1>2, <1>3, <1>4, <1>5

\* A handler calls the client.
LEMMA BeginInv == ASSUME IInv, NEW o \in Ops, Begin(o) PROVE IInv'
<1> USE DEF IInv, Begin, cluster, history, Goto
<1>1. TypeOK'
  BY NoCopyFacts, CopyType, TriesAssumption DEF TypeOK, LocalsInv, Active, Final
<1>2. CopyFaithful'
  BY NoCopyFacts DEF TypeOK, CopyFaithful, GenInv, Copy, Copies
<1>3. LocalsInv'
  BY TriesAssumption DEF TypeOK, LocalsInv, Active, Final
<1>4. WritesInv'
  BY TriesAssumption DEF TypeOK, LocalsInv, WritesInv, Active
<1>5. GenInv'
  BY DEF TypeOK, GenInv, LocalsInv, WritesInv, Active
<1> QED BY <1>1, <1>2, <1>3, <1>4, <1>5

\* A deadline passes.
LEMMA ExpireInv == ASSUME IInv, NEW o \in Ops, Expire(o) PROVE IInv'
<1> USE DEF IInv, Expire, cluster, history
<1>1. TypeOK'
  BY NoCopyFacts, CopyType, TriesAssumption DEF TypeOK, LocalsInv, Active, Final
<1>2. CopyFaithful'
  BY NoCopyFacts DEF TypeOK, CopyFaithful, GenInv, Copy, Copies
<1>3. LocalsInv'
  BY TriesAssumption DEF TypeOK, LocalsInv, Active, Final
<1>4. WritesInv'
  BY TriesAssumption DEF TypeOK, LocalsInv, WritesInv, Active
<1>5. GenInv'
  BY DEF TypeOK, GenInv, LocalsInv, WritesInv, Active
<1> QED BY <1>1, <1>2, <1>3, <1>4, <1>5

\* A command returns an error.
LEMMA FailInv == ASSUME IInv, NEW o \in Ops, Fail(o) PROVE IInv'
<1> USE DEF IInv, Fail, cluster, history, Return, Goto
<1>1. TypeOK'
  BY NoCopyFacts, CopyType, TriesAssumption DEF TypeOK, LocalsInv, Active, Final
<1>2. CopyFaithful'
  BY NoCopyFacts DEF TypeOK, CopyFaithful, GenInv, Copy, Copies
<1>3. LocalsInv'
  BY TriesAssumption DEF TypeOK, LocalsInv, Active, Final
<1>4. WritesInv'
  BY TriesAssumption DEF TypeOK, LocalsInv, WritesInv, Active
<1>5. GenInv'
  BY DEF TypeOK, GenInv, LocalsInv, WritesInv, Active
<1> QED BY <1>1, <1>2, <1>3, <1>4, <1>5

\* The first Get.
LEMMA GetDepInv == ASSUME IInv, NEW o \in Ops, GetDep(o) PROVE IInv'
<1> USE DEF IInv, GetDep, cluster, history, Goto
<1>1. TypeOK'
  BY NoCopyFacts, CopyType, TriesAssumption DEF TypeOK, LocalsInv, Active, Final
<1>2. CopyFaithful'
  BY NoCopyFacts DEF TypeOK, CopyFaithful, GenInv, Copy, Copies
<1>3. LocalsInv'
  BY TriesAssumption DEF TypeOK, LocalsInv, Active, Final
<1>4. WritesInv'
  BY TriesAssumption DEF TypeOK, LocalsInv, WritesInv, Active
<1>5. GenInv'
  BY DEF TypeOK, GenInv, LocalsInv, WritesInv, Active
<1> QED BY <1>1, <1>2, <1>3, <1>4, <1>5

\* The choice of the ReplicaSet to go back to.
LEMMA ListRSInv == ASSUME IInv, NEW o \in Ops, ListRS(o) PROVE IInv'
<1> USE DEF IInv, ListRS, cluster, history, Return, Goto, Candidates
<1>1. TypeOK'
  BY NoCopyFacts, CopyType, TriesAssumption DEF TypeOK, LocalsInv, Active, Final
<1>2. CopyFaithful'
  BY NoCopyFacts DEF TypeOK, CopyFaithful, GenInv, Copy, Copies
<1>3. LocalsInv'
  BY TriesAssumption DEF TypeOK, LocalsInv, Active, Final
<1>4. WritesInv'
  BY TriesAssumption DEF TypeOK, LocalsInv, WritesInv, Active
<1>5. GenInv'
  BY DEF TypeOK, GenInv, LocalsInv, WritesInv, Active
<1> QED BY <1>1, <1>2, <1>3, <1>4, <1>5

\* The Get of an attempt.
LEMMA ReGetInv == ASSUME IInv, NEW o \in Ops, ReGet(o) PROVE IInv'
<1> USE DEF IInv, ReGet, cluster, history, Goto
<1>1. TypeOK'
  BY NoCopyFacts, CopyType, TriesAssumption DEF TypeOK, LocalsInv, Active, Final
<1>2. CopyFaithful'
  BY NoCopyFacts DEF TypeOK, CopyFaithful, GenInv, Copy, Copies
<1>3. LocalsInv'
  BY TriesAssumption DEF TypeOK, LocalsInv, Active, Final
<1>4. WritesInv'
  BY TriesAssumption DEF TypeOK, LocalsInv, WritesInv, Active
<1>5. GenInv'
  BY DEF TypeOK, GenInv, LocalsInv, WritesInv, Active
<1> QED BY <1>1, <1>2, <1>3, <1>4, <1>5

\* A refused Update.
LEMMA UpdateConflictInv == ASSUME IInv, NEW o \in Ops, UpdateConflict(o) PROVE IInv'
<1> USE DEF IInv, UpdateConflict, cluster, history, Return, Goto
<1>1. TypeOK'
  BY NoCopyFacts, CopyType, TriesAssumption DEF TypeOK, LocalsInv, Active, Final
<1>2. CopyFaithful'
  BY NoCopyFacts DEF TypeOK, CopyFaithful, GenInv, Copy, Copies
<1>3. LocalsInv'
  BY TriesAssumption DEF TypeOK, LocalsInv, Active, Final
<1>4. WritesInv'
  BY TriesAssumption DEF TypeOK, LocalsInv, WritesInv, Active
<1>5. GenInv'
  BY DEF TypeOK, GenInv, LocalsInv, WritesInv, Active
<1> QED BY <1>1, <1>2, <1>3, <1>4, <1>5

\* A command reports success.
LEMMA PollReadyInv == ASSUME IInv, NEW o \in Ops, PollReady(o) PROVE IInv'
<1> USE DEF IInv, PollReady, cluster, history, Return, Goto, RestartReady
<1>1. TypeOK'
  BY NoCopyFacts, CopyType, TriesAssumption DEF TypeOK, LocalsInv, Active, Final
<1>2. CopyFaithful'
  BY NoCopyFacts DEF TypeOK, CopyFaithful, GenInv, Copy, Copies
<1>3. LocalsInv'
  BY TriesAssumption DEF TypeOK, LocalsInv, Active, Final
<1>4. WritesInv'
  BY TriesAssumption DEF TypeOK, LocalsInv, WritesInv, Active
<1>5. GenInv'
  BY DEF TypeOK, GenInv, LocalsInv, WritesInv, Active
<1> QED BY <1>1, <1>2, <1>3, <1>4, <1>5

\* An Update is accepted.
LEMMA UpdateOkInv == ASSUME IInv, NEW o \in Ops, UpdateOk(o) PROVE IInv'
<1> USE DEF UpdateOk, Goto
<1>0. /\ dep' \in [rv : Nat, gen : Nat, tmpl : Templates, replicas : Nat, rev : Nat]
      /\ dep' = dep \/ dep'.rv > dep.rv
      /\ dep'.gen >= dep.gen
      /\ writes' = [writes EXCEPT ![o] = @ + 1]
      /\ wgen' = [wgen EXCEPT ![o] = dep'.gen]
  BY StoreFacts DEF Store
<1>1. TypeOK'
  BY <1>0, NoCopyFacts DEF IInv, TypeOK, Active, Final
<1>2. CopyFaithful'
  BY <1>0, NoCopyFacts DEF IInv, TypeOK, CopyFaithful, GenInv, Copy, Copies
<1>3. LocalsInv'
  BY DEF IInv, TypeOK, LocalsInv, Active, Final
<1>4. WritesInv'
  BY <1>0 DEF IInv, TypeOK, WritesInv
<1>5. GenInv'
  BY <1>0 DEF IInv, TypeOK, GenInv
<1> QED BY <1>1, <1>2, <1>3, <1>4, <1>5 DEF IInv

\* An Update is accepted and its answer lost.
LEMMA UpdateUnackedInv == ASSUME IInv, NEW o \in Ops, UpdateUnacked(o) PROVE IInv'
<1> USE DEF UpdateUnacked, Return, Goto
<1>0. /\ dep' \in [rv : Nat, gen : Nat, tmpl : Templates, replicas : Nat, rev : Nat]
      /\ dep' = dep \/ dep'.rv > dep.rv
      /\ dep'.gen >= dep.gen
      /\ writes' = [writes EXCEPT ![o] = @ + 1]
      /\ wgen' = [wgen EXCEPT ![o] = dep'.gen]
  BY StoreFacts DEF Store
<1>1. TypeOK'
  BY <1>0, NoCopyFacts DEF IInv, TypeOK, Active, Final
<1>2. CopyFaithful'
  BY <1>0, NoCopyFacts DEF IInv, TypeOK, CopyFaithful, GenInv, Copy, Copies
<1>3. LocalsInv'
  BY DEF IInv, TypeOK, LocalsInv, Active, Final
<1>4. WritesInv'
  BY <1>0 DEF IInv, TypeOK, WritesInv
<1>5. GenInv'
  BY <1>0 DEF IInv, TypeOK, GenInv
<1> QED BY <1>1, <1>2, <1>3, <1>4, <1>5 DEF IInv

-----------------------------------------------------------------------------
(***************************************************************************)
(* Steps of the controller.                                                *)
(***************************************************************************)

\* The controller numbers a ReplicaSet: no command is disturbed.
LEMMA SyncRSInv == ASSUME IInv, SyncRS PROVE IInv'
<1> USE DEF SyncRS, commands, history
<1>1. TypeOK'
  <2>1. PICK n \in Revisions \cup {0} :
          rsets' = [t \in DOMAIN rsets \cup {dep.tmpl} |->
                      IF t = dep.tmpl THEN n + 1 ELSE rsets[t]]
    OBVIOUS
  <2>2. n \in Nat
    BY DEF IInv, TypeOK, Revisions
  <2>3. dep.tmpl \in Templates
    BY DEF IInv, TypeOK
  <2>4. /\ DOMAIN rsets' = DOMAIN rsets \cup {dep.tmpl}
        /\ \A t \in DOMAIN rsets' : rsets'[t] \in Nat
    BY <2>1, <2>2 DEF IInv, TypeOK
  <2>5. rsets' \in [DOMAIN rsets' -> Nat]
    BY <2>1, <2>4
  <2> QED BY <2>3, <2>4, <2>5 DEF IInv, TypeOK
<1> QED BY <1>1 DEF IInv, CopyFaithful, LocalsInv, WritesInv, GenInv, Copy

\* The controller writes the revision annotation: a new version, so that
\* every copy read before is recognised as stale.
LEMMA AnnotateInv == ASSUME IInv, Annotate PROVE IInv'
<1> USE DEF Annotate, commands, history
<1>1. rsets[dep.tmpl] \in Nat
  BY DEF IInv, TypeOK
<1>2. /\ dep' \in [rv : Nat, gen : Nat, tmpl : Templates, replicas : Nat, rev : Nat]
      /\ dep'.rv = dep.rv + 1 /\ dep'.gen = dep.gen
  BY <1>1 DEF IInv, TypeOK
<1>3. TypeOK'
  BY <1>2 DEF IInv, TypeOK
<1>4. CopyFaithful'
  BY <1>2 DEF IInv, TypeOK, CopyFaithful, Copies
<1>5. GenInv'
  BY <1>2 DEF IInv, TypeOK, GenInv
<1> QED BY <1>3, <1>4, <1>5 DEF IInv, LocalsInv, WritesInv

\* The controller reports a status: the observed generation does not go
\* back, so a restart that was reported complete stays observed.
LEMMA ReportStatusInv == ASSUME IInv, ReportStatus PROVE IInv'
<1> USE DEF ReportStatus, commands, history
<1>1. /\ dep' \in [rv : Nat, gen : Nat, tmpl : Templates, replicas : Nat, rev : Nat]
      /\ dep'.rv = dep.rv + 1 /\ dep'.gen = dep.gen
  BY DEF IInv, TypeOK
<1>2. /\ status' \in [obs : Nat, updated : Nat, total : Nat, avail : Nat]
      /\ status'.obs = dep.gen
  BY BoundsAssumption DEF IInv, TypeOK
<1>3. TypeOK'
  BY <1>1, <1>2 DEF IInv, TypeOK
<1>4. CopyFaithful'
  BY <1>1 DEF IInv, TypeOK, CopyFaithful, Copies
<1>5. GenInv'
  BY <1>1, <1>2 DEF IInv, TypeOK, GenInv
<1> QED BY <1>3, <1>4, <1>5 DEF IInv, LocalsInv, WritesInv

-----------------------------------------------------------------------------
\* Every step of the specification keeps the inductive invariant.
LEMMA NextInv == IInv /\ [Next]_vars => IInv'
<1> SUFFICES ASSUME IInv, [Next]_vars PROVE IInv'
  OBVIOUS
<1>1. ASSUME NEW o \in Ops, Command(o) PROVE IInv'
  BY <1>1, RejectInv, BeginInv, ExpireInv, FailInv, GetDepInv, ListRSInv, ReGetInv,
     UpdateOkInv, UpdateUnackedInv, UpdateConflictInv, PollReadyInv DEF Command
<1>2. CASE UNCHANGED vars
  BY <1>2 DEF vars, IInv, TypeOK, CopyFaithful, LocalsInv, WritesInv, GenInv, Copy
<1> QED BY <1>1, <1>2, SyncRSInv, AnnotateInv, ReportStatusInv DEF Next, AllReturned

\* Every reachable state satisfies the inductive invariant.
THEOREM Invariance == Spec => []IInv
<1> QED BY InitInv, NextInv, PTL DEF Spec

\* The stored Deployment, the status, the ReplicaSets and the locals of the
\* commands always have their types: no negative replica count is stored,
\* whatever number was typed and however it wrapped.
THEOREM TypeCorrect == Spec => []TypeOK
<1>1. IInv => TypeOK
  BY DEF IInv
<1> QED BY <1>1, Invariance, PTL

\* The optimistic locking the client relies on: a copy that still has the
\* stored version has the stored content.
THEOREM CopiesFaithful == Spec => []CopyFaithful
<1>1. IInv => CopyFaithful
  BY DEF IInv
<1> QED BY <1>1, Invariance, PTL

\* A command changes the Deployment at most once, however often its Update
\* conflicts and even if an answer is lost.
THEOREM Once == Spec => []AppliedOnce
<1>1. IInv => AppliedOnce
  BY DEF IInv, WritesInv, AppliedOnce
<1> QED BY <1>1, Invariance, PTL

\* A restart that reports success was written and seen by the controller.
THEOREM RestartSeen == Spec => []RestartObserved
<1>1. IInv => RestartObserved
  <2> SUFFICES ASSUME IInv, NEW o \in Ops, pc[o] = "ok", req[o].kind = "restart"
               PROVE  writes[o] = 1 /\ wgen[o] <= status.obs
    BY DEF RestartObserved
  <2>1. writes[o] \in {0, 1}
    BY DEF IInv, TypeOK, WritesInv
  <2>2. writes[o] # 0
    BY DEF IInv, WritesInv
  <2> QED BY <2>1, <2>2 DEF IInv, GenInv
<1> QED BY <1>1, Invariance, PTL

\* The only success without a write is the rollback whose attempts ran out.
THEOREM WrittenOrExhausted == Spec => []SuccessWritten
<1>1. IInv => SuccessWritten
  BY DEF IInv, WritesInv, SuccessWritten
<1> QED BY <1>1, Invariance, PTL

\* The action part of NoLostUpdate, for the command that writes.
LEMMA StoreKeeps ==
    ASSUME IInv, NEW o \in Ops, pc[o] = "update", Store(o)
    PROVE  /\ req[o].kind = "scale" => dep'.tmpl = dep.tmpl
           /\ req[o].kind # "scale" => dep'.replicas = dep.replicas
           /\ req[o].kind = "restart" => dep'.tmpl.img = dep.tmpl.img
<1>1. /\ got[o] = Copy
      /\ dep'.tmpl = Desired(o).tmpl /\ dep'.replicas = Desired(o).replicas
  BY StoreFacts
<1>2. got[o].tmpl = dep.tmpl /\ got[o].replicas = dep.replicas
  BY <1>1 DEF Copy
<1>3. dep.tmpl \in Templates
  BY DEF IInv, TypeOK
<1>4. [dep.tmpl EXCEPT !.stamp = o].img = dep.tmpl.img
  BY <1>3 DEF Templates
<1> QED BY <1>1, <1>2, <1>4 DEF Desired

\* A write by one command never undoes what another one stored since the
\* command read the Deployment.
THEOREM NothingLost == Spec => NoLostUpdate
<1> DEFINE Keeps ==
      \A o \in Ops : writes'[o] # writes[o] =>
         /\ req[o].kind = "scale" => dep'.tmpl = dep.tmpl
         /\ req[o].kind # "scale" => dep'.replicas = dep.replicas
         /\ req[o].kind = "restart" => dep'.tmpl.img = dep.tmpl.img
<1>1. IInv /\ [Next]_vars => [Keeps]_vars
  <2> SUFFICES ASSUME IInv, Next PROVE Keeps
    OBVIOUS
  <2>1. ASSUME NEW o \in Ops, Command(o), ~UpdateOk(o), ~UpdateUnacked(o)
        PROVE  writes' = writes
    BY <2>1 DEF Command, Reject, Begin, Expire, Fail, GetDep, ListRS, ReGet,
                UpdateConflict, PollReady, history
  <2>2. ASSUME NEW o \in Ops, UpdateOk(o) \/ UpdateUnacked(o) PROVE Keeps
    <3>1. pc[o] = "update" /\ Store(o)
      BY <2>2 DEF UpdateOk, UpdateUnacked
    <3>2. \A p \in Ops : p # o => writes'[p] = writes[p]
      BY <3>1 DEF Store, IInv, TypeOK
    <3> QED BY <3>1, <3>2, StoreKeeps
  <2>3. CASE SyncRS \/ Annotate \/ ReportStatus \/ AllReturned
    BY <2>3 DEF SyncRS, Annotate, ReportStatus, AllReturned, commands, history, vars
  <2> QED BY <2>1, <2>2, <2>3 DEF Next
<1> QED BY <1>1, Invariance, PTL DEF Spec, NoLostUpdate

\* The controller's numbering keeps what was listed: only the ReplicaSet that
\* is brought back changes its number, to one above all others.
LEMMA SyncRSKeepsNumbers ==
    ASSUME IInv, SyncRS
    PROVE  /\ \A r \in AvailableRevisions' \ AvailableRevisions, q \in AvailableRevisions :
                q.rev < r.rev
           /\ \A q \in AvailableRevisions : Newest(q.rev) => q \in AvailableRevisions'
<1>1. PICK n \in Revisions \cup {0} :
        /\ Newest(n)
        /\ rsets' = [t \in DOMAIN rsets \cup {dep.tmpl} |->
                       IF t = dep.tmpl THEN n + 1 ELSE rsets[t]]
  BY DEF SyncRS
<1>2. n \in Nat /\ \A t \in DOMAIN rsets : rsets[t] \in Nat /\ rsets[t] <= n
  BY <1>1 DEF IInv, TypeOK, Revisions, Newest
<1>3. ASSUME NEW r \in AvailableRevisions' \ AvailableRevisions PROVE r.rev = n + 1
  <2>1. PICK t \in DOMAIN rsets \cup {dep.tmpl} : r = [rev |-> rsets'[t], tmpl |-> t]
    BY <1>1 DEF AvailableRevisions
  <2>2. t = dep.tmpl
    BY <1>1, <2>1 DEF AvailableRevisions
  <2> QED BY <1>1, <2>1, <2>2
<1>4. ASSUME NEW q \in AvailableRevisions, Newest(q.rev) PROVE q \in AvailableRevisions'
  <2>1. PICK t \in DOMAIN rsets : q = [rev |-> rsets[t], tmpl |-> t]
    BY DEF AvailableRevisions
  <2>2. t # dep.tmpl
    BY <1>4, <2>1 DEF SyncRS
  <2>3. t \in DOMAIN rsets' /\ rsets'[t] = rsets[t]
    BY <1>1, <2>2
  <2> QED BY <2>1, <2>3 DEF AvailableRevisions
<1>5. \A q \in AvailableRevisions : q.rev <= n /\ q.rev \in Nat
  BY <1>2 DEF AvailableRevisions
<1> QED BY <1>2, <1>3, <1>4, <1>5

\* A number that /revisions listed keeps its template or is gone, and a
\* rollback to it takes that template.
THEOREM ListedNumbers == Spec => ListedNumberHolds
<1> DEFINE Kept ==
      /\ \A r \in AvailableRevisions' \ AvailableRevisions, q \in AvailableRevisions :
           q.rev < r.rev
      /\ \A q \in AvailableRevisions : Newest(q.rev) => q \in AvailableRevisions'
    Taken ==
      \A o \in Ops : req[o].arg > 0 /\ target'[o] \notin {target[o], NoTemplate} =>
        [rev |-> req[o].arg, tmpl |-> target'[o]] \in AvailableRevisions
<1>1. IInv /\ [Next]_vars => [Kept /\ Taken]_vars
  <2> SUFFICES ASSUME IInv, Next PROVE Kept /\ Taken
    OBVIOUS
  <2>1. CASE rsets' = rsets
    <3>1. AvailableRevisions' = AvailableRevisions
      BY <2>1 DEF AvailableRevisions
    <3>2. Kept
      BY <3>1
    <3>3. CASE target' = target
      BY <3>2, <3>3
    <3>4. ASSUME NEW o \in Ops, Command(o), target' # target PROVE Taken
      <4>1. CASE target' = [target EXCEPT ![o] = NoTemplate]
        BY <4>1 DEF IInv, TypeOK
      <4>2. CASE \E t \in Candidates(o) : target' = [target EXCEPT ![o] = t]
        <5>1. PICK t \in Candidates(o) : target' = [target EXCEPT ![o] = t]
          BY <4>2
        <5>2. req[o].arg > 0 => rsets[t] = req[o].arg /\ t \in DOMAIN rsets
          BY <5>1 DEF Candidates, WantedRevision
        <5> QED BY <5>1, <5>2 DEF AvailableRevisions, IInv, TypeOK
      <4> QED BY <3>4, <4>1, <4>2
              DEF Command, Reject, Begin, Expire, Fail, GetDep, ListRS, ReGet, UpdateOk,
                  UpdateUnacked, UpdateConflict, PollReady, Return
    <3>5. CASE SyncRS \/ Annotate \/ ReportStatus \/ AllReturned
      BY <3>2, <3>3, <3>5 DEF SyncRS, Annotate, ReportStatus, AllReturned, commands, vars
    <3> QED BY <3>2, <3>3, <3>4, <3>5 DEF Next
  <2>2. CASE rsets' # rsets
    <3>1. SyncRS
      BY <2>2 DEF Next, Command, Reject, Begin, Expire, Fail, GetDep, ListRS, ReGet,
                  UpdateOk, UpdateUnacked, UpdateConflict, PollReady, cluster,
                  Annotate, ReportStatus, AllReturned, vars
    <3>2. target' = target
      BY <3>1 DEF SyncRS, commands
    <3> QED BY <3>1, <3>2, SyncRSKeepsNumbers
  <2> QED BY <2>1, <2>2
<1> QED BY <1>1, Invariance, PTL DEF Spec, ListedNumberHolds

-----------------------------------------------------------------------------
(***************************************************************************)
(* The previous revision.                                                  *)
(***************************************************************************)

\* Numbers are used once, and below the newest there is no gap.
NumbersInv ==
    /\ \A s, t \in DOMAIN rsets : rsets[s] = rsets[t] => s = t
    /\ \A t \in DOMAIN rsets : Newest(rsets[t]) /\ DOMAIN rsets # {t} =>
         \E s \in DOMAIN rsets : rsets[s] = rsets[t] - 1

\* The ReplicaSets of a Deployment at rest are numbered from 1 without gaps.
LEMMA InitNumbers == Init => NumbersInv
<1> SUFFICES ASSUME InitCluster PROVE NumbersInv
  BY DEF Init
<1>1. PICK deployed \in SUBSET Images \ {{}} :
        LET hist == {[img |-> i, stamp |-> None] : i \in deployed}
            n == Cardinality(hist)
        IN  /\ rsets \in [hist -> 1..n]
            /\ \A s, t \in hist : rsets[s] = rsets[t] => s = t
  BY DEF InitCluster
<1> DEFINE hist == {[img |-> i, stamp |-> None] : i \in deployed}
           n == Cardinality(hist)
<1>2. IsFiniteSet(hist)
  <2> DEFINE f == [i \in deployed |-> [img |-> i, stamp |-> None]]
  <2>1. IsFiniteSet(deployed)
    BY ImagesAssumption, FS_Subset
  <2>2. f \in Surjection(deployed, hist)
    BY DEF Surjection
  <2> QED BY <2>1, <2>2, FS_Surjection
<1>3. n \in Nat
  BY <1>2, FS_CardinalityType
<1> HIDE DEF hist, n
<1>4. rsets \in [hist -> 1..n] /\ \A s, t \in hist : rsets[s] = rsets[t] => s = t
  BY <1>1 DEF hist, n
<1>5. rsets \in Injection(hist, 1..n)
  BY <1>4 DEF Injection, IsInjective
<1>6. IsFiniteSet(1..n) /\ Cardinality(1..n) = n
  BY <1>3, FS_Interval
<1>7. rsets \in Surjection(hist, 1..n)
  <2>1. Cardinality(hist) = Cardinality(1..n)
    BY <1>6 DEF n
  <2> QED BY <1>5, <1>6, <2>1, FS_Injection
<1>8. ASSUME NEW t \in hist, Newest(rsets[t]), hist # {t}
      PROVE  \E s \in hist : rsets[s] = rsets[t] - 1
  <2>1. PICK u \in hist : u # t
    BY <1>8
  <2>2. rsets[t] \in 1..n /\ rsets[u] \in 1..n /\ rsets[t] # rsets[u]
    BY <1>4, <2>1
  <2>3. rsets[u] <= rsets[t]
    BY <1>4, <1>8 DEF Newest, Revisions
  <2>4. rsets[t] - 1 \in 1..n
    BY <1>3, <2>2, <2>3
  <2> QED BY <1>7, <2>4 DEF Surjection
<1>9. DOMAIN rsets = hist
  BY <1>4
<1> QED BY <1>4, <1>8, <1>9 DEF NumbersInv

\* Bringing a ReplicaSet back leaves the number it follows in place.
LEMMA SyncRSNumbers == ASSUME IInv, NumbersInv, SyncRS PROVE NumbersInv'
<1>1. PICK n \in Revisions \cup {0} :
        /\ Newest(n)
        /\ rsets' = [t \in DOMAIN rsets \cup {dep.tmpl} |->
                       IF t = dep.tmpl THEN n + 1 ELSE rsets[t]]
  BY DEF SyncRS
<1>2. n \in Nat /\ \A t \in DOMAIN rsets : rsets[t] \in Nat /\ rsets[t] <= n
  BY <1>1 DEF IInv, TypeOK, Revisions, Newest
<1>3. /\ DOMAIN rsets' = DOMAIN rsets \cup {dep.tmpl}
      /\ rsets'[dep.tmpl] = n + 1
      /\ \A t \in DOMAIN rsets \ {dep.tmpl} : rsets'[t] = rsets[t]
  BY <1>1
<1>4. \A s, t \in DOMAIN rsets' : rsets'[s] = rsets'[t] => s = t
  BY <1>2, <1>3 DEF NumbersInv
<1>5. ASSUME NEW t \in DOMAIN rsets', Newest(rsets[t])', DOMAIN rsets' # {t}
      PROVE  \E s \in DOMAIN rsets' : rsets'[s] = rsets'[t] - 1
  <2>1. n + 1 <= rsets'[t]
    BY <1>3, <1>5 DEF Newest, Revisions
  <2>2. t = dep.tmpl
    BY <1>2, <1>3, <2>1
  <2>3. PICK u \in DOMAIN rsets : u # dep.tmpl
    BY <1>3, <1>5, <2>2
  <2>4. n \in Revisions
    BY <1>2, <2>3 DEF Revisions
  <2>5. PICK s \in DOMAIN rsets : rsets[s] = n
    BY <2>4 DEF Revisions
  <2>6. s # dep.tmpl
    BY <1>1, <2>5 DEF SyncRS
  <2> QED BY <1>2, <1>3, <2>2, <2>5, <2>6
<1> QED BY <1>4, <1>5 DEF NumbersInv

\* Only the controller numbers ReplicaSets.
LEMMA NumbersStep == IInv /\ NumbersInv /\ [Next]_vars => NumbersInv'
<1> SUFFICES ASSUME IInv, NumbersInv, [Next]_vars PROVE NumbersInv'
  OBVIOUS
<1>1. CASE SyncRS
  BY <1>1, SyncRSNumbers
<1>2. CASE ~SyncRS
  <2>1. rsets' = rsets
    BY <1>2 DEF Next, Command, Reject, Begin, Expire, Fail, GetDep, ListRS, ReGet,
                UpdateOk, UpdateUnacked, UpdateConflict, PollReady, cluster,
                Annotate, ReportStatus, AllReturned, vars
  <2> QED BY <2>1 DEF NumbersInv, Newest, Revisions
<1> QED BY <1>1, <1>2

\* A rollback to the previous revision that read an up-to-date annotation
\* finds exactly one ReplicaSet, whatever gaps earlier rollbacks left.
THEOREM PreviousIsThere == Spec => []PreviousFound
<1>1. Spec => []NumbersInv
  BY InitNumbers, NumbersStep, Invariance, PTL DEF Spec
<1>2. IInv /\ NumbersInv => PreviousFound
  <2> SUFFICES ASSUME IInv, NumbersInv, NEW o \in Ops,
                      req[o].arg <= 0, Fresh(o), Cardinality(DOMAIN rsets) >= 2,
                      dep.rev \in Revisions, Newest(dep.rev), req[o] \in Requests
               PROVE  Cardinality(Candidates(o)) = 1
    BY DEF PreviousFound, IInv, LocalsInv, Active
  <2>1. got[o].rev = dep.rev
    BY DEF IInv, CopyFaithful, Fresh, Copy
  <2>2. WantedRevision(o) = dep.rev - 1
    <3>1. req[o].arg \in Int
      BY RequestFacts
    <3>2. ~(req[o].arg > 0)
      BY <3>1
    <3> QED BY <2>1, <3>2 DEF WantedRevision
  <2>3. PICK t \in DOMAIN rsets : rsets[t] = dep.rev
    BY DEF Revisions
  <2>4. DOMAIN rsets # {t}
    <3>1. Cardinality({t}) = 1
      BY FS_Singleton
    <3> QED BY <3>1
  <2>5. PICK s \in DOMAIN rsets : rsets[s] = dep.rev - 1
    BY <2>3, <2>4 DEF NumbersInv
  <2>6. Candidates(o) = {s}
    BY <2>2, <2>5 DEF Candidates, NumbersInv
  <2> QED BY <2>6, FS_Singleton
<1> QED BY <1>1, <1>2, Invariance, PTL
=============================================================================
