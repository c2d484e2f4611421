----------------------- MODULE TemplateLifecycleSteps ------------------------
(***************************************************************************)
(* What one step of the system does: it uses the work queue as RetryQueue  *)
(* allows, it keeps the types, it changes an object as TemplateStatus      *)
(* allows, and it hashes only what a worker went through.                  *)
(* TemplateLifecycleProofs has the theorems that follow.                   *)
(***************************************************************************)
EXTENDS TemplateLifecycle, TLAPS

\* How long, in seconds, the provers may try a leaf.
USE SMTT(15), ZenonT(20)

\* Of a worker's steps only Dequeue, Requeue and Done touch the queue, and
\* Requeue is called only by a worker with retries left: it is a Fail.
LEMMA WorkerUsesQueue ==
  ASSUME NEW w \in Workers, Worker(w)
  PROVE  Q!Next \/ UNCHANGED Q!vars
<1>1. CASE Dequeue(w)
  BY <1>1 DEF Dequeue, Q!Next
<1>2. CASE Requeue(w)
  <2>1. Q!Requeue(w) /\ ~CyclesExhausted(item[held[w]])
    BY <1>2 DEF Requeue
  <2>2. held[w] # NoItem
    BY <2>1 DEF Q!Requeue
  <2>3. Q!CyclesExhausted(item[held[w]]) = CyclesExhausted(item[held[w]])
    BY DEF Q!CyclesExhausted, CyclesExhausted
  <2> QED
    BY <2>1, <2>2, <2>3 DEF Q!Fail, Q!Next
<1>3. CASE Done(w)
  BY <1>3 DEF Done, Q!Next
<1>4. CASE GetTemplate(w) \/ SetProcessing(w) \/ GetPolicy(w) \/ ApplyTemplate(w)
  BY <1>4 DEF GetTemplate, SetProcessing, GetPolicy, ApplyTemplate, queueVars, Q!vars
<1>5. CASE LoopEnds(w) \/ SetRejected(w) \/ Continue(w) \/ DeleteForReplace(w)
  BY <1>5 DEF LoopEnds, SetRejected, Continue, DeleteForReplace, queueVars, Q!vars
<1>6. CASE ApplyAfterReplace(w) \/ SetFailed(w) \/ SetCompleted(w) \/ OutOfRetries(w) \/ SetPaused(w)
  BY <1>6 DEF ApplyAfterReplace, SetFailed, SetCompleted, OutOfRetries, SetPaused, queueVars, Q!vars
<1> QED
  BY <1>1, <1>2, <1>3, <1>4, <1>5, <1>6 DEF Worker

\* The reconciler only ever enqueues the key it took, with priority 0.
LEMMA ReconcilerUsesQueue ==
  ASSUME cpc = "enqueue" => cname \in Names,
         Reconciler \/ (\E n \in Names : Reconcile(n))
  PROVE  Q!Next \/ UNCHANGED Q!vars
<1>1. CASE Enqueue
  BY <1>1, ZeroAssumption DEF Enqueue, Q!Next
<1>2. CASE SetQueued \/ DriftTemplate \/ DriftEnds
  BY <1>2 DEF SetQueued, DriftTemplate, DriftEnds, queueVars, Q!vars
<1>3. ASSUME NEW n \in Names, Reconcile(n)
      PROVE  UNCHANGED Q!vars
  BY <1>3 DEF Reconcile, ReconcileNothing, ReconcilePaused, ReconcileFailed,
              ReconcileCompleted, ReconcileNew, queueVars, Q!vars
<1> QED
  BY <1>1, <1>2, <1>3 DEF Reconciler

\* Users, timers and the informer do not touch the queue; a restart resets it.
LEMMA WorldUsesQueue ==
  ASSUME Environment \/ (\E n \in Names : CacheSync(n) \/ Timers(n))
  PROVE  Q!Init' \/ UNCHANGED Q!vars
<1>1. CASE Crash
  BY <1>1 DEF Crash, Q!Init
<1>2. ASSUME NEW n \in Names, NEW v \in Specs, Create(n, v) \/ Edit(n, v)
      PROVE  UNCHANGED Q!vars
  BY <1>2 DEF Create, Edit, Components, queueVars, Q!vars
<1>3. ASSUME NEW n \in Names, Annotate(n) \/ Delete(n) \/ CacheSync(n) \/ Timers(n)
      PROVE  UNCHANGED Q!vars
  BY <1>3 DEF Annotate, Delete, CacheSync, Timers, RetryFires, PeriodicFires, Age,
              Components, queueVars, Q!vars
<1>4. ASSUME NEW n \in Names, NEW k \in Kinds, NEW r \in {Absent, Foreign}, Tamper(n, k, r)
      PROVE  UNCHANGED Q!vars
  BY <1>4 DEF Tamper, Components, queueVars, Q!vars
<1> QED
  BY <1>1, <1>2, <1>3, <1>4 DEF Environment

-----------------------------------------------------------------------------

\* While Reconcile runs its key is the name of a template.
CtrlKey == cpc # "idle" => cname \in Names

\* Every step of the system keeps it.
LEMMA NextCtrlKey == CtrlKey /\ [Next]_vars => CtrlKey'
<1> SUFFICES ASSUME CtrlKey, [Next]_vars PROVE CtrlKey'
  OBVIOUS
<1>1. CASE UNCHANGED <<cpc, cname>>
  BY <1>1 DEF CtrlKey
<1>2. ASSUME NEW w \in Workers, Worker(w) PROVE UNCHANGED <<cpc, cname>>
  <2>1. CASE Dequeue(w) \/ GetTemplate(w) \/ SetProcessing(w) \/ GetPolicy(w)
    BY <2>1 DEF Dequeue, GetTemplate, SetProcessing, GetPolicy, Outside, ctrlVars
  <2>2. CASE ApplyTemplate(w) \/ LoopEnds(w) \/ SetRejected(w) \/ Continue(w)
    BY <2>2 DEF ApplyTemplate, LoopEnds, SetRejected, Continue, Outside, ctrlVars
  <2>3. CASE DeleteForReplace(w) \/ ApplyAfterReplace(w) \/ SetFailed(w) \/ SetCompleted(w)
    BY <2>3 DEF DeleteForReplace, ApplyAfterReplace, SetFailed, SetCompleted, Outside, ctrlVars
  <2>4. CASE Requeue(w) \/ OutOfRetries(w) \/ SetPaused(w) \/ Done(w)
    BY <2>4 DEF Requeue, OutOfRetries, SetPaused, Done, Outside, ctrlVars
  <2> QED
    BY <1>2, <2>1, <2>2, <2>3, <2>4 DEF Worker
<1>3. ASSUME NEW n \in Names, Reconcile(n) PROVE CtrlKey'
  <2>1. CASE ReconcileNothing(n)
    BY <2>1 DEF ReconcileNothing, ReturnNothing, ReturnError, Return, CtrlKey
  <2>2. ASSUME NEW o, UpdateThenEnqueue(n, o) PROVE CtrlKey'
    BY <2>2 DEF UpdateThenEnqueue, Proceed, ReturnError, Return, CtrlKey
  <2>3. CASE ReconcilePaused(n)
    BY <2>2, <2>3 DEF ReconcilePaused, ReturnNothing, Return, CtrlKey
  <2>4. CASE ReconcileFailed(n)
    BY <2>2, <2>4 DEF ReconcileFailed, ReturnNothing, Return, CtrlKey
  <2>5. CASE ReconcileCompleted(n)
    BY <2>2, <2>5 DEF ReconcileCompleted, PopulateHash, StartDrift, Proceed,
                      ReturnPeriodic, Return, CtrlKey
  <2>6. CASE ReconcileNew(n)
    BY <2>6 DEF ReconcileNew, Proceed, CtrlKey
  <2> QED
    BY <1>3, <2>1, <2>3, <2>4, <2>5, <2>6 DEF Reconcile
<1>4. CASE Reconciler
  <2>1. CASE SetQueued
    BY <2>1 DEF SetQueued, ReturnError, Return, CtrlKey
  <2>2. CASE Enqueue
    BY <2>2 DEF Enqueue, ReturnNothing, Return, CtrlKey
  <2>3. CASE DriftTemplate
    BY <2>3 DEF DriftTemplate, CtrlKey
  <2>4. CASE DriftEnds
    BY <2>4 DEF DriftEnds, ReturnPeriodic, Return, CtrlKey
  <2> QED
    BY <1>4, <2>1, <2>2, <2>3, <2>4 DEF Reconciler
<1>5. ASSUME NEW n \in Names, CacheSync(n) \/ Timers(n) PROVE UNCHANGED <<cpc, cname>>
  BY <1>5 DEF CacheSync, Timers, RetryFires, PeriodicFires, Age, Components, ctrlVars
<1>6. CASE Environment
  <2>1. CASE Crash
    BY <2>1 DEF Crash, CtrlKey
  <2>2. CASE ~Crash
    BY <1>1, <1>6, <2>2 DEF Environment, Create, Edit, Annotate, Delete, Tamper, Components, ctrlVars
  <2> QED
    BY <2>1, <2>2
<1> QED
  BY <1>1, <1>2, <1>3, <1>4, <1>5, <1>6 DEF Next, vars, ctrlVars

\* Every step of the system is a step of the queue, a restart of it, or leaves
\* it alone.
LEMMA StepUsesQueue == CtrlKey /\ [Next]_vars => [Q!Next \/ Q!Init']_Q!vars
<1> SUFFICES ASSUME CtrlKey, [Next]_vars PROVE Q!Next \/ Q!Init' \/ UNCHANGED Q!vars
  OBVIOUS
<1>1. CASE UNCHANGED vars
  BY <1>1 DEF vars, queueVars, Q!vars
<1>2. CASE Next
  <2>1. cpc = "enqueue" => cname \in Names
    BY DEF CtrlKey
  <2> QED
    BY <1>2, <2>1, WorkerUsesQueue, ReconcilerUsesQueue, WorldUsesQueue DEF Next
<1> QED
  BY <1>1, <1>2

-----------------------------------------------------------------------------
\* What is known of the queue in every state of the system.
QInv == Q!TypeOK /\ Q!SingleOwner /\ Q!MapPointsIntoHeap

\* A queued or held pointer points to a work item with a template's name.
LEMMA QueueItems ==
  ASSUME QInv
  PROVE  /\ \A i \in items : i \in Ids /\ item[i] \in WorkItem /\ item[i].name \in Names
         /\ \A w \in Workers : held[w] # NoItem =>
              held[w] \in Ids /\ item[held[w]] \in WorkItem /\ Name(w) \in Names
BY DEF QInv, Q!TypeOK, Q!SingleOwner, Q!Busy, Q!WorkItem, Q!CycleBound, WorkItem, CycleBound, Name

-----------------------------------------------------------------------------
(* Type correctness.  A worker's and the reconciler's local variables are  *)
(* typed by where they are: what they write to an object or a resource is  *)
(* something they have read from one.                                      *)

Labels == {"idle", "get", "setProcessing", "policy", "apply", "setRejected", "rejected",
           "delete", "recreate", "setFailed", "setCompleted", "fail", "setPaused",
           "done", "dropped"}

\* Between the first Get and the end of processItem kubeTemplate has a spec, in
\* the loop so have the templates it ranges over.
Fetched == {"setProcessing", "policy", "apply", "setRejected", "rejected", "delete",
            "recreate", "setFailed", "setCompleted"}
Looping == {"apply", "setRejected", "rejected", "delete", "recreate"}

RegType == [spec: Specs \cup {0}, tmpl: Specs \cup {0}, k: Nat, tries: Nat,
            hash: Specs \cup {NoHash}]

\* Each worker: it holds an item unless it is idle, and its variables.
RegInv ==
  /\ pc \in [Workers -> Labels] /\ reg \in [Workers -> RegType]
  /\ \A w \in Workers :
       /\ pc[w] = "idle" <=> held[w] = NoItem
       /\ pc[w] \in Fetched => reg[w].spec \in Specs
       /\ pc[w] \in Looping => reg[w].tmpl \in Specs
       /\ pc[w] = "setCompleted" => reg[w].hash \in Specs

\* The reconciler: it has a key unless it is idle; drift is looked for only in
\* a Completed object.
CtrlInv ==
  /\ cpc \in {"idle", "new", "enqueue", "drift"}
  /\ IF cpc = "idle" THEN cname = NoObj ELSE cname \in Names
  /\ DOMAIN creg = {"obj", "k", "tries", "drift"}
  /\ cpc = "drift" => creg.obj \in Object /\ creg.obj.phase = "Completed"

ChangeKinds == {"create", "delete", "spec", "annotation", "status"}

\* The objects and what the reconciler knows of them.
ObjectInv ==
  /\ api \in [Names -> Object \cup {NoObj}]
  /\ unseen \in [Names -> SUBSET ChangeKinds]
  /\ ctrlFresh \in BOOLEAN

ResInv == res \in [Names -> [Kinds -> Resource]]

\* The informer's copies, the keys, and what no step changes.
WorldInv ==
  /\ verdict \in [Specs -> [Kinds -> Verdicts]]
  /\ cache \in [Names -> Object \cup {NoObj}]
  /\ pending \cup retryLater \cup periodic \cup gaveUp \subseteq Names

Typed == RegInv /\ CtrlInv /\ ObjectInv /\ ResInv /\ WorldInv

\* The parts make up the type invariant.
LEMMA TypedTypeOK == QInv /\ Typed => TypeOK
BY NoObjAssumption DEF QInv, Typed, RegInv, CtrlInv, ObjectInv, ResInv, WorldInv, ChangeKinds, TypeOK

\* What applies, deletions and other people make of a resource is one.
LEMMA ResourceUpdates ==
  /\ Nothing \in Resource
  /\ \A v \in Specs : Labelled(v) \in Resource /\ Raw(v) \in Resource
  /\ \A r \in Resource : [r EXCEPT !.holds = Foreign] \in Resource
BY DEF Nothing, Labelled, Raw, Resource

\* The initial state is typed.
LEMMA InitTyped == Init => Typed
<1> SUFFICES ASSUME Init PROVE Typed
  OBVIOUS
<1> USE SpecsAssumption
<1>1. RegInv
  BY DEF Init, Q!Init, RegInv, Labels, Fetched, Looping, RegType, NoReg, NoHash
<1>2. CtrlInv
  BY DEF Init, CtrlInv, NoCtrl
<1>3. PICK v \in Specs :
        /\ api = [n \in Names |-> IF Upgraded THEN [NewObject(v) EXCEPT !.phase = "Completed"]
                                              ELSE NoObj]
        /\ res = [n \in Names |-> [k \in Kinds |-> IF Upgraded THEN Labelled(v) ELSE Nothing]]
  BY DEF Init
<1>4. [NewObject(v) EXCEPT !.phase = "Completed"] \in Object
  BY DEF NewObject, Object, Phases, NoHash
<1>5. api \in [Names -> Object \cup {NoObj}]
  BY <1>3, <1>4
<1>6. ObjectInv
  BY <1>5 DEF Init, ObjectInv, ChangeKinds
<1>7. ResInv
  BY <1>3, ResourceUpdates DEF ResInv
<1>8. WorldInv
  BY DEF Init, WorldInv
<1> QED
  BY <1>1, <1>2, <1>6, <1>7, <1>8 DEF Typed

\* An object with another phase, hash, spec, annotation or time is an object.
LEMMA ObjectUpdates ==
  ASSUME NEW o \in Object
  PROVE  /\ \A p \in Phases : [o EXCEPT !.phase = p] \in Object /\ [o EXCEPT !.phase = p].phase = p
         /\ \A p \in Phases, h \in Specs : 
              /\ [o EXCEPT !.phase = p, !.hash = h] \in Object
              /\ [o EXCEPT !.phase = p, !.hash = h].phase = p
         /\ \A h \in Specs : [o EXCEPT !.hash = h] \in Object /\ [o EXCEPT !.hash = h].phase = o.phase
         /\ \A v \in Specs : [o EXCEPT !.spec = v] \in Object /\ [o EXCEPT !.spec = v].phase = o.phase
         /\ \A t \in {"recent", "old"} : 
              /\ [o EXCEPT !.reconciled = t] \in Object
              /\ [o EXCEPT !.reconciled = t].phase = o.phase
         /\ [o EXCEPT !.resume = ~@] \in Object /\ [o EXCEPT !.resume = ~@].phase = o.phase
         /\ o.spec \in Specs /\ o.phase \in Phases
BY DEF Object

\* Writing an object, or deleting it, keeps the objects typed.
LEMMA ChangeTyped ==
  ASSUME ObjectInv, NEW n \in Names, NEW o \in Object \cup {NoObj}, NEW c \in ChangeKinds,
         Change(n, o, c)
  PROVE  ObjectInv'
BY DEF ObjectInv, Change

\* A worker that moves on keeps the workers typed if its own variables are.
LEMMA WorkerMoves ==
  ASSUME RegInv, NEW w \in Workers, NEW l \in Labels \ {"idle"}, pc[w] # "idle",
         Goto(w, l), held' = held,
         NEW r \in RegType, reg' = [reg EXCEPT ![w] = r],
         l \in Fetched => r.spec \in Specs,
         l \in Looping => r.tmpl \in Specs,
         l = "setCompleted" => r.hash \in Specs
  PROVE  RegInv'
BY DEF RegInv, Goto

\* What a status update of a worker does to its own variables: the spec it
\* refetched replaces the one it had.
LEMMA StatusReg ==
  ASSUME RegInv, WorldInv, NEW w \in Workers, Name(w) \in Names,
         NEW new, NEW ok, NEW err, UpdateStatus(w, new, ok, err)
  PROVE  \E r \in RegType :
           /\ reg' = [reg EXCEPT ![w] = r]
           /\ r.tmpl = reg[w].tmpl /\ r.hash = reg[w].hash /\ r.k = reg[w].k
           /\ r.spec = reg[w].spec \/ r.spec \in Specs
<1> DEFINE o == cache[Name(w)]
           Good(r) == /\ r.tmpl = reg[w].tmpl /\ r.hash = reg[w].hash /\ r.k = reg[w].k
                      /\ r.spec = reg[w].spec \/ r.spec \in Specs
<1>1. reg[w] \in RegType /\ reg \in [Workers -> RegType]
  BY DEF RegInv
<1>2. o # NoObj => o.spec \in Specs
  BY DEF WorldInv, Object
<1>3. ASSUME NEW t \in Nat, reg' = [reg EXCEPT ![w].tries = t]
      PROVE  \E r \in RegType : reg' = [reg EXCEPT ![w] = r] /\ Good(r)
  <2> DEFINE r == [reg[w] EXCEPT !.tries = t]
  <2>1. r \in RegType /\ Good(r)
    BY <1>1 DEF RegType
  <2>2. reg' = [reg EXCEPT ![w] = r]
    BY <1>1, <1>3
  <2> QED
    BY <2>1, <2>2
<1>4. ASSUME NEW t \in Nat, o # NoObj, reg' = [reg EXCEPT ![w].spec = o.spec, ![w].tries = t]
      PROVE  \E r \in RegType : reg' = [reg EXCEPT ![w] = r] /\ Good(r)
  <2> DEFINE r == [reg[w] EXCEPT !.spec = o.spec, !.tries = t]
  <2>1. r \in RegType /\ Good(r)
    BY <1>1, <1>2, <1>4 DEF RegType
  <2>2. reg' = [reg EXCEPT ![w] = r]
    BY <1>1, <1>4
  <2> QED
    BY <2>1, <2>2
<1>5. PICK u \in Nat : u = reg[w].tries + 1
  BY <1>1 DEF RegType
<1>6. \/ reg' = [reg EXCEPT ![w].tries = 0]
      \/ \E t \in {0, u} : o # NoObj /\ reg' = [reg EXCEPT ![w].spec = o.spec, ![w].tries = t]
  BY <1>5 DEF UpdateStatus
<1>7. CASE reg' = [reg EXCEPT ![w].tries = 0]
  BY <1>3, <1>7
<1>8. CASE \E t \in {0, u} : o # NoObj /\ reg' = [reg EXCEPT ![w].spec = o.spec, ![w].tries = t]
  BY <1>2, <1>4, <1>8
<1> QED
  BY <1>6, <1>7, <1>8

\* A status update writes the object the worker has cached, or writes nothing.
LEMMA StatusWrite ==
  ASSUME NEW w \in Workers, NEW new, NEW ok, NEW err, UpdateStatus(w, new, ok, err)
  PROVE  \/ /\ Exists(Name(w)) /\ cache[Name(w)] # NoObj
            /\ Change(Name(w), new, "status") /\ Goto(w, ok)
         \/ UNCHANGED objectVars /\ (\E l \in {err, pc[w]} : Goto(w, l))
BY DEF UpdateStatus

\* A status update keeps workers and objects typed.
LEMMA StatusTyped ==
  ASSUME Typed, NEW w \in Workers, Name(w) \in Names, pc[w] # "idle", held' = held,
         NEW new, cache[Name(w)] # NoObj => new \in Object,
         NEW ok \in Labels \ {"idle"}, NEW err \in Labels \ {"idle"},
         \A l \in {ok, err} : /\ l \in Fetched => pc[w] \in Fetched
                              /\ l \in Looping => pc[w] \in Looping
                              /\ l = "setCompleted" => pc[w] = "setCompleted",
         UpdateStatus(w, new, ok, err)
  PROVE  RegInv' /\ ObjectInv'
<1>1. PICK r \in RegType :
        /\ reg' = [reg EXCEPT ![w] = r]
        /\ r.tmpl = reg[w].tmpl /\ r.hash = reg[w].hash /\ r.k = reg[w].k
        /\ r.spec = reg[w].spec \/ r.spec \in Specs
  BY StatusReg DEF Typed
<1>2. PICK l \in {ok, err, pc[w]} : Goto(w, l)
  BY StatusWrite
<1>3. RegInv'
  <2>1. l \in Labels \ {"idle"}
    BY DEF Typed, RegInv
  <2>2. /\ l \in Fetched => r.spec \in Specs
        /\ l \in Looping => r.tmpl \in Specs
        /\ l = "setCompleted" => r.hash \in Specs
    BY <1>1, <1>2 DEF Typed, RegInv
  <2> QED
    BY <1>1, <1>2, <2>1, <2>2, WorkerMoves DEF Typed
<1>4. ObjectInv'
  <2>1. CASE UNCHANGED objectVars
    BY <2>1 DEF Typed, ObjectInv, objectVars
  <2>2. CASE cache[Name(w)] # NoObj /\ Change(Name(w), new, "status")
    BY <2>2, ChangeTyped DEF Typed, ChangeKinds
  <2> QED
    BY <2>1, <2>2, StatusWrite
<1> QED
  BY <1>3, <1>4

\* What a worker with an item knows of it and of its own variables.
LEMMA AtWork ==
  ASSUME QInv, Typed, NEW w \in Workers, pc[w] # "idle"
  PROVE  /\ Name(w) \in Names /\ held[w] # NoItem
         /\ reg \in [Workers -> RegType] /\ reg[w] \in RegType /\ reg[w].k \in Nat
         /\ pc[w] \in Fetched => reg[w].spec \in Specs
         /\ pc[w] \in Looping => reg[w].tmpl \in Specs
         /\ pc[w] = "setCompleted" => reg[w].hash \in Specs
BY QueueItems DEF Typed, RegInv, RegType

\* On with the next template: only the loop's index changes.
LEMMA NextTemplateReg ==
  ASSUME RegInv, NEW w \in Workers, NextTemplate(w)
  PROVE  \E r \in RegType :
           /\ reg' = [reg EXCEPT ![w] = r]
           /\ r.spec = reg[w].spec /\ r.tmpl = reg[w].tmpl
<1>1. reg \in [Workers -> RegType] /\ reg[w] \in RegType
  BY DEF RegInv
<1>2. PICK u \in Nat : u = reg[w].k + 1
  BY <1>1 DEF RegType
<1> DEFINE r == [reg[w] EXCEPT !.k = u]
<1>3. r \in RegType /\ r.spec = reg[w].spec /\ r.tmpl = reg[w].tmpl
  BY <1>1 DEF RegType
<1>4. reg' = [reg EXCEPT ![w] = r]
  BY <1>1, <1>2 DEF NextTemplate
<1> QED
  BY <1>3, <1>4

\* Dequeue, Requeue and Done: the worker gets an item or gives it back.
LEMMA QueueStepTyped ==
  ASSUME QInv, Typed, NEW w \in Workers, Dequeue(w) \/ Requeue(w) \/ Done(w)
  PROVE  Typed'
<1> USE PoolAssumption, SpecsAssumption
<1>1. CASE Dequeue(w)
  <2>1. PICK i \in items : held' = [held EXCEPT ![w] = i]
    BY <1>1 DEF Dequeue, Q!Dequeue
  <2>2. i # NoItem
    BY DEF QInv, Q!TypeOK
  <2>3. held \in [Workers -> Ids \cup {NoItem}]
    BY DEF QInv, Q!TypeOK
  <2>4. RegInv'
    BY <1>1, <2>1, <2>2, <2>3 DEF Dequeue, Goto, Typed, RegInv, Labels, Fetched, Looping
  <2> QED
    BY <1>1, <2>4 DEF Dequeue, Typed, CtrlInv, ObjectInv, ResInv, WorldInv, objectVars, Outside,
                      ctrlVars, timerVars
<1>2. CASE Requeue(w) \/ Done(w)
  <2>1. held \in [Workers -> Ids \cup {NoItem}]
    BY DEF QInv, Q!TypeOK
  <2>2. /\ held' = [held EXCEPT ![w] = NoItem] /\ Goto(w, "idle")
        /\ reg' = [reg EXCEPT ![w] = NoReg]
    BY <1>2 DEF Requeue, Done, Q!Requeue, Q!Done
  <2>3. NoReg \in RegType
    BY DEF NoReg, RegType
  <2>4. RegInv'
    BY <2>1, <2>2, <2>3 DEF Goto, Typed, RegInv, Labels, Fetched, Looping
  <2>5. gaveUp' \subseteq gaveUp \cup {Name(w)}
    BY <1>2 DEF Requeue, Done
  <2>6. Name(w) \in Names
    <3>1. pc[w] # "idle"
      BY <1>2 DEF Requeue, Done
    <3> QED
      BY <3>1, AtWork
  <2> QED
    BY <1>2, <2>4, <2>5, <2>6 DEF Requeue, Done, Typed, CtrlInv, ObjectInv, ResInv, WorldInv,
                      objectVars, Outside, ctrlVars, timerVars
<1> QED
  BY <1>1, <1>2

\* The status updates of a worker.
LEMMA StatusStepTyped ==
  ASSUME QInv, Typed, NEW w \in Workers,
         \/ SetProcessing(w) \/ SetRejected(w) \/ SetFailed(w) \/ SetCompleted(w) \/ SetPaused(w)
  PROVE  Typed'
<1>1. pc[w] # "idle" /\ held' = held
  BY DEF SetProcessing, SetRejected, SetFailed, SetCompleted, SetPaused, queueVars
<1>2. Name(w) \in Names /\ (pc[w] = "setCompleted" => reg[w].hash \in Specs)
  BY <1>1, AtWork
<1>3. cache[Name(w)] # NoObj => cache[Name(w)] \in Object
  BY <1>2 DEF Typed, WorldInv
<1>4. \A p \in Phases : cache[Name(w)] # NoObj => [cache[Name(w)] EXCEPT !.phase = p] \in Object
  BY <1>3, ObjectUpdates
<1>5. {"Processing", "Failed", "Completed", "Paused"} \subseteq Phases
  BY DEF Phases
<1>6. RegInv' /\ ObjectInv'
  <2> USE DEF Labels, Fetched, Looping
  <2>1. CASE SetProcessing(w)
    BY <1>1, <1>2, <1>4, <1>5, <2>1, StatusTyped DEF SetProcessing, SetPhase
  <2>2. CASE SetRejected(w)
    BY <1>1, <1>2, <1>4, <1>5, <2>2, StatusTyped DEF SetRejected, SetPhase
  <2>3. CASE SetFailed(w)
    BY <1>1, <1>2, <1>4, <1>5, <2>3, StatusTyped DEF SetFailed, SetPhase
  <2>4. CASE SetPaused(w)
    BY <1>1, <1>2, <1>4, <1>5, <2>4, StatusTyped DEF SetPaused, SetPhase
  <2>5. CASE SetCompleted(w)
    <3> DEFINE new == [cache[Name(w)] EXCEPT !.phase = "Completed", !.hash = reg[w].hash]
    <3>1. pc[w] = "setCompleted" /\ UpdateStatus(w, new, "done", "fail")
      BY <2>5 DEF SetCompleted
    <3>2. cache[Name(w)] # NoObj => new \in Object
      BY <1>2, <1>3, <1>5, <3>1, ObjectUpdates
    <3> HIDE DEF new
    <3> QED
      BY <1>1, <1>2, <3>1, <3>2, StatusTyped
  <2> QED
    BY <2>1, <2>2, <2>3, <2>4, <2>5
<1> QED
  BY <1>6 DEF SetProcessing, SetRejected, SetFailed, SetCompleted, SetPaused, Typed, CtrlInv,
              ResInv, WorldInv, Outside, ctrlVars, timerVars

\* The other steps of a worker: Get, the policy, and the loop over the templates.
LEMMA LocalStepTyped ==
  ASSUME QInv, Typed, NEW w \in Workers,
         \/ GetTemplate(w) \/ GetPolicy(w) \/ ApplyTemplate(w) \/ LoopEnds(w) \/ Continue(w)
         \/ DeleteForReplace(w) \/ ApplyAfterReplace(w) \/ OutOfRetries(w)
  PROVE  Typed'
<1>1. pc[w] # "idle" /\ held' = held
  BY DEF GetTemplate, GetPolicy, ApplyTemplate, LoopEnds, Continue, DeleteForReplace,
         ApplyAfterReplace, OutOfRetries, queueVars
<1>2. /\ Name(w) \in Names
      /\ reg \in [Workers -> RegType] /\ reg[w] \in RegType
      /\ pc[w] \in Fetched => reg[w].spec \in Specs
      /\ pc[w] \in Looping => reg[w].tmpl \in Specs
  BY <1>1, AtWork
<1>3. ASSUME NEW l \in Labels \ {"idle"}, Goto(w, l), UNCHANGED reg,
             l \in Fetched => pc[w] \in Fetched, l \in Looping => pc[w] \in Looping,
             l # "setCompleted"
      PROVE  RegInv'
  BY <1>1, <1>3 DEF Typed, RegInv, Goto
<1>4. ASSUME NextTemplate(w), Goto(w, "apply"), pc[w] \in Fetched, pc[w] \in Looping
      PROVE  RegInv'
  <2>1. PICK r \in RegType : /\ reg' = [reg EXCEPT ![w] = r]
                             /\ r.spec = reg[w].spec /\ r.tmpl = reg[w].tmpl
    BY <1>4, NextTemplateReg DEF Typed
  <2>2. RegInv /\ "apply" \in Labels \ {"idle"}
    BY DEF Typed, Labels
  <2>3. r.spec \in Specs /\ r.tmpl \in Specs
    BY <1>2, <1>4, <2>1
  <2> QED
    BY <1>1, <1>4, <2>1, <2>2, <2>3, WorkerMoves
<1>5. RegInv' /\ ResInv'
  <2> USE DEF Labels, Fetched, Looping
  <2>1. CASE GetTemplate(w)
    <3>1. ResInv'
      BY <2>1 DEF GetTemplate, Typed, ResInv
    <3>2. CASE UNCHANGED reg /\ \E l \in {"done", "fail"} : Goto(w, l)
      BY <1>3, <3>1, <3>2
    <3>3. CASE /\ cache[Name(w)] # NoObj /\ Goto(w, "setProcessing")
               /\ reg' = [reg EXCEPT ![w].spec = cache[Name(w)].spec]
      <4> DEFINE r == [reg[w] EXCEPT !.spec = cache[Name(w)].spec]
      <4>1. cache[Name(w)].spec \in Specs
        BY <1>2, <3>3 DEF Typed, WorldInv, Object
      <4>2. r \in RegType /\ r.spec \in Specs
        BY <1>2, <4>1 DEF RegType
      <4>3. reg' = [reg EXCEPT ![w] = r]
        BY <1>2, <3>3
      <4>4. RegInv /\ "setProcessing" \in Labels \ {"idle"} /\ "setProcessing" \notin Looping
        BY DEF Typed
      <4>5. RegInv'
        <5> HIDE DEF r, Labels, Fetched, Looping
        <5> QED
          BY <1>1, <3>3, <4>2, <4>3, <4>4, WorkerMoves
      <4> QED
        BY <3>1, <4>5
    <3> QED
      BY <2>1, <3>1, <3>2, <3>3 DEF GetTemplate
  <2>2. CASE GetPolicy(w)
    <3>1. ResInv'
      BY <2>2 DEF GetPolicy, Typed, ResInv
    <3>2. CASE UNCHANGED reg /\ Goto(w, "setFailed")
      BY <1>3, <2>2, <3>1, <3>2 DEF GetPolicy
    <3>3. CASE /\ Goto(w, "apply")
               /\ reg' = [reg EXCEPT ![w].tmpl = reg[w].spec, ![w].k = 1]
      <4> DEFINE r == [reg[w] EXCEPT !.tmpl = reg[w].spec, !.k = 1]
      <4>1. reg[w].spec \in Specs
        BY <1>2, <2>2 DEF GetPolicy
      <4>2. r \in RegType /\ r.spec \in Specs /\ r.tmpl \in Specs
        BY <1>2, <4>1 DEF RegType
      <4>3. reg' = [reg EXCEPT ![w] = r]
        BY <1>2, <3>3
      <4>4. RegInv /\ "apply" \in Labels \ {"idle"}
        BY DEF Typed
      <4>5. RegInv'
        <5> HIDE DEF r, Labels, Fetched, Looping
        <5> QED
          BY <1>1, <3>3, <4>2, <4>3, <4>4, "apply" # "setCompleted", WorkerMoves
      <4> QED
        BY <3>1, <4>5
    <3> QED
      BY <2>2, <3>1, <3>2, <3>3 DEF GetPolicy
  <2>3. CASE ApplyTemplate(w)
    <3>1. pc[w] = "apply" /\ reg[w].k \in Kinds /\ reg[w].tmpl \in Specs
      BY <1>2, <2>3 DEF ApplyTemplate
    <3>2. res' = res \/ res' = [res EXCEPT ![Name(w)][reg[w].k] = Labelled(reg[w].tmpl)]
      BY <2>3 DEF ApplyTemplate
    <3>3. ResInv'
      <4>1. CASE res' = res
        BY <4>1 DEF Typed, ResInv
      <4>2. CASE res' = [res EXCEPT ![Name(w)][reg[w].k] = Labelled(reg[w].tmpl)]
        BY <1>2, <3>1, <4>2, ResourceUpdates DEF Typed, ResInv
      <4> QED
        BY <3>2, <4>1, <4>2
    <3>4. CASE NextTemplate(w) /\ UNCHANGED pc
      <4>1. Goto(w, "apply")
        BY <3>1, <3>4 DEF Goto, Typed, RegInv
      <4> QED
        BY <1>4, <3>1, <3>3, <3>4, <4>1
    <3>5. CASE UNCHANGED reg /\ \E l \in {"setRejected", "delete", "setFailed"} : Goto(w, l)
      BY <1>3, <3>1, <3>3, <3>5
    <3> QED
      BY <2>3, <3>4, <3>5 DEF ApplyTemplate
  <2>4. CASE LoopEnds(w)
    <3> DEFINE r == [reg[w] EXCEPT !.hash = reg[w].spec]
    <3>1. reg[w].spec \in Specs
      BY <1>2, <2>4 DEF LoopEnds
    <3>2. r \in RegType /\ r.spec \in Specs /\ r.hash \in Specs
      BY <1>2, <3>1 DEF RegType
    <3>3. reg' = [reg EXCEPT ![w] = r] /\ Goto(w, "setCompleted")
      BY <1>2, <2>4 DEF LoopEnds, calculateSpecHash
    <3>4. RegInv /\ "setCompleted" \in Labels \ {"idle"} /\ "setCompleted" \notin Looping
      BY DEF Typed
    <3>5. RegInv'
      <4> HIDE DEF r, Labels, Fetched, Looping
      <4> QED
        BY <1>1, <3>2, <3>3, <3>4, WorkerMoves
    <3> QED
      BY <2>4, <3>5 DEF LoopEnds, Typed, ResInv
  <2>5. CASE Continue(w)
    BY <1>4, <2>5 DEF Continue, Typed, ResInv
  <2>6. CASE DeleteForReplace(w)
    <3>1. res' = res \/ res' = [res EXCEPT ![Name(w)][reg[w].k] = Nothing]
      BY <2>6 DEF DeleteForReplace
    <3>2. ResInv'
      BY <1>2, <3>1, ResourceUpdates DEF Typed, ResInv
    <3> QED
      BY <1>3, <1>4, <2>6, <3>2 DEF DeleteForReplace
  <2>7. CASE ApplyAfterReplace(w)
    <3>1. pc[w] = "recreate" /\ reg[w].tmpl \in Specs
      BY <1>2, <2>7 DEF ApplyAfterReplace
    <3>2. res' = res \/ res' = [res EXCEPT ![Name(w)][reg[w].k] = Labelled(reg[w].tmpl)]
      BY <2>7 DEF ApplyAfterReplace
    <3>3. ResInv'
      BY <1>2, <3>1, <3>2, ResourceUpdates DEF Typed, ResInv
    <3> QED
      BY <1>4, <2>7, <3>3 DEF ApplyAfterReplace
  <2>8. CASE OutOfRetries(w)
    BY <1>3, <2>8 DEF OutOfRetries, Typed, ResInv
  <2> QED
    BY <2>1, <2>2, <2>3, <2>4, <2>5, <2>6, <2>7, <2>8
<1> QED
  BY <1>5 DEF GetTemplate, GetPolicy, ApplyTemplate, LoopEnds, Continue, DeleteForReplace,
              ApplyAfterReplace, OutOfRetries, Typed, CtrlInv, ObjectInv, WorldInv, objectVars,
              Outside, ctrlVars, timerVars

\* A worker's step keeps everything typed.
LEMMA WorkerTyped ==
  ASSUME QInv, Typed, NEW w \in Workers, Worker(w)
  PROVE  Typed'
BY QueueStepTyped, StatusStepTyped, LocalStepTyped DEF Worker

\* Reconcile ends, or goes on with the object it read.
LEMMA ReturnTyped == Return => CtrlInv'
BY DEF Return, CtrlInv, NoCtrl

\* Going on, it has the key and the object.
LEMMA ProceedTyped ==
  ASSUME NEW n \in Names, NEW o, NEW l \in {"new", "enqueue", "drift"}, NEW k,
         l = "drift" => o \in Object /\ o.phase = "Completed", Proceed(n, o, l, k)
  PROVE  CtrlInv'
<1>1. creg' = [NoCtrl EXCEPT !.obj = o, !.k = k] /\ cpc' = l /\ cname' = n
  BY DEF Proceed
<1>2. DOMAIN creg' = {"obj", "k", "tries", "drift"} /\ creg'.obj = o
  BY <1>1 DEF NoCtrl
<1> QED
  BY <1>1, <1>2 DEF CtrlInv

\* The status update before Enqueue.
LEMMA UpdateThenEnqueueTyped ==
  ASSUME Typed, NEW n \in Names, NEW o \in Object, UpdateThenEnqueue(n, o)
  PROVE  CtrlInv' /\ ObjectInv' /\ retryLater' \cup periodic' \subseteq Names
<1>1. CASE Change(n, o, "status") /\ Proceed(n, o, "enqueue", 0)
  BY <1>1, ProceedTyped, ChangeTyped DEF Typed, WorldInv, ChangeKinds, Proceed
<1>2. CASE UNCHANGED objectVars /\ Proceed(n, o, "enqueue", 0)
  BY <1>2, ProceedTyped DEF Typed, WorldInv, ObjectInv, objectVars, Proceed
<1>3. CASE UNCHANGED objectVars /\ ReturnError(n)
  BY <1>3, ReturnTyped DEF Typed, WorldInv, ObjectInv, objectVars, ReturnError
<1> QED
  BY <1>1, <1>2, <1>3 DEF UpdateThenEnqueue

\* Reconcile's first step keeps everything typed.
LEMMA ReconcileTyped ==
  ASSUME QInv, Typed, NEW n \in Names, Reconcile(n)
  PROVE  Typed'
<1>1. /\ UNCHANGED <<queueVars, res, Inside>> /\ pending' = pending \ {n}
  BY DEF Reconcile, ReconcileNothing, ReconcilePaused, ReconcileFailed, ReconcileCompleted,
         ReconcileNew, Take
<1>2. RegInv' /\ ResInv'
  BY <1>1 DEF Typed, RegInv, ResInv, Inside, queueVars
<1>3. ASSUME CtrlInv', ObjectInv', retryLater' \cup periodic' \subseteq Names
      PROVE  Typed'
  BY <1>1, <1>2, <1>3 DEF Typed, WorldInv, Inside
<1>4. ASSUME UNCHANGED objectVars PROVE ObjectInv'
  BY <1>4 DEF Typed, ObjectInv, objectVars
<1>5. \A o \in {cache[n]} \ {NoObj} : o \in Object
  BY DEF Typed, WorldInv
<1>6. ASSUME ReturnNothing \/ ReturnError(n) \/ ReturnPeriodic(n)
      PROVE  CtrlInv' /\ retryLater' \cup periodic' \subseteq Names
  BY <1>6, ReturnTyped DEF ReturnNothing, ReturnError, ReturnPeriodic, Typed, WorldInv
<1>7. CASE ReconcileNothing(n)
  BY <1>3, <1>4, <1>6, <1>7 DEF ReconcileNothing
<1>8. CASE ReconcilePaused(n)
  <2>1. PICK o \in {cache[n]} \ {NoObj} :
          \/ UpdateThenEnqueue(n, [o EXCEPT !.phase = "Queued"])
          \/ ReturnNothing /\ UNCHANGED objectVars
    BY <1>8 DEF ReconcilePaused
  <2>2. [o EXCEPT !.phase = "Queued"] \in Object
    BY <1>5, ObjectUpdates DEF Phases
  <2> QED
    BY <1>3, <1>4, <1>6, <2>1, <2>2, UpdateThenEnqueueTyped
<1>9. CASE ReconcileFailed(n)
  <2>1. PICK o \in {cache[n]} \ {NoObj} :
          \/ UpdateThenEnqueue(n, [o EXCEPT !.phase = "Queued", !.hash = o.spec])
          \/ ReturnNothing /\ UNCHANGED objectVars
    BY <1>9 DEF ReconcileFailed, calculateSpecHash
  <2>2. [o EXCEPT !.phase = "Queued", !.hash = o.spec] \in Object
    BY <1>5, ObjectUpdates DEF Phases
  <2> QED
    BY <1>3, <1>4, <1>6, <2>1, <2>2, UpdateThenEnqueueTyped
<1>10. CASE ReconcileCompleted(n)
  <2>1. PICK o \in {cache[n]} \ {NoObj} :
          /\ o.phase = "Completed"
          /\ \/ PopulateHash(n, o)
             \/ UpdateThenEnqueue(n, [o EXCEPT !.phase = "Queued", !.hash = o.spec])
             \/ ReturnPeriodic(n) /\ UNCHANGED objectVars
             \/ StartDrift(n, o)
    BY <1>10 DEF ReconcileCompleted, calculateSpecHash
  <2>2. o \in Object /\ o.spec \in Specs
    BY <1>5, ObjectUpdates
  <2>3. [o EXCEPT !.phase = "Queued", !.hash = o.spec] \in Object
    BY <2>2, ObjectUpdates DEF Phases
  <2>4. CASE PopulateHash(n, o)
    <3>1. [o EXCEPT !.hash = o.spec] \in Object
      BY <2>2, ObjectUpdates
    <3>2. \/ Change(n, [o EXCEPT !.hash = o.spec], "status")
          \/ UNCHANGED objectVars
      BY <2>4 DEF PopulateHash, calculateSpecHash
    <3>3. ObjectInv'
      BY <1>4, <3>1, <3>2, ChangeTyped DEF Typed, ChangeKinds
    <3> QED
      BY <1>3, <1>6, <2>4, <3>3 DEF PopulateHash
  <2>5. CASE StartDrift(n, o)
    <3>1. CtrlInv'
      BY <2>1, <2>2, <2>5, ProceedTyped DEF StartDrift
    <3>2. ObjectInv'
      BY <2>5 DEF StartDrift, Synced, Typed, ObjectInv
    <3> QED
      BY <1>3, <2>5, <3>1, <3>2 DEF StartDrift, Proceed, Typed, WorldInv
  <2> QED
    BY <1>3, <1>4, <1>6, <2>1, <2>3, <2>4, <2>5, UpdateThenEnqueueTyped
<1>11. CASE ReconcileNew(n)
  <2>1. PICK o \in {cache[n]}, l \in {"new", "enqueue"} :
          Proceed(n, o, l, 0) /\ UNCHANGED objectVars
    BY <1>11 DEF ReconcileNew
  <2>2. CtrlInv'
    BY <2>1, ProceedTyped
  <2> QED
    BY <1>3, <1>4, <2>1, <2>2 DEF Proceed, Typed, WorldInv
<1> QED
  BY <1>7, <1>8, <1>9, <1>10, <1>11 DEF Reconcile

\* So do its later steps.
LEMMA ReconcilerTyped ==
  ASSUME QInv, Typed, Reconciler
  PROVE  Typed'
<1>1. cpc # "idle" /\ cname \in Names
  BY DEF Reconciler, SetQueued, Enqueue, DriftTemplate, DriftEnds, Typed, CtrlInv
<1>2. held' = held /\ UNCHANGED <<Inside, pending>>
  BY DEF Reconciler, SetQueued, Enqueue, DriftTemplate, DriftEnds, queueVars, timerVars, Q!Enqueue
<1>3. ASSUME CtrlInv', ObjectInv', ResInv', retryLater' \cup periodic' \subseteq Names
      PROVE  Typed'
  BY <1>2, <1>3 DEF Typed, RegInv, WorldInv, Inside
<1>4. ASSUME UNCHANGED objectVars PROVE ObjectInv'
  BY <1>4 DEF Typed, ObjectInv, objectVars
<1>5. ASSUME UNCHANGED res PROVE ResInv'
  BY <1>5 DEF Typed, ResInv
<1>6. ASSUME ReturnNothing \/ ReturnError(cname) \/ ReturnPeriodic(cname)
      PROVE  CtrlInv' /\ retryLater' \cup periodic' \subseteq Names
  BY <1>1, <1>6, ReturnTyped DEF ReturnNothing, ReturnError, ReturnPeriodic, Typed, WorldInv
<1>7. CASE SetQueued
  <2>1. CASE /\ cache[cname] # NoObj
             /\ Change(cname, [cache[cname] EXCEPT !.phase = "Queued"], "status")
             /\ cpc' = "enqueue" /\ UNCHANGED <<cname, creg, retryLater, periodic>>
    <3>0. cache[cname] \in Object
      BY <1>1, <2>1 DEF Typed, WorldInv
    <3>1. [cache[cname] EXCEPT !.phase = "Queued"] \in Object
      BY <3>0, ObjectUpdates DEF Phases
    <3>2. ObjectInv'
      BY <1>1, <2>1, <3>1, ChangeTyped DEF Typed, ChangeKinds
    <3>3. CtrlInv' /\ ResInv' /\ retryLater' \cup periodic' \subseteq Names
      BY <1>1, <1>7, <2>1 DEF SetQueued, Typed, CtrlInv, ResInv, WorldInv
    <3> QED
      BY <1>3, <3>2, <3>3
  <2>2. CASE /\ creg' = [creg EXCEPT !.tries = @ + 1]
             /\ UNCHANGED <<objectVars, cpc, cname, retryLater, periodic>>
    <3>1. CtrlInv'
      <4>1. DOMAIN creg' = DOMAIN creg /\ cpc' = "new" /\ cname' = cname
        BY <1>7, <2>2 DEF SetQueued
      <4> QED
        BY <1>1, <4>1 DEF Typed, CtrlInv
    <3> QED
      BY <1>3, <1>4, <1>5, <1>7, <2>2, <3>1 DEF SetQueued, Typed, WorldInv
  <2>3. CASE ReturnError(cname) /\ UNCHANGED objectVars
    BY <1>3, <1>4, <1>5, <1>6, <1>7, <2>3 DEF SetQueued
  <2> QED
    BY <1>7, <2>1, <2>2, <2>3 DEF SetQueued
<1>8. CASE Enqueue
  BY <1>3, <1>4, <1>5, <1>6, <1>8 DEF Enqueue
<1>9. CASE DriftTemplate
  <2>1. creg.obj.spec \in Specs /\ cpc = "drift"
    BY <1>9, ObjectUpdates DEF DriftTemplate, Typed, CtrlInv
  <2>2. res' = res \/ res' = [res EXCEPT ![cname][creg.k] = Raw(creg.obj.spec)]
    BY <1>9 DEF DriftTemplate
  <2>3. ResInv'
    BY <1>1, <2>1, <2>2, ResourceUpdates DEF Typed, ResInv
  <2>4. DOMAIN creg' = DOMAIN creg /\ creg'.obj = creg.obj
    <3>1. PICK k, d : creg' = [creg EXCEPT !.k = k, !.drift = d] \/ creg' = [creg EXCEPT !.k = k]
      BY <1>9 DEF DriftTemplate
    <3> QED
      BY <3>1 DEF Typed, CtrlInv
  <2>5. CtrlInv'
    BY <1>9, <2>4 DEF DriftTemplate, Typed, CtrlInv
  <2> QED
    BY <1>3, <1>4, <1>9, <2>3, <2>5 DEF DriftTemplate, timerVars, Typed, WorldInv
<1>10. CASE DriftEnds
  <2>1. [creg.obj EXCEPT !.reconciled = "recent"] \in Object
    BY <1>10, ObjectUpdates DEF DriftEnds, Typed, CtrlInv
  <2>2. \/ Change(cname, [creg.obj EXCEPT !.reconciled = "recent"], "status")
        \/ UNCHANGED objectVars
    BY <1>10 DEF DriftEnds
  <2>3. ObjectInv'
    BY <1>1, <1>4, <2>1, <2>2, ChangeTyped DEF Typed, ChangeKinds
  <2> QED
    BY <1>3, <1>5, <1>6, <1>10, <2>3 DEF DriftEnds
<1> QED
  BY <1>7, <1>8, <1>9, <1>10 DEF Reconciler

\* The informer, the timers and time.
LEMMA InformerTyped ==
  ASSUME QInv, Typed, NEW n \in Names, CacheSync(n) \/ Timers(n)
  PROVE  Typed'
<1>1. RegInv' /\ CtrlInv' /\ ResInv' /\ verdict' = verdict
  BY DEF CacheSync, Timers, RetryFires, PeriodicFires, Age, Components, queueVars, ctrlVars,
         Typed, RegInv, CtrlInv, ResInv
<1>2. CASE CacheSync(n)
  BY <1>1, <1>2 DEF CacheSync, Typed, ObjectInv, WorldInv
<1>3. CASE RetryFires(n) \/ PeriodicFires(n)
  BY <1>1, <1>3 DEF RetryFires, PeriodicFires, objectVars, Typed, ObjectInv, WorldInv
<1>4. CASE Age(n)
  <2>1. \A o \in Object \cup {NoObj} : Aged(o) \in Object \cup {NoObj}
    BY ObjectUpdates DEF Aged
  <2> QED
    BY <1>1, <1>4, <2>1 DEF Age, timerVars, Typed, ObjectInv, WorldInv
<1> QED
  BY <1>2, <1>3, <1>4 DEF Timers

\* Users and restarts.
LEMMA EnvironmentTyped ==
  ASSUME QInv, Typed, Environment
  PROVE  Typed'
<1>1. ASSUME NEW n \in Names, NEW o \in Object \cup {NoObj}, NEW c \in ChangeKinds,
             Change(n, o, c), gaveUp' \subseteq gaveUp,
             UNCHANGED <<Components, verdict, cache, res, timerVars>>
      PROVE  Typed'
  <2>1. ObjectInv'
    BY <1>1, ChangeTyped DEF Typed
  <2> QED
    BY <1>1, <2>1 DEF Components, queueVars, ctrlVars, timerVars, Typed, RegInv, CtrlInv, ResInv,
                      WorldInv
<1>2. ASSUME NEW n \in Names, Exists(n) PROVE api[n] \in Object
  BY <1>2 DEF Exists, Typed, ObjectInv
<1>3. ASSUME NEW n \in Names, NEW v \in Specs, Create(n, v) PROVE Typed'
  <2>1. NewObject(v) \in Object
    BY DEF NewObject, Object, Phases, NoHash
  <2> QED
    BY <1>1, <1>3, <2>1 DEF Create, ChangeKinds
<1>4. ASSUME NEW n \in Names, NEW v \in Specs, Edit(n, v) PROVE Typed'
  <2>1. [api[n] EXCEPT !.spec = v] \in Object
    BY <1>2, <1>4, ObjectUpdates DEF Edit
  <2> QED
    BY <1>1, <1>4, <2>1 DEF Edit, ChangeKinds
<1>5. ASSUME NEW n \in Names, Annotate(n) PROVE Typed'
  <2>1. [api[n] EXCEPT !.resume = ~@] \in Object
    BY <1>2, <1>5, ObjectUpdates DEF Annotate
  <2> QED
    BY <1>1, <1>5, <2>1 DEF Annotate, ChangeKinds
<1>6. ASSUME NEW n \in Names, Delete(n) PROVE Typed'
  BY <1>1, <1>6 DEF Delete, ChangeKinds
<1>7. ASSUME NEW n \in Names, NEW k \in Kinds, NEW r \in {Absent, Foreign}, Tamper(n, k, r)
      PROVE  Typed'
  <2>1. ResInv'
    BY <1>7, ResourceUpdates DEF Tamper, Typed, ResInv
  <2> QED
    BY <1>7, <2>1 DEF Tamper, Components, queueVars, ctrlVars, timerVars, objectVars, Typed, RegInv,
                      CtrlInv, ObjectInv, WorldInv
<1>8. CASE Crash
  <2> USE <1>8 DEF Crash
  <2>1. RegInv'
    <3>1. NoReg \in RegType
      BY SpecsAssumption DEF NoReg, RegType
    <3> QED
      BY <3>1 DEF RegInv, Labels, Fetched, Looping
  <2>2. CtrlInv'
    BY DEF CtrlInv, NoCtrl
  <2>3. ObjectInv' /\ ResInv' /\ WorldInv'
    BY DEF Typed, ObjectInv, ChangeKinds, ResInv, WorldInv
  <2> QED
    BY <2>1, <2>2, <2>3 DEF Typed
<1> QED
  BY <1>3, <1>4, <1>5, <1>6, <1>7, <1>8 DEF Environment

\* Every step of the system keeps everything typed.
LEMMA NextTyped == QInv /\ Typed /\ [Next]_vars => Typed'
<1> SUFFICES ASSUME QInv, Typed, [Next]_vars PROVE Typed'
  OBVIOUS
<1>1. CASE UNCHANGED vars
  BY <1>1 DEF vars, queueVars, objectVars, ctrlVars, timerVars, Typed, RegInv, CtrlInv, ObjectInv,
              ResInv, WorldInv
<1>2. CASE Next
  BY <1>2, WorkerTyped, ReconcileTyped, ReconcilerTyped, InformerTyped, EnvironmentTyped DEF Next
<1> QED
  BY <1>1, <1>2

-----------------------------------------------------------------------------
(* Every write is made from the object as it is.                           *)
(*                                                                         *)
(* A status update is computed from a copy.  It succeeds only if nothing   *)
(* has changed the object since, and then the copy is the object: the      *)
(* cached one while the informer has nothing to deliver, the reconciler's  *)
(* while ctrlFresh.  Age changes the object without making copies stale;   *)
(* the reconciler's is of an object that Age leaves alone.                 *)

CopyInv ==
  /\ \A n \in Names : Synced(n) => cache[n] = api[n]
  /\ cpc = "drift" => creg.obj.hash = creg.obj.spec /\ creg.obj.reconciled # "recent"
  /\ cpc = "drift" /\ ctrlFresh => creg.obj = api[cname]

\* Initially the informer has everything to deliver.
LEMMA InitCopyInv == Init => CopyInv
BY DEF Init, CopyInv, Synced

\* A step that touches neither objects nor copies keeps them.
LEMMA KeepCopies ==
  ASSUME CopyInv, cache' = cache, UNCHANGED objectVars,
         cpc' = "drift" => cpc = "drift" /\ cname' = cname /\ creg'.obj = creg.obj
  PROVE  CopyInv'
BY DEF objectVars, CopyInv, Synced

\* A write leaves no copy that would pass for the object.
LEMMA ChangeCopies ==
  ASSUME Typed, CopyInv, cache' = cache,
         cpc' = "drift" => cpc = "drift" /\ cname' = cname /\ creg'.obj = creg.obj,
         NEW n \in Names, NEW o, NEW c \in ChangeKinds, Change(n, o, c)
  PROVE  CopyInv'
<1>1. /\ api' = [api EXCEPT ![n] = o] /\ unseen' = [unseen EXCEPT ![n] = @ \cup {c}]
      /\ ctrlFresh' => ctrlFresh /\ cname # n
  BY DEF Change
<1>2. /\ api \in [Names -> Object \cup {NoObj}] /\ unseen \in [Names -> SUBSET ChangeKinds]
      /\ cpc = "drift" => cname \in Names
  BY DEF Typed, ObjectInv, CtrlInv
<1>3. \A m \in Names : Synced(m)' => cache'[m] = api'[m]
  BY <1>1, <1>2 DEF CopyInv, Synced
<1>4. cpc' = "drift" => creg'.obj.hash = creg'.obj.spec /\ creg'.obj.reconciled # "recent"
  BY DEF CopyInv
<1>5. ASSUME cpc' = "drift", ctrlFresh' PROVE creg'.obj = api'[cname']
  <2>1. cname # n /\ cname' = cname /\ cname \in Names /\ creg'.obj = api[cname]
    BY <1>1, <1>2, <1>5 DEF CopyInv
  <2> QED
    BY <1>1, <1>2, <2>1
<1> QED
  BY <1>3, <1>4, <1>5 DEF CopyInv

\* A worker's status update that succeeds writes what the update function makes of the
\* object itself.
LEMMA StatusOfCurrent ==
  ASSUME CopyInv, NEW w \in Workers, Name(w) \in Names,
         NEW new, NEW ok, NEW err, UpdateStatus(w, new, ok, err)
  PROVE  \/ UNCHANGED objectVars
         \/ /\ Exists(Name(w)) /\ cache[Name(w)] = api[Name(w)]
            /\ Change(Name(w), new, "status")
BY DEF UpdateStatus, CopyInv

\* What may happen to an object, but for a worker's last write.
Otherwise(n) ==
  \/ S!User(n) \/ S!Age(n)
  \/ \E phase \in {"Processing", "Failed", "Paused"} : S!Work(n, phase)
  \/ S!Queue(n) \/ S!QueueAgain(n) \/ S!Adopt(n) \/ S!Reconciled(n)

\* A worker's last write.
Completing(w) ==
  pc[w] = "setCompleted" /\ Name(w) \in Names /\ S!Complete(Name(w), reg[w].hash)

StatusStep ==
  UNCHANGED api \/ (\E n \in Names : Otherwise(n)) \/ (\E w \in Workers : Completing(w))

\* A worker writes a phase into the object as it is, and a hash with its last write.
LEMMA WorkerStatus ==
  ASSUME QInv, Typed, CopyInv, NEW w \in Workers, Worker(w)
  PROVE  CopyInv' /\ StatusStep
<1>1. cache' = cache /\ cpc' = cpc /\ cname' = cname /\ creg' = creg
  BY DEF Worker, Dequeue, GetTemplate, SetProcessing, GetPolicy, ApplyTemplate, LoopEnds,
         SetRejected, Continue, DeleteForReplace, ApplyAfterReplace, SetFailed, SetCompleted,
         Requeue, OutOfRetries, SetPaused, Done, Outside, ctrlVars
<1>2. CASE UNCHANGED objectVars
  BY <1>1, <1>2, KeepCopies DEF objectVars, StatusStep
<1>3. ASSUME NEW phase \in {"Processing", "Failed", "Paused"}, NEW ok, NEW err,
             pc[w] # "idle", SetPhase(w, phase, ok, err)
      PROVE  CopyInv' /\ StatusStep
  <2>1. Name(w) \in Names
    BY <1>3, AtWork
  <2>2. \/ UNCHANGED objectVars
        \/ /\ Exists(Name(w))
           /\ Change(Name(w), [api[Name(w)] EXCEPT !.phase = phase], "status")
    BY <1>3, <2>1, StatusOfCurrent DEF SetPhase
  <2>3. CASE /\ Exists(Name(w))
             /\ Change(Name(w), [api[Name(w)] EXCEPT !.phase = phase], "status")
    <3>1. CopyInv'
      BY <1>1, <2>1, <2>3, ChangeCopies DEF ChangeKinds
    <3>2. S!Work(Name(w), phase)
      BY <2>3 DEF S!Work, S!Exists, S!Becomes, Exists, Change
    <3> QED
      BY <2>1, <3>1, <3>2 DEF StatusStep, Otherwise
  <2> QED
    BY <1>2, <2>2, <2>3
<1>4. CASE SetCompleted(w)
  <2> DEFINE n == Name(w)
             new == [cache[n] EXCEPT !.phase = "Completed", !.hash = reg[w].hash]
  <2>1. pc[w] = "setCompleted" /\ UpdateStatus(w, new, "done", "fail")
    BY <1>4 DEF SetCompleted
  <2>2. n \in Names
    BY <2>1, AtWork
  <2>3. UNCHANGED objectVars \/ (Exists(n) /\ cache[n] = api[n] /\ Change(n, new, "status"))
    <3> HIDE DEF new
    <3> QED
      BY <2>1, <2>2, StatusOfCurrent
  <2>4. CASE Exists(n) /\ cache[n] = api[n] /\ Change(n, new, "status")
    <3>1. CopyInv'
      BY <1>1, <2>2, <2>4, ChangeCopies DEF ChangeKinds
    <3>2. S!Complete(n, reg[w].hash)
      BY <2>4 DEF S!Complete, S!Exists, S!Becomes, Exists, Change
    <3> QED
      BY <2>1, <2>2, <3>1, <3>2 DEF StatusStep, Completing
  <2> QED
    BY <1>2, <2>3, <2>4
<1>5. CASE SetProcessing(w) \/ SetRejected(w) \/ SetFailed(w) \/ SetPaused(w)
  BY <1>3, <1>5 DEF SetProcessing, SetRejected, SetFailed, SetPaused
<1> QED
  BY <1>2, <1>4, <1>5 DEF Worker, Dequeue, GetTemplate, GetPolicy, ApplyTemplate, LoopEnds, Continue,
         DeleteForReplace, ApplyAfterReplace, Requeue, OutOfRetries, Done

\* The status update before Enqueue, of an object that the cache has.
LEMMA UpdateThenEnqueueStatus ==
  ASSUME Typed, CopyInv, cache' = cache, NEW n \in Names, NEW o, UpdateThenEnqueue(n, o)
  PROVE  /\ CopyInv'
         /\ \/ UNCHANGED api
            \/ Exists(n) /\ cache[n] = api[n] /\ S!Becomes(n, o)
<1>1. cpc' # "drift"
  BY DEF UpdateThenEnqueue, Proceed, ReturnError, Return
<1>2. CASE UNCHANGED objectVars
  BY <1>1, <1>2, KeepCopies DEF objectVars
<1>3. CASE Exists(n) /\ Synced(n) /\ Change(n, o, "status")
  <2>1. CopyInv'
    BY <1>1, <1>3, ChangeCopies DEF ChangeKinds
  <2> QED
    BY <1>3, <2>1 DEF CopyInv, Change, S!Becomes
<1> QED
  BY <1>2, <1>3 DEF UpdateThenEnqueue

\* Reconcile's first step: what it writes was due by the object as it is.
LEMMA ReconcileStatus ==
  ASSUME Typed, CopyInv, NEW n \in Names, Reconcile(n)
  PROVE  CopyInv' /\ StatusStep
<1>1. cache' = cache
  BY DEF Reconcile, ReconcileNothing, ReconcilePaused, ReconcileFailed, ReconcileCompleted,
         ReconcileNew, Inside
<1>2. ASSUME cpc' # "drift", UNCHANGED objectVars PROVE CopyInv' /\ StatusStep
  BY <1>1, <1>2, KeepCopies DEF objectVars, StatusStep
<1>3. CASE ReconcileNothing(n)
  BY <1>2, <1>3 DEF ReconcileNothing, ReturnNothing, ReturnError, Return
<1>4. CASE ReconcilePaused(n)
  <2>1. CASE cpc' # "drift" /\ UNCHANGED objectVars
    BY <1>2, <2>1
  <2>2. CASE UpdateThenEnqueue(n, [cache[n] EXCEPT !.phase = "Queued"])
    <3>1. CopyInv' /\ (UNCHANGED api \/ S!Queue(n))
      BY <1>1, <2>2, UpdateThenEnqueueStatus DEF S!Queue, S!Exists, Exists, S!Becomes
    <3> QED
      BY <3>1 DEF StatusStep, Otherwise
  <2> QED
    BY <1>4, <2>1, <2>2 DEF ReconcilePaused, ReturnNothing, Return
<1>5. ASSUME cache[n] # NoObj, cache[n].phase \in {"Failed", "Completed"},
             cache[n].hash \notin {NoHash, cache[n].spec},
             UpdateThenEnqueue(n, [cache[n] EXCEPT !.phase = "Queued", !.hash = cache[n].spec])
      PROVE  CopyInv' /\ StatusStep
  <2> DEFINE new == [cache[n] EXCEPT !.phase = "Queued", !.hash = cache[n].spec]
  <2>1. CopyInv' /\ (UNCHANGED api \/ (Exists(n) /\ cache[n] = api[n] /\ S!Becomes(n, new)))
    <3> HIDE DEF new
    <3>1. UpdateThenEnqueue(n, new)
      BY <1>5 DEF new
    <3> QED
      BY <1>1, <3>1, UpdateThenEnqueueStatus
  <2>2. CASE Exists(n) /\ cache[n] = api[n] /\ S!Becomes(n, new)
    <3>1. S!QueueAgain(n)
      BY <1>5, <2>2 DEF S!QueueAgain, S!Exists, Exists, S!NoHash, NoHash, S!Becomes
    <3> QED
      BY <2>1, <3>1 DEF StatusStep, Otherwise
  <2> QED
    BY <2>1, <2>2 DEF StatusStep
<1>6. CASE ReconcileFailed(n)
  <2>1. CASE cpc' # "drift" /\ UNCHANGED objectVars
    BY <1>2, <2>1
  <2> QED
    BY <1>5, <1>6, <2>1 DEF ReconcileFailed, calculateSpecHash, ReturnNothing, Return
<1>7. CASE ReconcileCompleted(n)
  <2>1. cache[n] # NoObj /\ cache[n].phase = "Completed"
    BY <1>7 DEF ReconcileCompleted
  <2>2. CASE cpc' # "drift" /\ UNCHANGED objectVars
    BY <1>2, <2>2
  <2>3. CASE cache[n].hash = NoHash /\ PopulateHash(n, cache[n])
    <3> DEFINE new == [cache[n] EXCEPT !.hash = cache[n].spec]
    <3>1. cpc' # "drift"
      BY <2>3 DEF PopulateHash, ReturnPeriodic, Return
    <3>2. CASE UNCHANGED objectVars
      BY <1>2, <3>1, <3>2
    <3>3. CASE Exists(n) /\ Synced(n) /\ Change(n, new, "status")
      <4>1. CopyInv'
        <5> HIDE DEF new
        <5> QED
          BY <1>1, <3>1, <3>3, ChangeCopies DEF ChangeKinds
      <4>2. cache[n] = api[n]
        BY <3>3 DEF CopyInv
      <4>3. S!Adopt(n)
        BY <2>1, <2>3, <3>3, <4>2 DEF S!Adopt, S!Exists, Exists, S!NoHash, NoHash, S!Becomes, Change
      <4> QED
        BY <4>1, <4>3 DEF StatusStep, Otherwise
    <3> QED
      BY <2>3, <3>2, <3>3 DEF PopulateHash, calculateSpecHash
  <2>4. CASE /\ cache[n].hash = cache[n].spec /\ cache[n].reconciled # "recent"
             /\ StartDrift(n, cache[n])
    <3>1. cpc' = "drift" /\ cname' = n /\ creg' = [NoCtrl EXCEPT !.obj = cache[n], !.k = 1]
      BY <2>4 DEF StartDrift, Proceed
    <3>2. creg'.obj = cache[n]
      BY <3>1 DEF NoCtrl
    <3>3. UNCHANGED <<api, unseen>> /\ (ctrlFresh' => Synced(n))
      BY <2>4 DEF StartDrift
    <3>4. CopyInv'
      BY <1>1, <2>4, <3>1, <3>2, <3>3 DEF CopyInv, Synced
    <3> QED
      BY <3>3, <3>4 DEF StatusStep
  <2> QED
    BY <1>5, <1>7, <2>1, <2>2, <2>3, <2>4
       DEF ReconcileCompleted, calculateSpecHash, ReturnPeriodic, Return
<1>8. CASE ReconcileNew(n)
  BY <1>2, <1>8 DEF ReconcileNew, Proceed
<1> QED
  BY <1>3, <1>4, <1>6, <1>7, <1>8 DEF Reconcile

\* So is what its later steps write, the end of a drift detection included.
LEMMA ReconcilerStatus ==
  ASSUME Typed, CopyInv, Reconciler
  PROVE  CopyInv' /\ StatusStep
<1>1. cache' = cache /\ cname \in Names
  BY DEF Reconciler, SetQueued, Enqueue, DriftTemplate, DriftEnds, Inside, Typed, CtrlInv
<1>2. ASSUME cpc' = "drift" => cpc = "drift" /\ cname' = cname /\ creg'.obj = creg.obj,
             UNCHANGED objectVars
      PROVE  CopyInv' /\ StatusStep
  BY <1>1, <1>2, KeepCopies DEF objectVars, StatusStep
<1>3. CASE SetQueued
  <2>1. cpc' # "drift"
    BY <1>3 DEF SetQueued, ReturnError, Return
  <2>2. CASE /\ Exists(cname) /\ Synced(cname)
             /\ Change(cname, [cache[cname] EXCEPT !.phase = "Queued"], "status")
    <3>1. CopyInv'
      BY <1>1, <2>1, <2>2, ChangeCopies DEF ChangeKinds
    <3>2. S!Queue(cname)
      BY <1>1, <2>2 DEF CopyInv, S!Queue, S!Exists, Exists, S!Becomes, Change
    <3> QED
      BY <1>1, <3>1, <3>2 DEF StatusStep, Otherwise
  <2> QED
    BY <1>2, <1>3, <2>1, <2>2 DEF SetQueued
<1>4. CASE Enqueue
  BY <1>2, <1>4 DEF Enqueue, ReturnNothing, Return
<1>5. CASE DriftTemplate
  <2>1. creg'.obj = creg.obj
    <3>1. PICK k, d : creg' = [creg EXCEPT !.k = k, !.drift = d] \/ creg' = [creg EXCEPT !.k = k]
      BY <1>5 DEF DriftTemplate
    <3> QED
      BY <3>1 DEF Typed, CtrlInv
  <2> QED
    BY <1>2, <1>5, <2>1 DEF DriftTemplate
<1>6. CASE DriftEnds
  <2> DEFINE new == [creg.obj EXCEPT !.reconciled = "recent"]
  <2>1. cpc = "drift" /\ cpc' # "drift"
    BY <1>6 DEF DriftEnds, ReturnPeriodic, Return
  <2>2. CASE UNCHANGED objectVars
    BY <1>2, <2>1, <2>2
  <2>3. CASE Exists(cname) /\ ctrlFresh /\ Change(cname, new, "status")
    <3>1. CopyInv'
      <4> HIDE DEF new
      <4> QED
        BY <1>1, <2>1, <2>3, ChangeCopies DEF ChangeKinds
    <3>2. /\ creg.obj = api[cname] /\ creg.obj.phase = "Completed"
          /\ creg.obj.hash = creg.obj.spec /\ creg.obj.reconciled # "recent"
      BY <2>1, <2>3 DEF CopyInv, Typed, CtrlInv
    <3>3. S!Reconciled(cname)
      BY <2>3, <3>2 DEF S!Reconciled, S!Exists, Exists, S!Becomes, Change
    <3> QED
      BY <1>1, <3>1, <3>3 DEF StatusStep, Otherwise
  <2> QED
    BY <1>6, <2>2, <2>3 DEF DriftEnds
<1> QED
  BY <1>3, <1>4, <1>5, <1>6 DEF Reconciler

\* A delivery makes the cached object current; time leaves it so.
LEMMA InformerStatus ==
  ASSUME Typed, CopyInv, NEW n \in Names, CacheSync(n) \/ Timers(n)
  PROVE  CopyInv' /\ StatusStep
<1>1. UNCHANGED ctrlVars /\ ctrlFresh' = ctrlFresh
  BY DEF CacheSync, Timers, RetryFires, PeriodicFires, Age, Components, objectVars
<1>2. /\ cache \in [Names -> Object \cup {NoObj}] /\ api \in [Names -> Object \cup {NoObj}]
      /\ unseen \in [Names -> SUBSET ChangeKinds] /\ (cpc = "drift" => cname \in Names)
  BY DEF Typed, WorldInv, ObjectInv, CtrlInv
<1>3. CASE CacheSync(n)
  <2>1. /\ cache' = [cache EXCEPT ![n] = api[n]] /\ unseen' = [unseen EXCEPT ![n] = {}]
        /\ api' = api
    BY <1>3 DEF CacheSync
  <2>2. CopyInv'
    BY <1>1, <1>2, <2>1 DEF CopyInv, Synced, ctrlVars
  <2> QED
    BY <2>1, <2>2 DEF StatusStep
<1>4. CASE RetryFires(n) \/ PeriodicFires(n)
  <2>1. cache' = cache /\ UNCHANGED objectVars
    BY <1>4 DEF RetryFires, PeriodicFires
  <2> QED
    BY <1>1, <2>1, KeepCopies DEF ctrlVars, objectVars, StatusStep
<1>5. CASE Age(n)
  <2>1. /\ api' = [api EXCEPT ![n] = Aged(api[n])] /\ cache' = [cache EXCEPT ![n] = Aged(cache[n])]
        /\ unseen' = unseen /\ Aged(api[n]) # api[n]
    BY <1>5 DEF Age
  <2>2. /\ api[n] # NoObj /\ api[n].reconciled = "recent"
        /\ Aged(api[n]) = [api[n] EXCEPT !.reconciled = "old"]
    BY <2>1 DEF Aged
  <2>3. \A m \in Names : Synced(m)' => cache'[m] = api'[m]
    <3> SUFFICES ASSUME NEW m \in Names, Synced(m)' PROVE cache'[m] = api'[m]
      OBVIOUS
    <3>1. cache[m] = api[m]
      BY <2>1 DEF CopyInv, Synced
    <3> QED
      BY <1>2, <2>1, <3>1
  <2>4. ASSUME cpc = "drift", ctrlFresh PROVE creg'.obj = api'[cname']
    <3>1. cname # n /\ cname \in Names /\ creg.obj = api[cname]
      BY <1>2, <2>2, <2>4 DEF CopyInv
    <3> QED
      BY <1>1, <1>2, <2>1, <3>1 DEF ctrlVars
  <2>5. CopyInv'
    BY <1>1, <2>3, <2>4 DEF CopyInv, ctrlVars
  <2>6. S!Age(n)
    BY <2>1, <2>2 DEF S!Age, S!Exists, S!Becomes
  <2> QED
    BY <2>5, <2>6 DEF StatusStep, Otherwise
<1> QED
  BY <1>3, <1>4, <1>5 DEF Timers

\* Users, and a restart, which drops all copies.
LEMMA EnvironmentStatus ==
  ASSUME Typed, CopyInv, Environment
  PROVE  CopyInv' /\ StatusStep
<1>1. ASSUME NEW n \in Names, NEW o, NEW c \in ChangeKinds, Change(n, o, c), Otherwise(n),
             UNCHANGED <<Components, cache>>
      PROVE  CopyInv' /\ StatusStep
  BY <1>1, ChangeCopies DEF Components, ctrlVars, StatusStep
<1> USE DEF ChangeKinds, Otherwise, S!User, S!Exists, Exists, S!Becomes
<1>2. ASSUME NEW n \in Names, NEW v \in Specs, Create(n, v) PROVE CopyInv' /\ StatusStep
  <2>1. S!Create(n, v)
    BY <1>2 DEF Create, Change, S!Create, NewObject, S!NewObject, NoHash, S!NoHash
  <2> QED
    BY <1>1, <1>2, <2>1 DEF Create
<1>3. ASSUME NEW n \in Names, NEW v \in Specs, Edit(n, v) PROVE CopyInv' /\ StatusStep
  <2>1. S!Edit(n, v)
    BY <1>3 DEF Edit, Change, S!Edit
  <2> QED
    BY <1>1, <1>3, <2>1 DEF Edit
<1>4. ASSUME NEW n \in Names, Annotate(n) PROVE CopyInv' /\ StatusStep
  <2>1. S!Annotate(n)
    BY <1>4 DEF Annotate, Change, S!Annotate
  <2> QED
    BY <1>1, <1>4, <2>1 DEF Annotate
<1>5. ASSUME NEW n \in Names, Delete(n) PROVE CopyInv' /\ StatusStep
  <2>1. S!Delete(n)
    BY <1>5 DEF Delete, Change, S!Delete
  <2> QED
    BY <1>1, <1>5, <2>1 DEF Delete
<1>6. ASSUME NEW n \in Names, NEW k \in Kinds, NEW r \in {Absent, Foreign}, Tamper(n, k, r)
      PROVE  CopyInv' /\ StatusStep
  <2>1. cache' = cache /\ UNCHANGED <<objectVars, ctrlVars>>
    BY <1>6 DEF Tamper, Components
  <2> QED
    BY <2>1, KeepCopies DEF ctrlVars, objectVars, StatusStep
<1>7. CASE Crash
  <2>1. /\ cpc' = "idle" /\ api' = api /\ cache' = [n \in Names |-> NoObj]
        /\ unseen' = [n \in Names |-> IF Exists(n) THEN {"create"} ELSE {}]
    BY <1>7 DEF Crash
  <2> QED
    BY <2>1 DEF CopyInv, Synced, StatusStep
<1> QED
  BY <1>2, <1>3, <1>4, <1>5, <1>6, <1>7 DEF Environment

\* Every step of the system keeps the copies honest, and changes objects only as
\* TemplateStatus allows.
LEMMA NextStatus ==
  ASSUME QInv, Typed, CopyInv, [Next]_vars
  PROVE  CopyInv' /\ StatusStep
<1>1. CASE UNCHANGED vars
  <2>1. cache' = cache /\ UNCHANGED <<objectVars, ctrlVars>>
    BY <1>1 DEF vars
  <2> QED
    BY <2>1, KeepCopies DEF ctrlVars, objectVars, StatusStep
<1>2. CASE Next
  BY <1>2, WorkerStatus, ReconcileStatus, ReconcilerStatus, InformerStatus, EnvironmentStatus
     DEF Next
<1> QED
  BY <1>1, <1>2

\* The initial objects are TemplateStatus's.
LEMMA InitStatus == Init => S!Init
<1> SUFFICES ASSUME Init PROVE S!Init
  OBVIOUS
<1>1. PICK v \in Specs :
        api = [n \in Names |-> IF Upgraded THEN [NewObject(v) EXCEPT !.phase = "Completed"]
                                           ELSE NoObj]
  BY DEF Init
<1>2. NewObject(v) = S!NewObject(v)
  BY DEF NewObject, S!NewObject, NoHash, S!NoHash
<1>3. CASE Upgraded
  BY <1>1, <1>2, <1>3 DEF S!Init
<1>4. CASE ~Upgraded
  BY <1>1, <1>4 DEF S!Init
<1> QED
  BY <1>3, <1>4

-----------------------------------------------------------------------------
(* What is hashed was run.                                                 *)
(*                                                                         *)
(* The loop ranges over the templates that kubeTemplate.Spec held when it  *)
(* started; the hash is that of the spec kubeTemplate holds when it is     *)
(* over.  Only a status update fetches kubeTemplate anew, and the only one *)
(* within the loop is the one for a rejected template.                     *)

SomeRejected(v) == \E k \in Kinds : Rejected(v, k)

\* What holds of the variables r of a worker at l.
RunFor(l, r) ==
  /\ l = "apply" => r.k \in 1..(Size + 1)
  /\ l \in Looping \ {"apply"} => r.k \in Kinds
  /\ l \in {"apply", "delete", "recreate"} => r.spec = r.tmpl \/ SomeRejected(r.tmpl)
  /\ l \in {"setRejected", "rejected"} => SomeRejected(r.tmpl)
  /\ l = "setCompleted" => r.k = Size + 1 /\ (r.hash = r.tmpl \/ SomeRejected(r.tmpl))

RunInv == \A w \in Workers : RunFor(pc[w], reg[w])

\* Outside the loop and the last write there is nothing to say.
LEMMA RunElsewhere ==
  ASSUME NEW l \in Labels \ (Looping \cup {"setCompleted"}), NEW r
  PROVE  RunFor(l, r)
BY DEF RunFor, Looping, Labels

\* One worker moves.
LEMMA RunMoves ==
  ASSUME RegInv, RunInv, verdict' = verdict, NEW w \in Workers, NEW l, NEW r,
         Goto(w, l), reg' = [reg EXCEPT ![w] = r], RunFor(l, r)
  PROVE  RunInv'
<1>1. \A v \in Workers : IF v = w THEN pc'[v] = l /\ reg'[v] = r
                                  ELSE pc'[v] = pc[v] /\ reg'[v] = reg[v]
  BY DEF RegInv, Goto
<1> SUFFICES ASSUME NEW v \in Workers PROVE RunFor(pc[v], reg[v])'
  BY DEF RunInv
<1>2. PICK x, y : x = pc'[v] /\ y = reg'[v]
  OBVIOUS
<1>3. RunFor(x, y)
  <2>1. CASE v = w
    BY <1>1, <1>2, <2>1
  <2>2. CASE v # w
    BY <1>1, <1>2, <2>2 DEF RunInv
  <2> QED
    BY <2>1, <2>2
<1> QED
  BY <1>2, <1>3 DEF RunFor, SomeRejected, Rejected

\* On with the next template: its index is at most one above the last.
LEMMA RunNext ==
  ASSUME RegInv, RunInv, verdict' = verdict, NEW w \in Workers, reg[w].k \in Kinds,
         reg[w].spec = reg[w].tmpl \/ SomeRejected(reg[w].tmpl),
         NextTemplate(w), Goto(w, "apply")
  PROVE  RunInv'
<1>1. reg \in [Workers -> RegType] /\ reg[w] \in RegType
  BY DEF RegInv
<1>2. PICK u \in 1..(Size + 1) : u = reg[w].k + 1
  BY SpecsAssumption DEF Kinds
<1> DEFINE r == [reg[w] EXCEPT !.k = u]
<1>3. r.k = u /\ r.spec = reg[w].spec /\ r.tmpl = reg[w].tmpl
  BY <1>1 DEF RegType
<1>4. reg' = [reg EXCEPT ![w] = r]
  BY <1>1, <1>2 DEF NextTemplate
<1> HIDE DEF r
<1>5. RunFor("apply", r)
  BY <1>3 DEF RunFor
<1> QED
  BY <1>4, <1>5, RunMoves

\* A status update keeps what the loop is about, whether it succeeds or is to be repeated.
LEMMA RunStatus ==
  ASSUME QInv, Typed, RunInv, verdict' = verdict, NEW w \in Workers, pc[w] # "idle",
         NEW new, NEW ok \in Labels, NEW err \in Labels, UpdateStatus(w, new, ok, err),
         pc[w] \notin {"apply", "delete", "recreate"},
         \A l \in {ok, err} : l \in Looping \cup {"setCompleted"} =>
                                pc[w] = "setRejected" /\ l = "rejected"
  PROVE  RunInv'
<1>1. Name(w) \in Names /\ RegInv /\ WorldInv
  BY AtWork DEF Typed
<1>2. PICK r \in RegType :
        /\ reg' = [reg EXCEPT ![w] = r]
        /\ r.tmpl = reg[w].tmpl /\ r.hash = reg[w].hash /\ r.k = reg[w].k
        /\ r.spec = reg[w].spec \/ r.spec \in Specs
  BY <1>1, StatusReg
<1>3. PICK l \in {ok, err, pc[w]} : Goto(w, l)
  BY StatusWrite
<1>4. RunFor(pc[w], reg[w]) /\ l \in Labels
  BY <1>1, <1>3 DEF RunInv, RegInv
<1>5. RunFor(l, r)
  <2>1. CASE l = pc[w]
    BY <1>2, <1>4, <2>1 DEF RunFor
  <2>2. CASE l \notin Looping \cup {"setCompleted"}
    BY <1>4, <2>2, RunElsewhere
  <2>3. CASE pc[w] = "setRejected" /\ l = "rejected"
    BY <1>2, <1>4, <2>3 DEF RunFor, Looping
  <2> QED
    BY <1>3, <2>1, <2>2, <2>3
<1> QED
  BY <1>1, <1>2, <1>3, <1>5, RunMoves

\* Every step of a worker.
LEMMA WorkerRun ==
  ASSUME QInv, Typed, RunInv, NEW w \in Workers, Worker(w)
  PROVE  RunInv'
<1>1. verdict' = verdict
  BY DEF Worker, Dequeue, GetTemplate, SetProcessing, GetPolicy, ApplyTemplate, LoopEnds,
         SetRejected, Continue, DeleteForReplace, ApplyAfterReplace, SetFailed, SetCompleted,
         Requeue, OutOfRetries, SetPaused, Done, Outside
<1>2. RegInv /\ reg \in [Workers -> RegType] /\ reg[w] \in RegType /\ RunFor(pc[w], reg[w])
  BY DEF Typed, RegInv, RunInv
<1>3. ASSUME NEW l \in Labels \ (Looping \cup {"setCompleted"}), Goto(w, l),
             NEW r, reg' = [reg EXCEPT ![w] = r]
      PROVE  RunInv'
  BY <1>1, <1>2, <1>3, RunElsewhere, RunMoves
<1>4. ASSUME UNCHANGED reg PROVE reg' = [reg EXCEPT ![w] = reg[w]]
  BY <1>2, <1>4
<1>5. CASE Dequeue(w) \/ OutOfRetries(w)
  BY <1>3, <1>4, <1>5 DEF Dequeue, OutOfRetries, Labels, Looping
<1>6. CASE Requeue(w) \/ Done(w)
  BY <1>3, <1>6 DEF Requeue, Done, Labels, Looping
<1>7. CASE GetTemplate(w)
  <2>1. CASE UNCHANGED reg
    BY <1>3, <1>4, <1>7, <2>1 DEF GetTemplate, Labels, Looping
  <2>2. CASE reg' = [reg EXCEPT ![w].spec = cache[Name(w)].spec] /\ Goto(w, "setProcessing")
    <3>1. reg' = [reg EXCEPT ![w] = [reg[w] EXCEPT !.spec = cache[Name(w)].spec]]
      BY <1>2, <2>2
    <3> QED
      BY <1>3, <2>2, <3>1 DEF Labels, Looping
  <2> QED
    BY <1>7, <2>1, <2>2 DEF GetTemplate
<1>8. CASE SetProcessing(w) \/ SetRejected(w) \/ SetFailed(w) \/ SetPaused(w) \/ SetCompleted(w)
  <2>1. PICK new : \/ pc[w] = "setProcessing" /\ UpdateStatus(w, new, "policy", "policy")
                   \/ pc[w] = "setRejected" /\ UpdateStatus(w, new, "rejected", "rejected")
                   \/ pc[w] = "setFailed" /\ UpdateStatus(w, new, "fail", "fail")
                   \/ pc[w] = "setPaused" /\ UpdateStatus(w, new, "done", "dropped")
                   \/ pc[w] = "setCompleted" /\ UpdateStatus(w, new, "done", "fail")
    BY <1>8 DEF SetProcessing, SetRejected, SetFailed, SetPaused, SetCompleted, SetPhase
  <2> QED
    BY <1>1, <2>1, RunStatus DEF Labels, Looping
<1>9. CASE GetPolicy(w)
  <2>1. CASE UNCHANGED reg /\ Goto(w, "setFailed")
    BY <1>3, <1>4, <2>1 DEF Labels, Looping
  <2>2. CASE reg' = [reg EXCEPT ![w].tmpl = reg[w].spec, ![w].k = 1] /\ Goto(w, "apply")
    <3> DEFINE r == [reg[w] EXCEPT !.tmpl = reg[w].spec, !.k = 1]
    <3>1. reg' = [reg EXCEPT ![w] = r]
      BY <1>2, <2>2
    <3>2. r.k = 1 /\ r.spec = reg[w].spec /\ r.tmpl = reg[w].spec
      BY <1>2 DEF RegType
    <3> HIDE DEF r
    <3>3. RunFor("apply", r)
      BY <3>2, SpecsAssumption DEF RunFor
    <3> QED
      BY <1>1, <1>2, <2>2, <3>1, <3>3, RunMoves
  <2> QED
    BY <1>9, <2>1, <2>2 DEF GetPolicy
<1>10. CASE ApplyTemplate(w)
  <2>1. /\ pc[w] = "apply" /\ reg[w].k \in Kinds
        /\ reg[w].spec = reg[w].tmpl \/ SomeRejected(reg[w].tmpl)
    BY <1>2, <1>10 DEF ApplyTemplate, RunFor
  <2>2. CASE NextTemplate(w) /\ UNCHANGED pc
    <3>1. Goto(w, "apply")
      BY <1>2, <2>1, <2>2 DEF Goto, RegInv
    <3> QED
      BY <1>1, <1>2, <2>1, <2>2, <3>1, RunNext
  <2>3. CASE UNCHANGED reg /\ Goto(w, "setFailed")
    BY <1>3, <1>4, <2>3 DEF Labels, Looping
  <2>4. CASE UNCHANGED reg /\ Goto(w, "delete")
    <3>1. RunFor("delete", reg[w])
      BY <2>1 DEF RunFor
    <3> QED
      BY <1>1, <1>2, <1>4, <2>4, <3>1, RunMoves
  <2>5. CASE UNCHANGED reg /\ Goto(w, "setRejected") /\ Rejected(reg[w].tmpl, reg[w].k)
    <3>1. RunFor("setRejected", reg[w])
      BY <2>1, <2>5 DEF RunFor, SomeRejected
    <3> QED
      BY <1>1, <1>2, <1>4, <2>5, <3>1, RunMoves
  <2> QED
    BY <1>10, <2>2, <2>3, <2>4, <2>5 DEF ApplyTemplate
<1>11. CASE LoopEnds(w)
  <2> DEFINE r == [reg[w] EXCEPT !.hash = reg[w].spec]
  <2>1. reg' = [reg EXCEPT ![w] = r] /\ Goto(w, "setCompleted")
    BY <1>2, <1>11 DEF LoopEnds, calculateSpecHash
  <2>2. r.k = reg[w].k /\ r.hash = reg[w].spec /\ r.tmpl = reg[w].tmpl
    BY <1>2 DEF RegType
  <2>3. reg[w].k = Size + 1
    BY <1>2, <1>11, SpecsAssumption DEF LoopEnds, RunFor, Kinds
  <2>4. reg[w].spec = reg[w].tmpl \/ SomeRejected(reg[w].tmpl)
    BY <1>2, <1>11 DEF LoopEnds, RunFor
  <2> HIDE DEF r
  <2>5. RunFor("setCompleted", r)
    BY <2>2, <2>3, <2>4 DEF RunFor, Looping
  <2> QED
    BY <1>1, <1>2, <2>1, <2>5, RunMoves
<1>12. CASE Continue(w)
  BY <1>1, <1>2, <1>12, RunNext DEF Continue, RunFor, Looping
<1>13. CASE DeleteForReplace(w)
  <2>1. /\ pc[w] = "delete" /\ reg[w].k \in Kinds
        /\ reg[w].spec = reg[w].tmpl \/ SomeRejected(reg[w].tmpl)
    BY <1>2, <1>13 DEF DeleteForReplace, RunFor, Looping
  <2>2. CASE UNCHANGED reg /\ Goto(w, "recreate")
    <3>1. RunFor("recreate", reg[w])
      BY <2>1 DEF RunFor
    <3> QED
      BY <1>1, <1>2, <1>4, <2>2, <3>1, RunMoves
  <2> QED
    BY <1>1, <1>2, <1>13, <2>1, <2>2, RunNext DEF DeleteForReplace
<1>14. CASE ApplyAfterReplace(w)
  <2>1. reg[w].k \in Kinds /\ (reg[w].spec = reg[w].tmpl \/ SomeRejected(reg[w].tmpl))
    BY <1>2, <1>14 DEF ApplyAfterReplace, RunFor, Looping
  <2> QED
    BY <1>1, <1>2, <1>14, <2>1, RunNext DEF ApplyAfterReplace
<1> QED
  BY <1>5, <1>6, <1>7, <1>8, <1>9, <1>10, <1>11, <1>12, <1>13, <1>14 DEF Worker

\* Nobody else touches a worker's variables, and a restart clears them.
LEMMA NextRun ==
  ASSUME QInv, Typed, RunInv, [Next]_vars
  PROVE  RunInv'
<1>1. CASE UNCHANGED <<pc, reg, verdict>>
  BY <1>1 DEF RunInv, RunFor, SomeRejected, Rejected
<1>2. CASE Crash
  <2>1. \A w \in Workers : pc'[w] = "idle"
    BY <1>2 DEF Crash
  <2> QED
    BY <2>1 DEF RunInv, RunFor, Looping
<1>3. ASSUME NEW n \in Names, Reconcile(n) PROVE UNCHANGED <<pc, reg, verdict>>
  BY <1>3 DEF Reconcile, ReconcileNothing, ReconcilePaused, ReconcileFailed, ReconcileCompleted,
              ReconcileNew, Inside
<1>4. CASE Reconciler
  BY <1>1, <1>4 DEF Reconciler, SetQueued, Enqueue, DriftTemplate, DriftEnds, Inside
<1>5. ASSUME NEW n \in Names, CacheSync(n) \/ Timers(n) PROVE UNCHANGED <<pc, reg, verdict>>
  BY <1>5 DEF CacheSync, Timers, RetryFires, PeriodicFires, Age, Components
<1>6. CASE Environment
  BY <1>1, <1>2, <1>6 DEF Environment, Create, Edit, Annotate, Delete, Tamper, Components
<1>7. CASE UNCHANGED vars
  BY <1>1, <1>7 DEF vars
<1> QED
  BY <1>1, <1>3, <1>4, <1>5, <1>6, <1>7, WorkerRun DEF Next

\* Apart from a worker's last write, no step completes a template that exists or changes
\* the hash of a Completed one, unless it had none.
LEMMA OtherwiseKeepsHash ==
  ASSUME ObjectInv, NEW m \in Names, Otherwise(m), NEW n \in Names,
         Exists(n), api'[n] # NoObj, api'[n].phase = "Completed",
         <<api'[n].phase, api'[n].hash>> # <<api[n].phase, api[n].hash>>
  PROVE  api[n].phase = "Completed" /\ api[n].hash = NoHash
<1>1. api \in [Names -> Object \cup {NoObj}] /\ api[n] \in Object /\ api[n] # NoObj
  BY DEF ObjectInv, Exists
<1>2. m = n
  BY <1>1 DEF Otherwise, S!User, S!Create, S!Edit, S!Annotate, S!Delete, S!Age, S!Work, S!Queue,
       S!QueueAgain, S!Adopt, S!Reconciled, S!Becomes
<1>3. ASSUME NEW o, S!Becomes(n, o) PROVE api'[n] = o
  BY <1>1, <1>3 DEF S!Becomes
<1>4. CASE S!User(n) \/ S!Age(n) \/ S!Reconciled(n)
  <2>1. PICK o : /\ api'[n] = o /\ o # NoObj
                 /\ \/ \E v \in Specs : o = [api[n] EXCEPT !.spec = v]
                    \/ o = [api[n] EXCEPT !.resume = ~@]
                    \/ o = [api[n] EXCEPT !.reconciled = "old"]
                    \/ o = [api[n] EXCEPT !.reconciled = "recent"]
    BY <1>1, <1>3, <1>4 DEF S!User, S!Create, S!Edit, S!Annotate, S!Delete, S!Age, S!Reconciled,
         S!Exists
  <2>2. o.phase = api[n].phase /\ o.hash = api[n].hash
    BY <1>1, <2>1 DEF Object
  <2> QED
    BY <2>1, <2>2
<1>5. CASE (\E phase \in {"Processing", "Failed", "Paused"} : S!Work(n, phase)) \/ S!Queue(n)
           \/ S!QueueAgain(n)
  <2>1. PICK phase \in {"Processing", "Failed", "Paused", "Queued"} :
          \/ api'[n] = [api[n] EXCEPT !.phase = phase]
          \/ api'[n] = [api[n] EXCEPT !.phase = phase, !.hash = api[n].spec]
    BY <1>3, <1>5 DEF S!Work, S!Queue, S!QueueAgain
  <2>2. api'[n].phase = phase
    BY <1>1, <2>1 DEF Object
  <2> QED
    BY <2>2
<1>6. CASE S!Adopt(n)
  BY <1>6 DEF S!Adopt, S!NoHash, NoHash
<1> QED
  BY <1>2, <1>4, <1>5, <1>6 DEF Otherwise
=============================================================================
