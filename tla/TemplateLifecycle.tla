-------------------------- MODULE TemplateLifecycle --------------------------
(***************************************************************************)
(* The life of a KubeTemplate: KubeTemplateReconciler.Reconcile and the    *)
(* TemplateProcessor workers, composed with the work queue (RetryQueue),   *)
(* the API server and the informer cache both read from, users, faults and *)
(* restarts of the operator.                                               *)
(*                                                                         *)
(* A spec is a version; it has templates 1..Size, and verdict[v][k] is     *)
(* what the policy and the API server make of template k of version v:     *)
(*   "ok"       allowed, and it can be applied,                            *)
(*   "reject"   not allowed by the policy (kind, namespace or CEL),        *)
(*   "skip"     does not unmarshal,                                        *)
(*   "error"    the API server refuses it,                                 *)
(*   "replace"  invalid as an update of any other content; Replace is set. *)
(* res[n][k] is resource k of template n: it holds a version, is Absent,   *)
(* or is Foreign, with fields that another field manager changed and now   *)
(* owns; and it is marked or not with the labels and the owner reference   *)
(* that the worker adds.  Resources in Bare have neither a spec nor data   *)
(* (a Role, say).  Templates in Unplaced leave out the namespace, which    *)
(* the worker fills in and the drift correction does not.                  *)
(*                                                                         *)
(* Objects are read from the informer cache and written to the API server  *)
(* under optimistic concurrency: a write succeeds iff the copy it was made *)
(* from is the current version.  A Get and the Update of what it returned  *)
(* are one step: if another write comes between the two the Update         *)
(* conflicts, as it does when both follow that write and the cache is      *)
(* still behind.  Messages, events, counters and timestamps that nothing   *)
(* reads are left out.                                                     *)
(***************************************************************************)
EXTENDS WorkItems, FiniteSets

CONSTANTS
  Workers, Ids, NoItem,   \* as in RetryQueue
  NoObj,                  \* the object does not exist
  Specs,                  \* versions of a spec
  Size,                   \* templates in a spec
  Verdicts,               \* the verdicts considered
  Bare, Unplaced,         \* resources without spec and data; templates without namespace
  Upgraded,               \* start with objects an older release completed
  MaxEdits, MaxResumes, MaxDeletes, MaxCrashes, MaxFaults, MaxTampers  \* bounds

Kinds == 1..Size
NoHash == 0     \* AppliedSpecHash = "" (a hash is the version hashed)
Absent == 0     \* no such resource
Foreign == -1   \* owned by another field manager
Phases == {"", "Queued", "Processing", "Completed", "Failed", "Paused"}

\* Versions are distinct from the markers above.
ASSUME SpecsAssumption == Specs \subseteq Nat \ {0} /\ Size \in Nat

ASSUME ShapeAssumption == Bare \subseteq Kinds /\ Unplaced \subseteq Kinds

\* The reconciler enqueues with priority 0.
ASSUME ZeroAssumption == 0 \in Priorities

ASSUME PoolAssumption == /\ NoItem \notin Ids /\ NoItem \notin WorkItem
                         /\ IsFiniteSet(Workers) /\ Workers # {}

\* resume: annotation kubetemplater.io/resume; reconciled: LastReconcileTime,
\* nil, within half a periodic interval of now, or older.
Object == [spec: Specs, resume: BOOLEAN, phase: Phases,
           hash: Specs \cup {NoHash}, reconciled: {"never", "recent", "old"}]

\* "No object" is neither an object nor a name.
ASSUME NoObjAssumption == NoObj \notin Object /\ NoObj \notin Names

Resource == [holds: Specs \cup {Absent, Foreign}, marked: BOOLEAN]
Nothing == [holds |-> Absent, marked |-> FALSE]

\* What an apply leaves of the worker's object and of the raw template: with one
\* field manager for both, an apply removes the marks it does not mention.
Labelled(v) == [holds |-> v, marked |-> TRUE]
Raw(v) == [holds |-> v, marked |-> FALSE]

VARIABLES
  items, itemsMap, item, held, processingItems,   \* the work queue
  verdict,      \* verdict[v][k]
  api,          \* the KubeTemplate objects
  cache,        \* the informer's copies
  unseen,       \* kinds of changes to an object the informer has not delivered
  ctrlFresh,    \* whether the reconciler's copy is the current version
  res,          \* the resources in the cluster
  pc, reg,      \* each worker: where it is, its local variables
  cpc, cname, creg,           \* the reconciler: likewise, and its key
  pending, retryLater, periodic,   \* keys queued; to be requeued; RequeueAfter
  gaveUp,       \* history: names a worker dropped without pausing them
  used          \* how much of each bound is used

queueVars == <<items, itemsMap, item, held, processingItems>>
ctrlVars == <<cpc, cname, creg>>
timerVars == <<pending, retryLater, periodic>>
objectVars == <<api, unseen, ctrlFresh>>
vars == <<queueVars, verdict, objectVars, cache, res, pc, reg, ctrlVars,
          timerVars, gaveUp, used>>

Q == INSTANCE RetryQueue

\* A hash tells specs apart and is never "".
calculateSpecHash(v) == v

\* The policy has no rule for the template, none for its namespace, or the CEL
\* rule is false or cannot be evaluated.
Rejected(v, k) == verdict[v][k] = "reject"

\* An existing resource k that holds r differs from what applying v would make of
\* it, in its spec or else its data: one that has neither never does.
hasDrift(k, r, v) == k \notin Bare /\ r # v

Exists(n) == api[n] # NoObj
Synced(n) == unseen[n] = {}      \* the cached copy is the current version
Name(w) == item[held[w]].name

\* spec: of kubeTemplate; tmpl: the templates being ranged over; hash: specHash
NoReg == [spec |-> 0, tmpl |-> 0, k |-> 0, tries |-> 0, hash |-> NoHash]
NoCtrl == [obj |-> NoObj, k |-> 0, tries |-> 0, drift |-> FALSE]

\* A change of object n.  Every other copy of it is out of date from here on.
Change(n, o, kind) ==
  /\ api' = [api EXCEPT ![n] = o]
  /\ unseen' = [unseen EXCEPT ![n] = @ \cup {kind}]
  /\ ctrlFresh' = (ctrlFresh /\ cname # n)

\* An API call that fails for a reason other than a conflict.
Fault == used.faults < MaxFaults /\ used' = [used EXCEPT !.faults = @ + 1]
NoFault == UNCHANGED used

NewObject(v) == [spec |-> v, resume |-> FALSE, phase |-> "", hash |-> NoHash,
                 reconciled |-> "never"]

Init ==
  /\ Q!Init
  /\ verdict \in [Specs -> [Kinds -> Verdicts]]
  /\ \E v \in Specs :
       /\ api = [n \in Names |-> IF Upgraded THEN [NewObject(v) EXCEPT !.phase = "Completed"]
                                             ELSE NoObj]
       /\ res = [n \in Names |-> [k \in Kinds |-> IF Upgraded THEN Labelled(v) ELSE Nothing]]
  /\ cache = [n \in Names |-> NoObj]
  /\ unseen = [n \in Names |-> IF Upgraded THEN {"create"} ELSE {}]
  /\ ctrlFresh = FALSE
  /\ pc = [w \in Workers |-> "idle"] /\ reg = [w \in Workers |-> NoReg]
  /\ cpc = "idle" /\ cname = NoObj /\ creg = NoCtrl
  /\ pending = {} /\ retryLater = {} /\ periodic = {}
  /\ gaveUp = {}
  /\ used = [edits |-> 0, resumes |-> 0, deletes |-> 0, crashes |-> 0,
             faults |-> 0, tampers |-> 0]

-----------------------------------------------------------------------------
(* A worker: TemplateProcessor.Start, processItem, updateStatusWithRetry.  *)

Goto(w, l) == pc' = [pc EXCEPT ![w] = l]

\* One pass of updateStatusWithRetry: refetch, update, write; new is what the
\* update function makes of the cached object.  It fills the caller's
\* kubeTemplate with what it fetched, whether or not the write succeeds.  The
\* third conflict in a row is an error like any other.
UpdateStatus(w, new, ok, err) ==
  LET n == Name(w)
      o == cache[n]
      Refetched(t) == reg' = [reg EXCEPT ![w].spec = o.spec, ![w].tries = t]
  IN
  \/ /\ o = NoObj
     /\ Goto(w, err)
     /\ reg' = [reg EXCEPT ![w].tries = 0]
     /\ NoFault /\ UNCHANGED objectVars
  \/ /\ o # NoObj /\ Exists(n) /\ Synced(n)
     /\ Change(n, new, "status")
     /\ Goto(w, ok)
     /\ Refetched(0)
     /\ NoFault
  \/ /\ o # NoObj /\ Exists(n) /\ ~Synced(n)
     /\ IF reg[w].tries < 2 THEN Goto(w, pc[w]) /\ Refetched(reg[w].tries + 1)
                            ELSE Goto(w, err) /\ Refetched(0)
     /\ NoFault /\ UNCHANGED objectVars
  \/ /\ o # NoObj
     /\ (~Exists(n) /\ NoFault) \/ Fault
     /\ Goto(w, err)
     /\ Refetched(0)
     /\ UNCHANGED objectVars

SetPhase(w, phase, ok, err) ==
  UpdateStatus(w, [cache[Name(w)] EXCEPT !.phase = phase], ok, err)

\* What no step of a worker changes.
Outside == <<cache, verdict, ctrlVars, timerVars>>

Dequeue(w) ==
  /\ pc[w] = "idle"
  /\ Q!Dequeue(w)
  /\ Goto(w, "get")
  /\ UNCHANGED <<reg, res, objectVars, gaveUp, used, Outside>>

\* Mutant: a template that is gone is skipped without a call of Done.
GetTemplateSkipsDone(w) ==
  /\ pc[w] = "get"
  /\ IF cache[Name(w)] = NoObj
     THEN Goto(w, "idle") /\ UNCHANGED reg
     ELSE Goto(w, "setProcessing") /\ reg' = [reg EXCEPT ![w].spec = cache[Name(w)].spec]
  /\ UNCHANGED <<queueVars, res, objectVars, gaveUp, used, Outside>>

\* processItem's first Get.
GetTemplate(w) ==
  /\ pc[w] = "get"
  /\ \/ /\ cache[Name(w)] = NoObj
        /\ Goto(w, "done")
        /\ NoFault /\ UNCHANGED reg
     \/ /\ cache[Name(w)] # NoObj
        /\ Goto(w, "setProcessing")
        /\ reg' = [reg EXCEPT ![w].spec = cache[Name(w)].spec]
        /\ NoFault
     \/ Fault /\ Goto(w, "fail") /\ UNCHANGED reg
  /\ UNCHANGED <<queueVars, res, objectVars, gaveUp, Outside>>

\* A failure to write "Processing" is only logged.
SetProcessing(w) ==
  /\ pc[w] = "setProcessing"
  /\ SetPhase(w, "Processing", "policy", "policy")
  /\ UNCHANGED <<queueVars, res, gaveUp, Outside>>

\* Cache.Get: no policy, several policies or a failed List is an error.  The
\* loop ranges over the templates kubeTemplate.Spec holds at this moment.
GetPolicy(w) ==
  /\ pc[w] = "policy"
  /\ \/ /\ NoFault
        /\ Goto(w, "apply")
        /\ reg' = [reg EXCEPT ![w].tmpl = reg[w].spec, ![w].k = 1]
     \/ Fault /\ Goto(w, "setFailed") /\ UNCHANGED reg
  /\ UNCHANGED <<queueVars, res, objectVars, gaveUp, Outside>>

\* Apply without ForceOwnership: it succeeds unless the API server refuses
\* the object, another manager owns its fields, or it needs replacing.
Applies(v, k, r) ==
  \/ verdict[v][k] = "ok" /\ r # Foreign
  \/ verdict[v][k] = "replace" /\ r \in {Absent, v}

\* An error that a replace does not answer to (not Invalid, or no Replace).
Refused(v, k, r) ==
  \/ verdict[v][k] = "error"
  \/ verdict[v][k] \in {"ok", "replace"} /\ r = Foreign

NextTemplate(w) == reg' = [reg EXCEPT ![w].k = @ + 1]

\* One template of the loop, up to its first status update or its Delete.
ApplyTemplate(w) ==
  LET n == Name(w) v == reg[w].tmpl k == reg[w].k r == res[n][k].holds IN
  /\ pc[w] = "apply" /\ k \in Kinds
  /\ \/ /\ verdict[v][k] = "skip"
        /\ NextTemplate(w)
        /\ NoFault /\ UNCHANGED <<pc, res>>
     \/ /\ Rejected(v, k)
        /\ Goto(w, "setRejected")
        /\ NoFault /\ UNCHANGED <<reg, res>>
     \/ /\ Applies(v, k, r)
        /\ res' = [res EXCEPT ![n][k] = Labelled(v)]
        /\ NextTemplate(w)
        /\ NoFault /\ UNCHANGED pc
     \/ /\ verdict[v][k] = "replace" /\ r \notin {Absent, v, Foreign}
        /\ Goto(w, "delete")
        /\ NoFault /\ UNCHANGED <<reg, res>>
     \/ /\ (Refused(v, k, r) /\ NoFault) \/ (verdict[v][k] \in {"ok", "replace"} /\ Fault)
        /\ Goto(w, "setFailed")
        /\ UNCHANGED <<reg, res>>
  /\ UNCHANGED <<queueVars, objectVars, gaveUp, Outside>>

\* Mutant: specHash is that of the spec as it is when the loop is over.
LoopEndsRefetches(w) ==
  /\ pc[w] = "apply" /\ reg[w].k \notin Kinds
  /\ LET o == cache[Name(w)] IN
     reg' = [reg EXCEPT ![w].hash = calculateSpecHash(IF o = NoObj THEN reg[w].spec ELSE o.spec)]
  /\ Goto(w, "setCompleted")
  /\ UNCHANGED <<queueVars, objectVars, res, gaveUp, used, Outside>>

\* The loop is over: specHash is that of the spec kubeTemplate holds by now.
LoopEnds(w) ==
  /\ pc[w] = "apply" /\ reg[w].k \notin Kinds
  /\ reg' = [reg EXCEPT ![w].hash = calculateSpecHash(reg[w].spec)]
  /\ Goto(w, "setCompleted")
  /\ UNCHANGED <<queueVars, objectVars, res, gaveUp, used, Outside>>

\* Not allowed: Failed, then on with the next template, error or not.
SetRejected(w) ==
  /\ pc[w] = "setRejected"
  /\ SetPhase(w, "Failed", "rejected", "rejected")
  /\ UNCHANGED <<queueVars, res, gaveUp, Outside>>

Continue(w) ==
  /\ pc[w] = "rejected"
  /\ NextTemplate(w)
  /\ Goto(w, "apply")
  /\ UNCHANGED <<queueVars, objectVars, res, gaveUp, used, Outside>>

\* The Delete of a replace; an error (not found included) skips the template.
DeleteForReplace(w) ==
  LET n == Name(w) k == reg[w].k IN
  /\ pc[w] = "delete"
  /\ \/ /\ res[n][k].holds # Absent
        /\ res' = [res EXCEPT ![n][k] = Nothing]
        /\ Goto(w, "recreate")
        /\ NoFault /\ UNCHANGED reg
     \/ /\ (res[n][k].holds = Absent /\ NoFault) \/ Fault
        /\ NextTemplate(w) /\ Goto(w, "apply")
        /\ UNCHANGED res
  /\ UNCHANGED <<queueVars, objectVars, gaveUp, Outside>>

\* The second Patch of a replace; its failure is only logged.
ApplyAfterReplace(w) ==
  LET n == Name(w) v == reg[w].tmpl k == reg[w].k IN
  /\ pc[w] = "recreate"
  /\ \/ /\ Applies(v, k, res[n][k].holds)
        /\ res' = [res EXCEPT ![n][k] = Labelled(v)]
        /\ NoFault
     \/ /\ (~Applies(v, k, res[n][k].holds) /\ NoFault) \/ Fault
        /\ UNCHANGED res
  /\ NextTemplate(w) /\ Goto(w, "apply")
  /\ UNCHANGED <<queueVars, objectVars, gaveUp, Outside>>

SetFailed(w) ==
  /\ pc[w] = "setFailed"
  /\ SetPhase(w, "Failed", "fail", "fail")
  /\ UNCHANGED <<queueVars, res, gaveUp, Outside>>

SetCompleted(w) ==
  /\ pc[w] = "setCompleted"
  /\ UpdateStatus(w, [cache[Name(w)] EXCEPT !.phase = "Completed", !.hash = reg[w].hash],
                  "done", "fail")
  /\ UNCHANGED <<queueVars, res, gaveUp, Outside>>

\* Mutant: the worker calls Requeue although it is going to pause the template.
RequeueAlways(w) ==
  /\ pc[w] = "fail"
  /\ Q!Requeue(w)
  /\ Goto(w, "idle") /\ reg' = [reg EXCEPT ![w] = NoReg]
  /\ UNCHANGED <<objectVars, res, gaveUp, used, Outside>>

\* Mutant: the worker calls Done after an error.
DoneAfterError(w) ==
  /\ pc[w] = "fail" /\ ~CyclesExhausted(item[held[w]])
  /\ Q!Done(w)
  /\ Goto(w, "idle") /\ reg' = [reg EXCEPT ![w] = NoReg]
  /\ UNCHANGED <<objectVars, res, gaveUp, used, Outside>>

\* Start, after an error: pause after the last cycle, else requeue.
Requeue(w) ==
  /\ pc[w] = "fail" /\ ~CyclesExhausted(item[held[w]])
  /\ Q!Requeue(w)
  /\ Goto(w, "idle") /\ reg' = [reg EXCEPT ![w] = NoReg]
  /\ UNCHANGED <<objectVars, res, gaveUp, used, Outside>>

OutOfRetries(w) ==
  /\ pc[w] = "fail" /\ CyclesExhausted(item[held[w]])
  /\ Goto(w, "setPaused")
  /\ UNCHANGED <<queueVars, reg, objectVars, res, gaveUp, used, Outside>>

\* A failure to write "Paused" is only logged.
SetPaused(w) ==
  /\ pc[w] = "setPaused"
  /\ SetPhase(w, "Paused", "done", "dropped")
  /\ UNCHANGED <<queueVars, res, gaveUp, Outside>>

Done(w) ==
  /\ pc[w] \in {"done", "dropped"}
  /\ gaveUp' = gaveUp \cup (IF pc[w] = "dropped" THEN {Name(w)} ELSE {})
  /\ Q!Done(w)
  /\ Goto(w, "idle") /\ reg' = [reg EXCEPT ![w] = NoReg]
  /\ UNCHANGED <<objectVars, res, used, Outside>>

-----------------------------------------------------------------------------
(* The reconciler: KubeTemplateReconciler.Reconcile, one key at a time.    *)

\* What no step of the reconciler changes but the ones that say so.
Inside == <<verdict, cache, pc, reg, gaveUp>>

\* Reconcile starts with key n and the cached object.
Take(n, o) ==
  /\ cpc = "idle" /\ n \in pending
  /\ o = cache[n]
  /\ pending' = pending \ {n}

Return == cpc' = "idle" /\ cname' = NoObj /\ creg' = NoCtrl
ReturnNothing == Return /\ UNCHANGED <<retryLater, periodic>>
ReturnError(n) == Return /\ retryLater' = retryLater \cup {n} /\ UNCHANGED periodic
ReturnPeriodic(n) == Return /\ periodic' = periodic \cup {n} /\ UNCHANGED retryLater

\* Control moves to step l with the object read; no timer is set.
Proceed(n, o, l, k) ==
  /\ cpc' = l /\ cname' = n
  /\ creg' = [NoCtrl EXCEPT !.obj = o, !.k = k]
  /\ UNCHANGED <<retryLater, periodic>>

\* A status update whose conflict is ignored: Enqueue follows all the same.
UpdateThenEnqueue(n, o) ==
  \/ /\ Exists(n) /\ Synced(n)
     /\ Change(n, o, "status")
     /\ Proceed(n, o, "enqueue", 0)
     /\ NoFault
  \/ /\ Exists(n) /\ ~Synced(n)
     /\ Proceed(n, o, "enqueue", 0)
     /\ NoFault /\ UNCHANGED objectVars
  \/ /\ (~Exists(n) /\ NoFault) \/ Fault
     /\ ReturnError(n)
     /\ UNCHANGED objectVars

\* The Get at the top: not found, or an error.
ReconcileNothing(n) ==
  /\ Take(n, cache[n])
  /\ \/ cache[n] = NoObj /\ ReturnNothing /\ NoFault
     \/ ReturnError(n) /\ Fault
  /\ UNCHANGED <<queueVars, objectVars, res, Inside>>

ReconcilePaused(n) ==
  \E o \in {cache[n]} \ {NoObj} :
    /\ Take(n, o) /\ o.phase = "Paused"
    /\ IF o.resume THEN UpdateThenEnqueue(n, [o EXCEPT !.phase = "Queued"])
                   ELSE ReturnNothing /\ NoFault /\ UNCHANGED objectVars
    /\ UNCHANGED <<queueVars, res, Inside>>

ReconcileFailed(n) ==
  \E o \in {cache[n]} \ {NoObj} :
    /\ Take(n, o) /\ o.phase = "Failed"
    /\ IF o.hash \notin {NoHash, calculateSpecHash(o.spec)}
       THEN UpdateThenEnqueue(n, [o EXCEPT !.phase = "Queued",
                                           !.hash = calculateSpecHash(o.spec)])
       ELSE ReturnNothing /\ NoFault /\ UNCHANGED objectVars
    /\ UNCHANGED <<queueVars, res, Inside>>

\* An object of an older release: any failure of the update is only logged.
PopulateHash(n, o) ==
  /\ \/ /\ Exists(n) /\ Synced(n)
        /\ Change(n, [o EXCEPT !.hash = calculateSpecHash(o.spec)], "status")
        /\ NoFault
     \/ /\ (~(Exists(n) /\ Synced(n)) /\ NoFault) \/ Fault
        /\ UNCHANGED objectVars
  /\ ReturnPeriodic(n)

\* The drift detection starts from the cached copy, which may be stale.
StartDrift(n, o) ==
  /\ Proceed(n, o, "drift", 1)
  /\ ctrlFresh' = Synced(n)
  /\ NoFault /\ UNCHANGED <<api, unseen>>

ReconcileCompleted(n) ==
  \E o \in {cache[n]} \ {NoObj} : LET currentHash == calculateSpecHash(o.spec) IN
    /\ Take(n, o) /\ o.phase = "Completed"
    /\ \/ o.hash = NoHash /\ PopulateHash(n, o)
       \/ /\ o.hash \notin {NoHash, currentHash}
          /\ UpdateThenEnqueue(n, [o EXCEPT !.phase = "Queued", !.hash = currentHash])
       \/ /\ o.hash = currentHash
          /\ IF Q!Contains(n) \/ o.reconciled = "recent"
             THEN ReturnPeriodic(n) /\ NoFault /\ UNCHANGED objectVars
             ELSE StartDrift(n, o)
    /\ UNCHANGED <<queueVars, res, Inside>>

\* Mutant: a template that is Queued or Processing already is left alone.
ReconcileOnlyNew(n) ==
  \E o \in {cache[n]} \ {NoObj} :
    /\ Take(n, o) /\ o.phase \in {"", "Queued", "Processing"}
    /\ IF o.phase = "" THEN Proceed(n, o, "new", 0) ELSE ReturnNothing
    /\ UNCHANGED <<queueVars, objectVars, res, used, Inside>>

\* A new template, or one that is Queued or Processing already.
ReconcileNew(n) ==
  \E o \in {cache[n]} \ {NoObj} :
    /\ Take(n, o) /\ o.phase \in {"", "Queued", "Processing"}
    /\ Proceed(n, o, IF o.phase = "" THEN "new" ELSE "enqueue", 0)
    /\ UNCHANGED <<queueVars, objectVars, res, used, Inside>>

\* RetryOnConflict: four attempts, each with a fresh Get.
SetQueued ==
  LET n == cname o == cache[n] IN
  /\ cpc = "new"
  /\ \/ /\ o # NoObj /\ Exists(n) /\ Synced(n)
        /\ Change(n, [o EXCEPT !.phase = "Queued"], "status")
        /\ cpc' = "enqueue"
        /\ NoFault /\ UNCHANGED <<cname, creg, retryLater, periodic>>
     \/ /\ o # NoObj /\ Exists(n) /\ ~Synced(n) /\ creg.tries < 3
        /\ creg' = [creg EXCEPT !.tries = @ + 1]
        /\ NoFault /\ UNCHANGED <<objectVars, cpc, cname, retryLater, periodic>>
     \/ /\ \/ (o = NoObj \/ ~Exists(n) \/ (~Synced(n) /\ creg.tries = 3)) /\ NoFault
           \/ Fault
        /\ ReturnError(n)
        /\ UNCHANGED objectVars
  /\ UNCHANGED <<queueVars, res, pending, Inside>>

Enqueue ==
  /\ cpc = "enqueue"
  /\ Q!Enqueue(cname, 0)
  /\ ReturnNothing
  /\ UNCHANGED <<objectVars, res, pending, used, Inside>>

\* Mutant: the drift correction without ForceOwnership.
AppliesUnforced(v, k, r) ==
  verdict[v][k] \in {"ok", "reject"} /\ k \notin Unplaced /\ r # Foreign

\* A forced Apply (policy and field owners are not asked): the dry run and the
\* real one succeed unless the API server refuses the object, as it does an
\* object of a namespaced kind that has no namespace.
ForceApplies(v, k, r) ==
  /\ k \notin Unplaced
  /\ \/ verdict[v][k] \in {"ok", "reject"}
     \/ verdict[v][k] = "replace" /\ r \in {Absent, v}

\* One template of applyTemplateResources: Get, dry run, compare, and apply the raw
\* template if it drifted or is missing.  Drift is recorded before the apply, which
\* may fail; the Get or the dry run may too.
DriftTemplate ==
  LET n == cname v == creg.obj.spec k == creg.k r == res[n][k].holds
      drifted == r # Absent /\ hasDrift(k, r, v)
  IN
  /\ cpc = "drift" /\ k \in Kinds
  /\ \/ /\ ForceApplies(v, k, r)
        /\ creg' = [creg EXCEPT !.k = k + 1, !.drift = @ \/ drifted]
        /\ \/ /\ r = Absent \/ drifted
              /\ \/ res' = [res EXCEPT ![n][k] = Raw(v)] /\ NoFault
                 \/ Fault /\ UNCHANGED res
           \/ r # Absent /\ ~drifted /\ NoFault /\ UNCHANGED res
     \/ /\ (~ForceApplies(v, k, r) /\ NoFault) \/ Fault
        /\ creg' = [creg EXCEPT !.k = k + 1]
        /\ UNCHANGED res
  /\ UNCHANGED <<queueVars, objectVars, cpc, cname, timerVars, Inside>>

\* Mutant: the status of the copy read at the start is written whatever happened since.
DriftEndsUnchecked ==
  LET n == cname o == creg.obj IN
  /\ cpc = "drift" /\ creg.k \notin Kinds
  /\ IF (creg.drift \/ o.reconciled = "never") /\ Exists(n)
     THEN Change(n, [o EXCEPT !.reconciled = "recent"], "status")
     ELSE UNCHANGED objectVars
  /\ NoFault /\ ReturnPeriodic(n)
  /\ UNCHANGED <<queueVars, res, pending, Inside>>

\* The status is written on drift or the first time; a failure is only logged.
DriftEnds ==
  LET n == cname
      o == creg.obj
      needsStatusUpdate == creg.drift \/ o.reconciled = "never"
  IN
  /\ cpc = "drift" /\ creg.k \notin Kinds
  /\ \/ /\ needsStatusUpdate /\ Exists(n) /\ ctrlFresh
        /\ Change(n, [o EXCEPT !.reconciled = "recent"], "status")
        /\ NoFault
     \/ /\ \/ ~(needsStatusUpdate /\ Exists(n) /\ ctrlFresh) /\ NoFault
           \/ needsStatusUpdate /\ Fault
        /\ UNCHANGED objectVars
  /\ ReturnPeriodic(n)
  /\ UNCHANGED <<queueVars, res, pending, Inside>>

-----------------------------------------------------------------------------
(* The informer, time, users and the rest of the world.                    *)

Components == <<queueVars, pc, reg, ctrlVars>>

\* Mutants: updates of the spec, or of the annotations, are ignored.
TriggersNotOnSpec(kinds) == kinds \cap {"create", "delete", "annotation"} # {}
TriggersNotOnAnnotation(kinds) == kinds \cap {"create", "delete", "spec"} # {}

\* SetupWithManager: creations and deletions pass, and updates that change
\* the spec, an annotation or a label; a change of the status does not.
Triggers(kinds) == kinds \cap {"create", "delete", "spec", "annotation"} # {}

\* The informer delivers what it has not delivered of n.
CacheSync(n) ==
  /\ ~Synced(n)
  /\ cache' = [cache EXCEPT ![n] = api[n]]
  /\ unseen' = [unseen EXCEPT ![n] = {}]
  /\ pending' = pending \cup (IF Triggers(unseen[n]) THEN {n} ELSE {})
  /\ UNCHANGED <<Components, verdict, api, ctrlFresh, res, retryLater, periodic, gaveUp, used>>

RetryFires(n) ==
  /\ n \in retryLater
  /\ retryLater' = retryLater \ {n}
  /\ pending' = pending \cup {n}
  /\ UNCHANGED <<Components, verdict, objectVars, cache, res, periodic, gaveUp, used>>

PeriodicFires(n) ==
  /\ n \in periodic
  /\ periodic' = periodic \ {n}
  /\ pending' = pending \cup {n}
  /\ UNCHANGED <<Components, verdict, objectVars, cache, res, retryLater, gaveUp, used>>

Aged(o) == IF o # NoObj /\ o.reconciled = "recent" THEN [o EXCEPT !.reconciled = "old"] ELSE o

\* Half an interval has passed since the last reconciliation of n.
Age(n) ==
  /\ Aged(api[n]) # api[n]
  /\ api' = [api EXCEPT ![n] = Aged(@)]
  /\ cache' = [cache EXCEPT ![n] = Aged(@)]
  /\ UNCHANGED <<Components, verdict, unseen, ctrlFresh, res, timerVars, gaveUp, used>>

Create(n, v) ==
  /\ ~Exists(n) /\ used.edits < MaxEdits
  /\ Change(n, NewObject(v), "create")
  /\ gaveUp' = gaveUp \ {n}
  /\ used' = [used EXCEPT !.edits = @ + 1]
  /\ UNCHANGED <<Components, verdict, cache, res, timerVars>>

Edit(n, v) ==
  /\ Exists(n) /\ v # api[n].spec /\ used.edits < MaxEdits
  /\ Change(n, [api[n] EXCEPT !.spec = v], "spec")
  /\ used' = [used EXCEPT !.edits = @ + 1]
  /\ UNCHANGED <<Components, verdict, cache, res, timerVars, gaveUp>>

\* The user sets or removes the annotation kubetemplater.io/resume.
Annotate(n) ==
  /\ Exists(n) /\ used.resumes < MaxResumes
  /\ Change(n, [api[n] EXCEPT !.resume = ~@], "annotation")
  /\ used' = [used EXCEPT !.resumes = @ + 1]
  /\ UNCHANGED <<Components, verdict, cache, res, timerVars, gaveUp>>

Delete(n) ==
  /\ Exists(n) /\ used.deletes < MaxDeletes
  /\ Change(n, NoObj, "delete")
  /\ used' = [used EXCEPT !.deletes = @ + 1]
  /\ UNCHANGED <<Components, verdict, cache, res, timerVars, gaveUp>>

\* Somebody else deletes a resource or changes it and owns the fields.
Tamper(n, k, r) ==
  /\ res[n][k].holds # r /\ used.tampers < MaxTampers
  /\ res' = [res EXCEPT ![n][k] = IF r = Absent THEN Nothing ELSE [@ EXCEPT !.holds = r]]
  /\ used' = [used EXCEPT !.tampers = @ + 1]
  /\ UNCHANGED <<Components, verdict, objectVars, cache, timerVars, gaveUp>>

\* The process stops and is started again: the queue, the workers, the timers
\* and the cache are gone, and the informer will list every object.
Crash ==
  /\ used.crashes < MaxCrashes
  /\ used' = [used EXCEPT !.crashes = @ + 1]
  /\ items' = {} /\ itemsMap' = [n \in Names |-> NoItem]
  /\ item' = [i \in Ids |-> NoItem] /\ held' = [w \in Workers |-> NoItem]
  /\ processingItems' = 0
  /\ pc' = [w \in Workers |-> "idle"] /\ reg' = [w \in Workers |-> NoReg]
  /\ cpc' = "idle" /\ cname' = NoObj /\ creg' = NoCtrl /\ ctrlFresh' = FALSE
  /\ pending' = {} /\ retryLater' = {} /\ periodic' = {} /\ gaveUp' = {}
  /\ cache' = [n \in Names |-> NoObj]
  /\ unseen' = [n \in Names |-> IF Exists(n) THEN {"create"} ELSE {}]
  /\ UNCHANGED <<verdict, api, res>>

-----------------------------------------------------------------------------

Worker(w) ==
  \/ Dequeue(w) \/ GetTemplate(w) \/ SetProcessing(w) \/ GetPolicy(w)
  \/ ApplyTemplate(w) \/ LoopEnds(w) \/ SetRejected(w) \/ Continue(w)
  \/ DeleteForReplace(w) \/ ApplyAfterReplace(w) \/ SetFailed(w)
  \/ SetCompleted(w) \/ Requeue(w) \/ OutOfRetries(w) \/ SetPaused(w) \/ Done(w)

Reconcile(n) ==
  \/ ReconcileNothing(n) \/ ReconcilePaused(n) \/ ReconcileFailed(n)
  \/ ReconcileCompleted(n) \/ ReconcileNew(n)

Reconciler == SetQueued \/ Enqueue \/ DriftTemplate \/ DriftEnds

Environment ==
  \/ \E n \in Names, v \in Specs : Create(n, v) \/ Edit(n, v)
  \/ \E n \in Names : Annotate(n) \/ Delete(n)
  \/ \E n \in Names, k \in Kinds, r \in {Absent, Foreign} : Tamper(n, k, r)
  \/ Crash

Timers(n) == RetryFires(n) \/ PeriodicFires(n) \/ Age(n)

Next ==
  \/ \E w \in Workers : Worker(w)
  \/ \E n \in Names : Reconcile(n) \/ CacheSync(n) \/ Timers(n)
  \/ Reconciler
  \/ Environment

Spec == Init /\ [][Next]_vars

\* Goroutines, the informer and timers make progress, and the controller's
\* queue is first in, first out, so that no key waits for ever behind another;
\* nobody has to edit, tamper or crash.
Fairness ==
  /\ \A w \in Workers : WF_vars(Worker(w))
  /\ \A n \in Names :
       /\ SF_vars(Reconcile(n)) /\ WF_vars(CacheSync(n))
       /\ WF_vars(RetryFires(n)) /\ WF_vars(PeriodicFires(n)) /\ WF_vars(Age(n))
  /\ WF_vars(Reconciler)

FairSpec == Spec /\ Fairness

-----------------------------------------------------------------------------
(* Properties.                                                             *)

\* The state of the composition has its type.
TypeOK ==
  /\ Q!TypeOK
  /\ verdict \in [Specs -> [Kinds -> Verdicts]]
  /\ api \in [Names -> Object \cup {NoObj}] /\ cache \in [Names -> Object \cup {NoObj}]
  /\ unseen \in [Names -> SUBSET {"create", "delete", "spec", "annotation", "status"}]
  /\ ctrlFresh \in BOOLEAN
  /\ res \in [Names -> [Kinds -> Resource]]
  /\ \A w \in Workers : pc[w] = "idle" <=> held[w] = NoItem
  /\ cpc \in {"idle", "new", "enqueue", "drift"}
  /\ cpc = "idle" <=> cname = NoObj
  /\ pending \cup retryLater \cup periodic \cup gaveUp \subseteq Names

\* Somebody is still going to deal with n: its key is with the controller or
\* will be, it is in the work queue, or a worker is at work on it.
Owned(n) ==
  \/ n \in pending \cup retryLater \cup periodic \cup {cname}
  \/ Triggers(unseen[n])
  \/ \E i \in items : item[i].name = n
  \/ \E w \in Workers : pc[w] \notin {"idle", "done"} /\ Name(w) = n

\* A template that is new, Queued or Processing is never forgotten, whatever
\* conflicts, failed calls and restarts happen: the reason why Reconcile falls
\* back to a requeue (Reconcile, processItem), and why a restart recovers it.
\* The one exception is a worker that could not write "Paused".
UnfinishedOwned ==
  \A n \in Names :
    Exists(n) /\ api[n].phase \in {"", "Queued", "Processing"} => Owned(n) \/ n \in gaveUp

\* A Failed template is waiting for a retry ("Failed templates - will be
\* retried", Reconcile), until a worker drops it for good.
FailedOwned ==
  \A n \in Names : Exists(n) /\ api[n].phase = "Failed" => Owned(n) \/ n \in gaveUp

\* The same as far as the worker's Requeue after an error (Start) keeps it: failed
\* calls, conflicts and edits do no harm, only a restart forgets a Failed template.
FailedOwnedUntilRestart == used.crashes = 0 => FailedOwned

\* All that spec asks for and the policy and the API server grant is there.
Granted(n) == {k \in Kinds : verdict[api[n].spec][k] \in {"ok", "replace"}}
Applied(n) == \A k \in Granted(n) : res[n][k].holds = api[n].spec

\* The status says that the spec as it is was applied.
RecordedApplied(n) ==
  Exists(n) /\ api[n].phase = "Completed" /\ api[n].hash = calculateSpecHash(api[n].spec)

Settled(n) == ~Exists(n) \/ n \in gaveUp \/ (RecordedApplied(n) /\ Applied(n))

\* A template that is never Failed or Paused ends up Completed with its last
\* spec applied and hashed, whatever edits raced the worker (Reconcile's hash
\* comparison, processItem).
Converges ==
  \A n \in Names :
    [](Exists(n) => api[n].phase \notin {"Failed", "Paused"}) => <>[]Settled(n)

\* The retry cycles end: every template ends up Completed or Paused, unless a
\* worker dropped it without pausing it (Start, Requeue).
Finishes ==
  \A n \in Names :
    <>[](Exists(n) => api[n].phase \in {"Completed", "Paused"} \/ n \in gaveUp)

\* Setting the resume annotation of a Paused template takes it out of Paused
\* (Reconcile, first branch; the predicate of SetupWithManager lets it through).
ResumeHonoured ==
  \A n \in Names :
    (Exists(n) /\ api[n].phase = "Paused" /\ api[n].resume /\ "annotation" \in unseen[n])
      ~> (~Exists(n) \/ api[n].phase # "Paused" \/ ~api[n].resume \/ n \in gaveUp)

\* In the end the resources of a Completed template are what its spec says, as the
\* documents say of processItem and of applyTemplateResources.
EventuallyInSync ==
  \A n \in Names : <>[](Exists(n) /\ api[n].phase = "Completed" => Applied(n))

\* What somebody else did to a resource that periodic reconciliation never repairs:
\* any change of one without spec and data, and everything to one whose template
\* leaves out the namespace.
Unrepaired(n, k) ==
  \/ k \in Bare /\ res[n][k].holds = Foreign
  \/ k \in Unplaced /\ res[n][k].holds \in {Absent, Foreign}

\* In the end the status is right about the resources: where it says that the spec was
\* applied (Completed, with the hash of that spec), and no worker dropped the template
\* half-way, they hold it, or what somebody else made of them that drift detection does
\* not see.  Periodic reconciliation repairs the
\* rest, and never leaves an older spec over what a worker applied; and where nobody else
\* interferes it leaves the labels and the owner reference alone (processItem;
\* applyTemplateResources, hasDrift, RequeueAfter).
DriftRepaired ==
  \A n \in Names :
    <>[](RecordedApplied(n) /\ n \notin gaveUp =>
           \A k \in Granted(n) :
             /\ res[n][k].holds = api[n].spec \/ Unrepaired(n, k)
             /\ used.tampers = 0 => res[n][k].marked)

\* Workers and reconciler use the queue as RetryQueue allows: one Done or Fail
\* for each Dequeue, and a Requeue only with retries left (Start).  So its
\* theorems hold here; a restart starts it again.
UsesQueue == Q!Init /\ [][Q!Next \/ Q!Init']_Q!vars

S == INSTANCE TemplateStatus

\* Every change of an object is one that TemplateStatus allows of the object as it
\* is then, although workers and reconciler compute what they write from the cache,
\* or from a copy read before a round of drift detection (updateStatusWithRetry;
\* Reconcile's status updates and the conflicts they ignore).
ImplementsStatus == S!Spec

\* A template becomes Completed, or gets another hash while it is, only when a worker
\* went through all the templates of the spec hashed (processItem).  There are two
\* exceptions: an object that an older release completed is hashed as it is, and the
\* status update for a rejected template fills in a spec that the loop does not run.
HashedIsRun ==
  [][\A n \in Names :
       /\ Exists(n) /\ api'[n] # NoObj /\ api'[n].phase = "Completed"
       /\ <<api'[n].phase, api'[n].hash>> # <<api[n].phase, api[n].hash>>
       => \/ api[n].phase = "Completed" /\ api[n].hash = NoHash
          \/ \E w \in Workers :
               /\ held[w] # NoItem /\ Name(w) = n /\ reg[w].k = Size + 1
               /\ \/ api'[n].hash = calculateSpecHash(reg[w].tmpl)
                  \/ \E k \in Kinds : Rejected(reg[w].tmpl, k)]_vars
=============================================================================
