-------------------------- MODULE NamespaceCleanup ---------------------------
(***************************************************************************)
(* NamespaceReconciler (internal/controller/namespace_controller.go) on    *)
(* one namespace: it puts a finalizer on it and, when the namespace is     *)
(* being deleted, deletes the KubeTemplates that it lists and takes the    *)
(* finalizer off.  Meanwhile KubeTemplates are admitted to the namespace;  *)
(* the API server refuses requests to create one in a namespace that is    *)
(* being deleted when they arrive, not when they return from the webhook.  *)
(*                                                                         *)
(* Reads go to informers that lag behind; an update made with an old       *)
(* version of the namespace is a conflict.                                 *)
(***************************************************************************)
EXTENDS Admission

CONSTANTS
  Gone,
  MaxTouches,    \* bound on changes to the namespace by others
  MaxFaults      \* bound on failing calls and restarts

ASSUME BoundAssumption == MaxTouches \in Nat /\ MaxFaults \in Nat

VARIABLES
  ns,            \* the namespace: being deleted?, our finalizer, version; or Gone
  nsSeen,        \* the informer's copy
  seen,          \* the names of the KubeTemplates in the informer
  queued,        \* the namespace is in the controller's queue
  at, copy,      \* the reconciler: its next call, the namespace as it read it
  listed, todo,  \* history: what it listed; what it has yet to delete
  touches, faults

reconcilerVars == <<queued, at, copy, listed, todo>>
nsVars == <<ns, nsSeen, seen, reconcilerVars, touches, faults>>
vars == <<admissionVars, nsVars>>

Present == {n \in Names : store[n] # NoObject}
Deleting == ns # Gone /\ ns.deleting

CleanupTypeOK ==
  /\ AdmissionTypeOK
  /\ ns = Gone \/ ns \in [deleting : BOOLEAN, finalizer : BOOLEAN, version : Nat]
  /\ nsSeen = Gone \/ nsSeen.version \in Nat
  /\ seen \subseteq Names /\ todo \subseteq Names /\ listed \subseteq Names
  /\ queued \in BOOLEAN
  /\ at \in {"idle", "add", "list", "delete"}
  /\ touches \in 0..MaxTouches /\ faults \in 0..MaxFaults

Init ==
  /\ AdmissionInit
  /\ ns = [deleting |-> FALSE, finalizer |-> FALSE, version |-> 0]
  /\ nsSeen = ns /\ seen = {}
  /\ queued = TRUE
  /\ at = "idle" /\ copy = Gone /\ listed = {} /\ todo = {}
  /\ touches = 0 /\ faults = 0
-----------------------------------------------------------------------------
(* The reconciler.                                                         *)

Fault == faults < MaxFaults /\ faults' = faults + 1
NoFault == UNCHANGED faults

Return == at' = "idle" /\ copy' = Gone /\ todo' = {} /\ UNCHANGED listed
Finish == Return /\ UNCHANGED queued
\* Mutant: an error is logged and not returned.
LogError == Return /\ UNCHANGED queued
\* With an error, the key is queued again.
Retry == Return /\ queued' = TRUE

\* The Get at the start of Reconcile, and what it leads to; when it fails, the key is
\* queued again and nothing else has changed.
Reconcile ==
  /\ at = "idle" /\ queued
  /\ \/ /\ NoFault /\ queued' = FALSE
        /\ IF nsSeen # Gone /\ (nsSeen.deleting <=> nsSeen.finalizer)
           THEN at' = (IF nsSeen.deleting THEN "list" ELSE "add") /\ copy' = nsSeen
           ELSE UNCHANGED <<at, copy>>
     \/ Fault /\ UNCHANGED <<queued, at, copy>>
  /\ UNCHANGED <<admissionVars, ns, nsSeen, seen, listed, todo, touches>>

\* Mutant: the update is sent without the version that was read.
UpdateUnconditionally(finalizer) ==
  /\ IF ns # Gone THEN ns' = [ns EXCEPT !.finalizer = finalizer, !.version = @ + 1] /\ Finish
     ELSE UNCHANGED ns /\ Retry
  /\ NoFault
  /\ UNCHANGED <<admissionVars, nsSeen, seen, touches>>

\* The namespace has not changed since it was read.
UpToDate == ns # Gone /\ ns.version = copy.version

\* The Update that ends a Reconcile: a conflict if not UpToDate; it may also fail
\* otherwise, having taken effect or not.
Update(finalizer) ==
  /\ \/ /\ UpToDate
        /\ ns' = [ns EXCEPT !.finalizer = finalizer, !.version = @ + 1]
        /\ (NoFault /\ Finish) \/ (Fault /\ Retry)
     \/ ~UpToDate /\ NoFault /\ UNCHANGED ns /\ Retry
     \/ Fault /\ UNCHANGED ns /\ Retry
  /\ UNCHANGED <<admissionVars, nsSeen, seen, touches>>

AddFinalizer == at = "add" /\ Update(TRUE)

ListTemplates ==
  /\ at = "list"
  /\ \/ NoFault /\ at' = "delete" /\ listed' = seen /\ todo' = seen /\ UNCHANGED <<queued, copy>>
     \/ Fault /\ Retry
  /\ UNCHANGED <<admissionVars, ns, nsSeen, seen, touches>>

\* Mutant: an error of Delete is passed over.
DeleteAnyway(n) ==
  /\ at = "delete" /\ n \in todo
  /\ todo' = todo \ {n}
  /\ \/ NoFault /\ Remove(n)
     \/ Fault /\ UNCHANGED <<store, processed>>
  /\ UNCHANGED <<request, made, regexCache, requests, ns, nsSeen, seen, queued, at, copy, listed, touches>>

\* Delete of a KubeTemplate that is listed, gone or not; an error ends the Reconcile.
DeleteTemplate(n) ==
  /\ at = "delete" /\ n \in todo
  /\ \/ NoFault /\ Remove(n) /\ todo' = todo \ {n} /\ UNCHANGED <<queued, at, copy, listed>>
     \/ Fault /\ Retry /\ (Remove(n) \/ UNCHANGED <<store, processed>>)
  /\ UNCHANGED <<request, made, regexCache, requests, ns, nsSeen, seen, touches>>

RemoveFinalizer == at = "delete" /\ todo = {} /\ Update(FALSE)

Reconciler ==
  Reconcile \/ AddFinalizer \/ ListTemplates \/ (\E n \in Names : DeleteTemplate(n))
  \/ RemoveFinalizer
-----------------------------------------------------------------------------
(* Everything else.                                                        *)

\* A Namespace changes: SetupWithManager has the controller queue it.
SyncNamespace ==
  /\ nsSeen # ns
  /\ nsSeen' = ns /\ queued' = TRUE
  /\ UNCHANGED <<admissionVars, ns, seen, at, copy, listed, todo, touches, faults>>

SyncTemplates ==
  /\ seen # Present
  /\ seen' = Present
  /\ UNCHANGED <<admissionVars, ns, nsSeen, reconcilerVars, touches, faults>>

\* The leader ends; the next one lists everything anew.
Restart ==
  /\ Fault
  /\ nsSeen' = ns /\ seen' = Present /\ queued' = TRUE
  /\ at' = "idle" /\ copy' = Gone /\ todo' = {} /\ listed' = {}
  /\ UNCHANGED <<admissionVars, ns, touches>>

\* Somebody labels the namespace, or deletes it.
Touch ==
  /\ ns # Gone /\ touches < MaxTouches /\ touches' = touches + 1
  /\ ns' = [ns EXCEPT !.version = @ + 1]
  /\ UNCHANGED <<admissionVars, nsSeen, seen, reconcilerVars, faults>>

DeleteNamespace ==
  /\ ns # Gone /\ ~ns.deleting
  /\ ns' = [ns EXCEPT !.deleting = TRUE, !.version = @ + 1]
  /\ UNCHANGED <<admissionVars, nsSeen, seen, reconcilerVars, touches, faults>>

\* Kubernetes too deletes what is in such a namespace, and drops the namespace when
\* it is empty and has no finalizer.
EmptyNamespace(n) ==
  /\ Deleting /\ n \in Present /\ Remove(n)
  /\ UNCHANGED <<request, made, regexCache, requests, nsVars>>

DropNamespace ==
  /\ Deleting /\ ~ns.finalizer /\ Present = {}
  /\ ns' = Gone
  /\ UNCHANGED <<admissionVars, nsSeen, seen, reconcilerVars, touches, faults>>

ReceiveHere(h, n, templates, policy) ==
  /\ ns # Gone /\ (Deleting => store[n] # NoObject)
  /\ Receive(h, n, templates, policy)
  /\ UNCHANGED nsVars

ValidateHere(h) == Validate(h) /\ UNCHANGED nsVars

\* A KubeTemplate that is created anew is not the one that was listed.
AnswerHere(h) ==
  /\ Answer(h, ns # Gone)
  /\ listed' = IF Stores(h) /\ store[request[h].name] = NoObject
               THEN listed \ {request[h].name} ELSE listed
  /\ todo' = todo
  /\ UNCHANGED <<ns, nsSeen, seen, queued, at, copy, touches, faults>>

\* Every step but the arrival of a request.
Proceed ==
  \/ Reconciler \/ SyncNamespace \/ SyncTemplates \/ Restart
  \/ Touch \/ DeleteNamespace \/ DropNamespace
  \/ \E n \in Names : EmptyNamespace(n)
  \/ \E n \in Names, policy \in Policies \union {None} : Process(n, policy) /\ UNCHANGED nsVars
  \/ \E h \in Handlers : ValidateHere(h) \/ AnswerHere(h)
  \/ Fatal /\ UNCHANGED nsVars

Next ==
  \/ Proceed
  \/ \E h \in Handlers, n \in Names, templates \in Specs, policy \in Policies \union {None} :
       ReceiveHere(h, n, templates, policy)

Spec == Init /\ [][Next]_vars

\* Goroutines, informers and Kubernetes' own cleanup make progress.
Fairness ==
  /\ WF_vars(Reconciler) /\ WF_vars(SyncNamespace) /\ WF_vars(SyncTemplates)
  /\ \A n \in Names : WF_vars(EmptyNamespace(n))
  /\ WF_vars(DropNamespace)
  /\ \A h \in Handlers : WF_vars(ValidateHere(h) \/ AnswerHere(h))

FairSpec == Spec /\ Fairness
-----------------------------------------------------------------------------
(***************************************************************************)
(* A namespace that is being deleted without our finalizer never gets it,  *)
(* although Reconcile decides by an old copy: it would not be taken off    *)
(* again in time (Reconcile's Update).                                     *)
(***************************************************************************)
NeverAddedLate ==
  [][Deleting /\ ~ns.finalizer => ns' = Gone \/ ~ns'.finalizer]_vars

(***************************************************************************)
(* When the finalizer is taken off, all KubeTemplates that Reconcile had   *)
(* listed have been deleted, whatever calls failed and whoever else        *)
(* deleted some (Reconcile's loop).  One that was not yet in the informer  *)
(* or was still being admitted is left to Kubernetes.                      *)
(***************************************************************************)
ListedAreDeleted ==
  [][ns # Gone /\ ns.finalizer /\ ns' # Gone /\ ~ns'.finalizer => listed \intersect Present = {}]_vars

(***************************************************************************)
(* A namespace that lacks the finalizer, or is being deleted and still has *)
(* it, is never forgotten: its key is queued, Reconcile is at work on it,  *)
(* or the informer has yet to deliver a change of it, through conflicts,   *)
(* failing calls and restarts (Reconcile's returned errors,                *)
(* SetupWithManager).                                                      *)
(***************************************************************************)
NamespaceTended ==
  ns # Gone /\ (ns.deleting <=> ns.finalizer) => queued \/ at # "idle" \/ nsSeen # ns

(***************************************************************************)
(* A namespace that is being deleted goes away, through conflicts, failing *)
(* calls and restarts: Reconcile takes its finalizer off.                  *)
(***************************************************************************)
NamespaceGoes == Deleting ~> ns = Gone
=============================================================================
