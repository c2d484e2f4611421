---------------------------- MODULE TemplateStatus ----------------------------
(***************************************************************************)
(* What may happen to a KubeTemplate object: every change, the operator's  *)
(* included, is one step on the object as it is at that moment.  The       *)
(* operator makes its changes from copies that may be out of date;         *)
(* TemplateLifecycle is shown to implement this, so that none of its       *)
(* writes brings back an older spec, annotation, phase, hash or            *)
(* reconciliation time, or an object that was deleted.                     *)
(***************************************************************************)
EXTENDS Naturals

CONSTANTS Names, Specs, NoObj

VARIABLE api    \* the KubeTemplate objects

NoHash == 0

NewObject(v) == [spec |-> v, resume |-> FALSE, phase |-> "", hash |-> NoHash,
                 reconciled |-> "never"]

Exists(n) == api[n] # NoObj

\* Nothing, or what a release that did not keep hashes left behind.
Init ==
  \E v \in Specs :
    \/ api = [n \in Names |-> NoObj]
    \/ api = [n \in Names |-> [NewObject(v) EXCEPT !.phase = "Completed"]]

Becomes(n, o) == api' = [api EXCEPT ![n] = o]
-----------------------------------------------------------------------------
(* Users own the spec and the annotations.                                 *)

Create(n, v) == ~Exists(n) /\ Becomes(n, NewObject(v))
Edit(n, v) == Exists(n) /\ Becomes(n, [api[n] EXCEPT !.spec = v])
Annotate(n) == Exists(n) /\ Becomes(n, [api[n] EXCEPT !.resume = ~@])
Delete(n) == Exists(n) /\ Becomes(n, NoObj)

User(n) == (\E v \in Specs : Create(n, v) \/ Edit(n, v)) \/ Annotate(n) \/ Delete(n)
-----------------------------------------------------------------------------
(* The operator owns the status.                                           *)

\* A worker starts on a template, fails, or gives up on it.
Work(n, phase) ==
  /\ Exists(n) /\ phase \in {"Processing", "Failed", "Paused"}
  /\ Becomes(n, [api[n] EXCEPT !.phase = phase])

\* A worker is through with a template and records what it was.
Complete(n, h) ==
  Exists(n) /\ Becomes(n, [api[n] EXCEPT !.phase = "Completed", !.hash = h])

\* A template is new, or was resumed.
Queue(n) == Exists(n) /\ Becomes(n, [api[n] EXCEPT !.phase = "Queued"])

\* The spec is not the one recorded.
QueueAgain(n) ==
  /\ Exists(n) /\ api[n].phase \in {"Failed", "Completed"}
  /\ api[n].hash \notin {NoHash, api[n].spec}
  /\ Becomes(n, [api[n] EXCEPT !.phase = "Queued", !.hash = api[n].spec])

\* An older release completed it and recorded nothing.
Adopt(n) ==
  /\ Exists(n) /\ api[n].phase = "Completed" /\ api[n].hash = NoHash
  /\ Becomes(n, [api[n] EXCEPT !.hash = api[n].spec])

\* Its resources were compared with the spec recorded, and that was due.
Reconciled(n) ==
  /\ Exists(n) /\ api[n].phase = "Completed" /\ api[n].hash = api[n].spec
  /\ api[n].reconciled # "recent"
  /\ Becomes(n, [api[n] EXCEPT !.reconciled = "recent"])

Age(n) ==
  /\ Exists(n) /\ api[n].reconciled = "recent"
  /\ Becomes(n, [api[n] EXCEPT !.reconciled = "old"])

Operator(n) ==
  \/ \E phase \in {"Processing", "Failed", "Paused"} : Work(n, phase)
  \/ \E h \in Specs : Complete(n, h)
  \/ Queue(n) \/ QueueAgain(n) \/ Adopt(n) \/ Reconciled(n)

Next == \E n \in Names : User(n) \/ Operator(n) \/ Age(n)

Spec == Init /\ [][Next]_api
=============================================================================
